-------------------------- MODULE ServerSessionsProofs --------------------------
(***************************************************************************)
(* For any finite set of requests and any pool: no connection leaks,       *)
(* requests wait for each other only when whole runs have used up the      *)
(* pool, and the row of an answered create tells how its run went.         *)
(*                                                                         *)
(* SessionsInv is inductive: what a handler holds by where it is, that a   *)
(* thread of a node holds a connection only while it uses it, and how far  *)
(* a row is by where its handler is.  A step changes the record of one     *)
(* request; it opens one session, closes one, or neither.                  *)
(***************************************************************************)
EXTENDS ServerSessions, FiniteSetTheorems, SequenceTheorems, TLAPS

-----------------------------------------------------------------------------
(* What a request is. *)

\* where a handler holds its connection, and where it has none
Working == {"commit", "set_up", "run", "running", "failing", "persist"}
Without == NeedsMain \cup {"idle", "answered"}
Places  == Working \cup Without \cup {"close"}

ThreadType == [todo : Seq({"own", "event"}), held : {0, 1}, using : BOOLEAN]

Openers == {"main"} \cup Nodes

RequestType ==
  [at : Places, kind : Kinds \cup {"none"}, main : {0, 1}, route : Seq(SUBSET Nodes),
   threads : UNION {[N -> ThreadType] : N \in SUBSET Nodes},
   raised : SUBSET (Openers \X (Places \cup {"own"})), ran : BOOLEAN]

\* A thread has a connection while it uses one, and uses none when it is done.
ThreadOK(thread) ==
  /\ thread.using <=> thread.held = 1
  /\ thread.todo = <<>> => ~ thread.using

RequestOK(r) ==
  /\ r.at \in Working => r.main = 1
  /\ r.at \in Without => r.main = 0
  /\ r.at # "running" => r.threads = NoThreads
  /\ \A n \in DOMAIN r.threads : ThreadOK(r.threads[n])
  /\ r.at = "load" => r.kind \in {"approve", "read"}

RaisedIn(r, places) == \E failure \in r.raised : failure[2] \in places

\* How far the row of a create is, by where its handler is, and what went wrong.
RowTells(r, status) ==
  /\ status = "failed" => RaisedIn(r, InsideTry)
  /\ RaisedIn(r, InsideTry) => status = "failed" \/ RaisedIn(r, {"failing"})
  /\ status = "pending" => ~ r.ran \/ RaisedIn(r, {"failing", "persist"})
  /\ status = "persisted" => r.ran

RowOK(r, status) ==
  /\ r.at \in {"insert", "commit", "refresh", "set_up", "run"} => ~ r.ran /\ r.raised = {}
  /\ r.at \in {"refresh", "set_up", "run", "running", "failing", "persist"} => status = "pending"
  /\ r.at \in {"insert", "commit"} => status = "none"
  /\ r.at = "running" => r.ran /\ \A failure \in r.raised : failure[2] = "own"
  /\ r.at = "failing" => RaisedIn(r, InsideTry)
  /\ r.at \in {"persist", "final_refresh"} => r.raised = {} /\ r.ran
  /\ r.at = "final_refresh" => status = "persisted"
  /\ r.at \in {"close", "answered"} => RowTells(r, status)

RequestsInv ==
  /\ req \in [Requests -> RequestType]
  /\ \A q \in Requests : RequestOK(req[q])

PoolInv ==
  /\ checkedout = Cardinality(Holders)
  /\ checkedout <= PoolSize

RowsInv ==
  /\ row \in [Requests -> {"none", "awaiting_approval", "pending", "failed", "persisted"}]
  /\ \A q \in Requests : req[q].kind = "create" => RowOK(req[q], row[q])
  /\ \A q \in Requests : req[q].at = "idle" =>
       req[q].kind = "none" /\ req[q].raised = {} /\ ~ req[q].ran

-----------------------------------------------------------------------------
(* Connections. *)

\* session x of a request has a connection
Connected(r, x) ==
  IF x = "main" THEN r.main = 1
  ELSE x \in DOMAIN r.threads /\ r.threads[x].held > 0

LEMMA HoldersAreConnected ==
  Holders = {s \in Requests \X Openers : Connected(req[s[1]], s[2])}
BY DEF Holders, Sessions, HasConnection, Connected, Openers

LEMMA HoldersAreFinite ==
  IsFiniteSet(Holders) /\ Cardinality(Holders) \in Nat
<1>1. IsFiniteSet(Requests)
  BY SessionsAssumption
<1>2. IsFiniteSet({"main"})
  BY FS_Singleton
<1>3. IsFiniteSet(Nodes)
  <2> DEFINE a == {} \cup {"retrieve"}
             b == a \cup {"architecture"}
             c == b \cup {"security"}
             d == c \cup {"planner"}
             e == d \cup {"reviewer"}
             f == e \cup {"approval_gate"}
             g == f \cup {"ticket"}
             h == g \cup {"report"}
  <2>2. IsFiniteSet({})
    BY FS_EmptySet
  <2>3. IsFiniteSet(a)
    BY <2>2, FS_AddElement
  <2>4. IsFiniteSet(b)
    BY <2>3, FS_AddElement
  <2>5. IsFiniteSet(c)
    BY <2>4, FS_AddElement
  <2>6. IsFiniteSet(d)
    BY <2>5, FS_AddElement
  <2>7. IsFiniteSet(e)
    BY <2>6, FS_AddElement
  <2>8. IsFiniteSet(f)
    BY <2>7, FS_AddElement
  <2>9. IsFiniteSet(g)
    BY <2>8, FS_AddElement
  <2>10. IsFiniteSet(h)
    BY <2>9, FS_AddElement
  <2>11. Nodes = h
    BY DEF Nodes
  <2> QED
    BY <2>10, <2>11
<1>4. IsFiniteSet(Requests \X {"main"}) /\ IsFiniteSet(Requests \X Nodes)
  BY <1>1, <1>2, <1>3, FS_Product
<1>5. IsFiniteSet(Sessions)
  BY <1>4, FS_Union DEF Sessions
<1>6. Holders \subseteq Sessions
  BY DEF Holders
<1> QED
  BY <1>5, <1>6, FS_Subset, FS_CardinalityType

(* One request's record has changed, and none of its sessions has taken or *)
(* given back a connection; or one has taken; or one has given back.       *)
LEMMA SameHolders ==
  ASSUME req \in [Requests -> RequestType],
         NEW q \in Requests, NEW r, req' = [req EXCEPT ![q] = r],
         \A x \in Openers : Connected(r, x) <=> Connected(req[q], x)
  PROVE  Holders' = Holders
<1>1. Holders' = {s \in Requests \X Openers : Connected(req'[s[1]], s[2])}
  BY DEF Holders, Sessions, HasConnection, Connected, Openers
<1>2. \A s \in Requests \X Openers :
         Connected(req'[s[1]], s[2]) <=> Connected(req[s[1]], s[2])
  <2> SUFFICES ASSUME NEW s \in Requests \X Openers
               PROVE  Connected(req'[s[1]], s[2]) <=> Connected(req[s[1]], s[2])
    OBVIOUS
  <2>1. CASE s[1] = q
    BY <2>1
  <2>2. CASE s[1] # q
    <3>1. req'[s[1]] = req[s[1]]
      BY <2>2
    <3> QED
      BY <3>1
  <2> QED
    BY <2>1, <2>2
<1> QED
  BY <1>1, <1>2, HoldersAreConnected

OnlyChanges(q, r, x) ==
  /\ req' = [req EXCEPT ![q] = r]
  /\ \A y \in Openers \ {x} : Connected(r, y) <=> Connected(req[q], y)

LEMMA OneMoreHolder ==
  ASSUME req \in [Requests -> RequestType],
         NEW q \in Requests, NEW r, NEW x \in Openers, OnlyChanges(q, r, x),
         Connected(r, x), ~ Connected(req[q], x)
  PROVE  Cardinality(Holders') = Cardinality(Holders) + 1
<1>1. Holders' = {s \in Requests \X Openers : Connected(req'[s[1]], s[2])}
  BY DEF Holders, Sessions, HasConnection, Connected, Openers
<1>2. req'[q] = r /\ \A p \in Requests \ {q} : req'[p] = req[p]
  BY DEF OnlyChanges
<1>3. \A p \in Requests, y \in Openers :
         Connected(req'[p], y) <=> Connected(req[p], y) \/ (p = q /\ y = x)
  <2> TAKE p \in Requests, y \in Openers
  <2>1. CASE p = q
    BY <1>2, <2>1 DEF OnlyChanges
  <2>2. CASE p # q
    <3>1. req'[p] = req[p]
      BY <1>2, <2>2
    <3> QED
      BY <2>2, <3>1
  <2> QED
    BY <2>1, <2>2
<1>4. Holders' = Holders \cup {<<q, x>>}
  BY <1>1, <1>3, HoldersAreConnected
<1>5. <<q, x>> \notin Holders
  BY HoldersAreConnected
<1> QED
  BY <1>4, <1>5, HoldersAreFinite, FS_AddElement

LEMMA OneHolderLess ==
  ASSUME req \in [Requests -> RequestType],
         NEW q \in Requests, NEW r, NEW x \in Openers, OnlyChanges(q, r, x),
         Connected(req[q], x), ~ Connected(r, x)
  PROVE  Cardinality(Holders') = Cardinality(Holders) - 1
<1>1. Holders' = {s \in Requests \X Openers : Connected(req'[s[1]], s[2])}
  BY DEF Holders, Sessions, HasConnection, Connected, Openers
<1>2. req'[q] = r /\ \A p \in Requests \ {q} : req'[p] = req[p]
  BY DEF OnlyChanges
<1>3. \A p \in Requests, y \in Openers :
         Connected(req'[p], y) <=> Connected(req[p], y) /\ ~ (p = q /\ y = x)
  <2> TAKE p \in Requests, y \in Openers
  <2>1. CASE p = q
    BY <1>2, <2>1 DEF OnlyChanges
  <2>2. CASE p # q
    <3>1. req'[p] = req[p]
      BY <1>2, <2>2
    <3> QED
      BY <2>2, <3>1
  <2> QED
    BY <2>1, <2>2
<1>4. Holders' = Holders \ {<<q, x>>}
  BY <1>1, <1>3, HoldersAreConnected
<1>5. <<q, x>> \in Holders
  BY HoldersAreConnected
<1> QED
  BY <1>4, <1>5, HoldersAreFinite, FS_RemoveElement

-----------------------------------------------------------------------------
(* What a step of one request does to the invariant. *)

SessionsInv == RequestsInv /\ PoolInv /\ RowsInv

LEMMA RequestsKept ==
  ASSUME RequestsInv, NEW q \in Requests, NEW r \in RequestType,
         req' = [req EXCEPT ![q] = r], RequestOK(r)
  PROVE  RequestsInv'
<1>1. req' \in [Requests -> RequestType]
  BY DEF RequestsInv
<1>2. \A p \in Requests : RequestOK(req'[p])
  <2> TAKE p \in Requests
  <2>1. CASE p = q
    <3>1. req'[p] = r
      BY <2>1 DEF RequestsInv
    <3> QED
      BY <3>1
  <2>2. CASE p # q
    <3>1. req'[p] = req[p]
      BY <2>2 DEF RequestsInv
    <3> QED
      BY <3>1 DEF RequestsInv
  <2> QED
    BY <2>1, <2>2
<1> QED
  BY <1>1, <1>2 DEF RequestsInv

LEMMA RowsKept ==
  ASSUME RequestsInv, RowsInv, NEW q \in Requests, NEW r, NEW status,
         req' = [req EXCEPT ![q] = r], row' = [row EXCEPT ![q] = status],
         status \in {"none", "awaiting_approval", "pending", "failed", "persisted"},
         r.at # "idle", r.kind = "create" => RowOK(r, status)
  PROVE  RowsInv'
<1>1. row' \in [Requests -> {"none", "awaiting_approval", "pending", "failed", "persisted"}]
  BY DEF RowsInv
<1>2. ASSUME NEW p \in Requests
      PROVE  /\ req'[p].kind = "create" => RowOK(req'[p], row'[p])
             /\ req'[p].at = "idle" =>
                  req'[p].kind = "none" /\ req'[p].raised = {} /\ ~ req'[p].ran
  <2>1. CASE p = q
    <3>1. req'[p] = r /\ row'[p] = status
      BY <2>1 DEF RequestsInv, RowsInv
    <3> QED
      BY <3>1
  <2>2. CASE p # q
    <3>1. req'[p] = req[p] /\ row'[p] = row[p]
      BY <2>2 DEF RequestsInv, RowsInv
    <3> QED
      BY <3>1 DEF RowsInv
  <2> QED
    BY <2>1, <2>2
<1> QED
  BY <1>1, <1>2 DEF RowsInv

LEMMA RowStays ==
  ASSUME RowsInv, NEW q \in Requests, row' = row
  PROVE  row' = [row EXCEPT ![q] = row[q]]
BY DEF RowsInv

\* r is r0 elsewhere, with or without its own connection
Moved(r0, r, place, connection) ==
  /\ r \in RequestType
  /\ r.at = place /\ r.main = connection
  /\ r.kind = r0.kind /\ r.threads = r0.threads /\ r.raised = r0.raised /\ r.ran = r0.ran

LEMMA MovedBoth ==
  ASSUME NEW r0 \in RequestType, NEW place \in Places, NEW connection \in {0, 1}
  PROVE  Moved(r0, [r0 EXCEPT !.at = place, !.main = connection], place, connection)
BY DEF Moved, RequestType

LEMMA MovedOnly ==
  ASSUME NEW r0 \in RequestType, NEW place \in Places
  PROVE  Moved(r0, [r0 EXCEPT !.at = place], place, r0.main)
BY DEF Moved, RequestType

(* A handler goes on, outside the supersteps. *)
LEMMA MoveKeepsRequests ==
  ASSUME RequestsInv, NEW q \in Requests, NEW r, NEW place, NEW connection,
         req' = [req EXCEPT ![q] = r], Moved(req[q], r, place, connection),
         req[q].at # "running", place \notin {"running", "load", "idle"},
         place \in Working => connection = 1, place \in Without => connection = 0
  PROVE  /\ RequestsInv'
         /\ Cardinality(Holders') = Cardinality(Holders) + connection - req[q].main
<1>1. /\ req \in [Requests -> RequestType] /\ RequestOK(req[q])
      /\ req[q] \in RequestType /\ r \in RequestType
  BY DEF RequestsInv, Moved
<1>2. req[q].main \in {0, 1} /\ connection \in {0, 1} /\ r.main = connection
  BY <1>1 DEF Moved, RequestType
<1>3. r.threads = NoThreads /\ req[q].threads = NoThreads
  BY <1>1 DEF Moved, RequestOK
<1>4. RequestOK(r)
  BY <1>3 DEF RequestOK, Moved, NoThreads
<1>5. \A n \in Nodes : Connected(r, n) <=> Connected(req[q], n)
  BY <1>3 DEF Connected, Nodes
<1>6. /\ Connected(r, "main") <=> connection = 1
      /\ Connected(req[q], "main") <=> req[q].main = 1
  BY <1>2 DEF Connected
<1>7. RequestsInv'
  BY <1>1, <1>4, RequestsKept
<1>8. CASE connection = req[q].main
  <2>1. \A x \in Openers : Connected(r, x) <=> Connected(req[q], x)
    BY <1>5, <1>6, <1>8 DEF Openers
  <2>2. Holders' = Holders
    BY <1>1, <2>1, SameHolders
  <2> QED
    BY <1>2, <1>7, <1>8, <2>2, HoldersAreFinite
<1>9. "main" \in Openers /\ OnlyChanges(q, r, "main")
  BY <1>5 DEF Openers, OnlyChanges
<1>10. CASE connection = 1 /\ req[q].main = 0
  <2>1. Connected(r, "main") /\ ~ Connected(req[q], "main")
    BY <1>6, <1>10
  <2>2. Cardinality(Holders') = Cardinality(Holders) + 1
    BY <1>1, <1>9, <2>1, OneMoreHolder
  <2> QED
    BY <1>7, <1>10, <2>2, HoldersAreFinite
<1>11. CASE connection = 0 /\ req[q].main = 1
  <2>1. Connected(req[q], "main") /\ ~ Connected(r, "main")
    BY <1>6, <1>11
  <2>2. Cardinality(Holders') = Cardinality(Holders) - 1
    BY <1>1, <1>9, <2>1, OneHolderLess
  <2> QED
    BY <1>7, <1>11, <2>2, HoldersAreFinite
<1> QED
  BY <1>2, <1>8, <1>10, <1>11

\* A handler goes on to place, and its row to status; the pool is told.
Goes(q, r, place, connection, status) ==
  /\ req' = [req EXCEPT ![q] = r] /\ Moved(req[q], r, place, connection)
  /\ req[q].at # "running" /\ place \notin {"running", "load", "idle"}
  /\ place \in Working => connection = 1
  /\ place \in Without => connection = 0
  /\ checkedout' = checkedout + connection - req[q].main
  /\ connection > req[q].main => checkedout < PoolSize
  /\ row' = [row EXCEPT ![q] = status]
  /\ status \in {"none", "awaiting_approval", "pending", "failed", "persisted"}
  /\ req[q].kind = "create" => RowOK(r, status)

LEMMA MoveKeeps ==
  ASSUME SessionsInv, NEW q \in Requests, NEW r, NEW place, NEW connection, NEW status,
         Goes(q, r, place, connection, status)
  PROVE  SessionsInv'
<1>1. RequestsInv /\ PoolInv /\ RowsInv
  BY DEF SessionsInv
<1>2. /\ RequestsInv'
      /\ Cardinality(Holders') = Cardinality(Holders) + connection - req[q].main
  BY <1>1, MoveKeepsRequests DEF Goes
<1>3. RowsInv'
  <2>1. r.at # "idle" /\ (r.kind = "create" => RowOK(r, status))
    BY DEF Moved, Goes
  <2>2. /\ req' = [req EXCEPT ![q] = r] /\ row' = [row EXCEPT ![q] = status]
        /\ status \in {"none", "awaiting_approval", "pending", "failed", "persisted"}
    BY DEF Goes
  <2> QED
    BY <1>1, <2>1, <2>2, RowsKept
<1>4. req[q].main \in {0, 1} /\ connection \in {0, 1}
  BY <1>1 DEF RequestsInv, RequestType, Moved, Goes
<1>5. PoolInv'
  BY <1>1, <1>2, <1>4, HoldersAreFinite, SessionsAssumption DEF PoolInv, Goes
<1> QED
  BY <1>2, <1>3, <1>5 DEF SessionsInv

-----------------------------------------------------------------------------
(* The steps of a handler. *)

LEMMA InitEstablishesSessions == Init => SessionsInv
<1> SUFFICES ASSUME Init PROVE SessionsInv
  OBVIOUS
<1> DEFINE r0 == [at |-> "idle", kind |-> "none", main |-> 0, route |-> <<>>,
                  threads |-> NoThreads, raised |-> {}, ran |-> FALSE]
<1>1. r0 \in RequestType
  <2>1. NoThreads \in [{} -> ThreadType] /\ {} \in SUBSET Nodes
    BY DEF NoThreads
  <2>2. NoThreads \in UNION {[N -> ThreadType] : N \in SUBSET Nodes}
    BY <2>1
  <2>3. <<>> \in Seq(SUBSET Nodes)
    OBVIOUS
  <2>4. "idle" \in Places
    BY DEF Places, Without
  <2> QED
    BY <2>2, <2>3, <2>4 DEF RequestType
<1>2. req = [q \in Requests |-> r0] /\ row = [q \in Requests |-> "none"] /\ checkedout = 0
  BY DEF Init
<1>3. RequestOK(r0)
  BY DEF RequestOK, Working, NoThreads
<1>4. RequestsInv
  <2> HIDE DEF r0
  <2> QED
    BY <1>1, <1>2, <1>3 DEF RequestsInv
<1>5. \A s \in Requests \X Openers : ~ Connected(req[s[1]], s[2])
  BY <1>2 DEF Connected, NoThreads
<1>6. Holders = {}
  BY <1>5, HoldersAreConnected
<1>7. PoolInv
  BY <1>2, <1>6, FS_EmptySet, SessionsAssumption DEF PoolInv
<1>8. RowsInv
  BY <1>2 DEF RowsInv
<1> QED
  BY <1>4, <1>7, <1>8 DEF SessionsInv

LEMMA StartKeepsSessions ==
  ASSUME SessionsInv, UNCHANGED <<req, row, checkedout>> PROVE SessionsInv'
<1>1. Holders' = Holders
  BY DEF Holders, HasConnection
<1> QED
  BY <1>1 DEF SessionsInv, RequestsInv, PoolInv, RowsInv

(* A request arrives: it has taken nothing yet. *)
LEMMA ArriveKeepsSessions ==
  ASSUME SessionsInv, NEW q \in Requests, NEW kind \in MayAsk[q], Arrive(q, kind)
  PROVE  SessionsInv'
<1> DEFINE place  == IF kind = "create" THEN "insert" ELSE "load"
           status == IF kind = "create" THEN "none" ELSE "awaiting_approval"
           r      == [req[q] EXCEPT !.at = place, !.kind = kind]
<1>1. /\ req[q].at = "idle" /\ req' = [req EXCEPT ![q] = r]
      /\ row' = [row EXCEPT ![q] = status] /\ checkedout' = checkedout
  BY DEF Arrive
<1>2. RequestsInv /\ PoolInv /\ RowsInv
  BY DEF SessionsInv
<1>3. kind \in Kinds
  BY SessionsAssumption
<1>4. req \in [Requests -> RequestType] /\ req[q] \in RequestType /\ RequestOK(req[q])
  BY <1>2 DEF RequestsInv
<1>5. /\ r.at = place /\ r.kind = kind /\ r.main = req[q].main /\ r.threads = req[q].threads
      /\ r.raised = req[q].raised /\ r.ran = req[q].ran /\ r \in RequestType
  BY <1>3, <1>4 DEF RequestType, Places, Without, NeedsMain
<1>6. place \in {"insert", "load"} /\ (place = "load" => kind # "create")
  OBVIOUS
<1>7. status \in {"none", "awaiting_approval"} /\ (kind = "create" => status = "none")
  OBVIOUS
<1> HIDE DEF r, place, status
<1>8. RequestOK(r)
  <2>1. req[q].main = 0 /\ req[q].threads = NoThreads
    BY <1>1, <1>4 DEF RequestOK, Without
  <2>2. r.at \in Without /\ r.at \notin Working
    BY <1>5, <1>6 DEF Without, Working, NeedsMain
  <2>3. r.at = "load" => r.kind \in {"approve", "read"}
    BY <1>3, <1>5, <1>6 DEF Kinds
  <2>4. \A n \in DOMAIN r.threads : ThreadOK(r.threads[n])
    BY <1>5, <2>1 DEF NoThreads
  <2> QED
    BY <1>5, <2>1, <2>2, <2>3, <2>4 DEF RequestOK
<1>9. RequestsInv'
  BY <1>1, <1>2, <1>5, <1>8, RequestsKept
<1>10. \A x \in Openers : Connected(r, x) <=> Connected(req[q], x)
  BY <1>5 DEF Connected
<1>11. Holders' = Holders
  BY <1>1, <1>4, <1>10, SameHolders
<1>12. PoolInv'
  BY <1>1, <1>2, <1>11 DEF PoolInv
<1>13. r.kind = "create" => RowOK(r, status)
  <2>1. req[q].raised = {} /\ ~ req[q].ran
    BY <1>1, <1>2 DEF RowsInv
  <2>2. r.kind = "create" => r.at = "insert" /\ status = "none"
    BY <1>5, <1>6, <1>7 DEF place
  <2> QED
    BY <1>5, <2>1, <2>2 DEF RowOK
<1>14. RowsInv'
  BY <1>1, <1>2, <1>5, <1>6, <1>7, <1>13, RowsKept
<1> QED
  BY <1>9, <1>12, <1>14 DEF SessionsInv

\* What a step on q may use of the invariant.
LEMMA OfOne ==
  ASSUME SessionsInv, NEW q \in Requests
  PROVE  /\ req[q] \in RequestType /\ RequestOK(req[q])
         /\ row[q] \in {"none", "awaiting_approval", "pending", "failed", "persisted"}
         /\ req[q].kind = "create" => RowOK(req[q], row[q])
         /\ req[q].main \in {0, 1} /\ checkedout \in Nat
BY HoldersAreFinite DEF SessionsInv, RequestsInv, RowsInv, PoolInv, RequestType

LEMMA CheckoutMainKeeps ==
  ASSUME SessionsInv, NEW q \in Requests, CheckoutMain(q) PROVE SessionsInv'
<1> DEFINE place == AfterMain(q)
           r     == [req[q] EXCEPT !.at = place, !.main = 1]
<1>1. /\ req[q].at \in NeedsMain /\ checkedout < PoolSize
      /\ req' = [req EXCEPT ![q] = r] /\ checkedout' = checkedout + 1
  BY DEF CheckoutMain
<1>2. /\ req[q] \in RequestType /\ RequestOK(req[q]) /\ checkedout \in Nat
      /\ row[q] \in {"none", "awaiting_approval", "pending", "failed", "persisted"}
      /\ req[q].kind = "create" => RowOK(req[q], row[q])
  BY OfOne
<1>3. req[q].main = 0 /\ (req[q].at = "load" => req[q].kind \in {"approve", "read"})
  BY <1>1, <1>2 DEF RequestOK, Without
<1>4. /\ req[q].at = "insert" => place = "commit"
      /\ req[q].at = "refresh" => place = "set_up"
      /\ req[q].at = "load" => place \in {"set_up", "close"}
      /\ req[q].at = "final_refresh" => place = "close"
  <2>1. CASE req[q].at = "insert"
    BY <2>1 DEF AfterMain
  <2>2. CASE req[q].at = "refresh"
    BY <2>2 DEF AfterMain
  <2>3. CASE req[q].at = "load" /\ req[q].kind = "approve"
    BY <2>3 DEF AfterMain
  <2>4. CASE req[q].at = "load" /\ req[q].kind = "read"
    BY <2>4 DEF AfterMain
  <2>5. CASE req[q].at = "final_refresh"
    BY <2>5 DEF AfterMain
  <2> QED
    BY <1>1, <1>3, <2>1, <2>2, <2>3, <2>4, <2>5 DEF NeedsMain
<1>5. place \in {"commit", "set_up", "close"}
  BY <1>1, <1>4 DEF NeedsMain
<1>6. Moved(req[q], r, place, 1)
  BY <1>2, <1>5, MovedBoth DEF Places, Working
<1> HIDE DEF r, place
<1>7. row' = [row EXCEPT ![q] = row[q]]
  BY RowStays DEF SessionsInv, CheckoutMain
<1>8. req[q].kind = "create" => RowOK(r, row[q])
  BY <1>1, <1>2, <1>3, <1>4, <1>6 DEF RowOK, RowTells, RaisedIn, Moved, NeedsMain
<1>9. /\ req[q].at # "running" /\ place \notin {"running", "load", "idle"}
      /\ place \notin Without /\ checkedout' = checkedout + 1 - req[q].main
  BY <1>1, <1>2, <1>3, <1>5 DEF NeedsMain, Without
<1>10. Goes(q, r, place, 1, row[q])
  BY <1>1, <1>2, <1>6, <1>7, <1>8, <1>9 DEF Goes
<1> QED
  BY <1>10, MoveKeeps

LEMMA TimeoutMainKeeps ==
  ASSUME SessionsInv, NEW q \in Requests, TimeoutMain(q) PROVE SessionsInv'
<1> DEFINE r == [req[q] EXCEPT !.at = "close"]
<1>1. /\ req[q].at \in NeedsMain /\ req' = [req EXCEPT ![q] = r]
      /\ checkedout' = checkedout
  BY DEF TimeoutMain
<1>2. /\ req[q] \in RequestType /\ RequestOK(req[q]) /\ checkedout \in Nat
      /\ row[q] \in {"none", "awaiting_approval", "pending", "failed", "persisted"}
      /\ req[q].kind = "create" => RowOK(req[q], row[q])
  BY OfOne
<1>3. req[q].main = 0 /\ (req[q].at = "load" => req[q].kind \in {"approve", "read"})
  BY <1>1, <1>2 DEF RequestOK, Without
<1>4. Moved(req[q], r, "close", 0)
  BY <1>2, <1>3, MovedOnly DEF Places
<1> HIDE DEF r
<1>5. row' = [row EXCEPT ![q] = row[q]]
  BY RowStays DEF SessionsInv, TimeoutMain
<1>6. req[q].kind = "create" => RowOK(r, row[q])
  BY <1>1, <1>2, <1>3, <1>4 DEF RowOK, RowTells, RaisedIn, Moved, NeedsMain
<1>7. req[q].at # "running" /\ checkedout' = checkedout + 0 - req[q].main
  BY <1>1, <1>2, <1>3 DEF NeedsMain
<1>8. "close" \notin Working
  BY DEF Working
<1>9. Goes(q, r, "close", 0, row[q])
  BY <1>2, <1>1, <1>3, <1>4, <1>5, <1>6, <1>7, <1>8 DEF Goes
<1> QED
  BY <1>9, MoveKeeps

LEMMA CommitRowKeeps ==
  ASSUME SessionsInv, NEW q \in Requests, CommitRow(q) PROVE SessionsInv'
<1> DEFINE r == [req[q] EXCEPT !.at = "refresh", !.main = 0]
<1>1. /\ req[q].at = "commit" /\ req' = [req EXCEPT ![q] = r]
      /\ checkedout' = checkedout - 1 /\ row' = [row EXCEPT ![q] = "pending"]
  BY DEF CommitRow
<1>2. /\ req[q] \in RequestType /\ RequestOK(req[q]) /\ checkedout \in Nat
      /\ req[q].kind = "create" => RowOK(req[q], row[q])
  BY OfOne
<1>3. req[q].main = 1
  BY <1>1, <1>2 DEF RequestOK, Working
<1>4. Moved(req[q], r, "refresh", 0)
  BY <1>2, MovedBoth DEF Places, Without, NeedsMain
<1> HIDE DEF r
<1>5. req[q].kind = "create" => RowOK(r, "pending")
  BY <1>1, <1>2, <1>4 DEF RowOK, RowTells, RaisedIn, Moved
<1>6. "refresh" \notin Working /\ checkedout' = checkedout + 0 - req[q].main
  BY <1>1, <1>2, <1>3 DEF Working
<1>7. Goes(q, r, "refresh", 0, "pending")
  BY <1>1, <1>3, <1>4, <1>5, <1>6 DEF Goes
<1> QED
  BY <1>7, MoveKeeps

LEMMA SetUpKeeps ==
  ASSUME SessionsInv, NEW q \in Requests, SetUp(q) PROVE SessionsInv'
<1> DEFINE r == [req[q] EXCEPT !.at = "run"]
<1>1. /\ req[q].at = "set_up" /\ req' = [req EXCEPT ![q] = r]
      /\ checkedout' = checkedout
  BY DEF SetUp
<1>2. /\ req[q] \in RequestType /\ RequestOK(req[q]) /\ checkedout \in Nat
      /\ row[q] \in {"none", "awaiting_approval", "pending", "failed", "persisted"}
      /\ req[q].kind = "create" => RowOK(req[q], row[q])
  BY OfOne
<1>3. req[q].main = 1
  BY <1>1, <1>2 DEF RequestOK, Working
<1>4. Moved(req[q], r, "run", 1)
  BY <1>2, <1>3, MovedOnly DEF Places, Working
<1> HIDE DEF r
<1>5. row' = [row EXCEPT ![q] = row[q]]
  BY RowStays DEF SessionsInv, SetUp
<1>6. req[q].kind = "create" => RowOK(r, row[q])
  BY <1>1, <1>2, <1>4 DEF RowOK, RowTells, RaisedIn, Moved
<1>7. "run" \notin Without /\ checkedout' = checkedout + 1 - req[q].main
  BY <1>1, <1>2, <1>3 DEF Without, NeedsMain
<1>8. Goes(q, r, "run", 1, row[q])
  BY <1>1, <1>2, <1>3, <1>4, <1>5, <1>6, <1>7 DEF Goes
<1> QED
  BY <1>8, MoveKeeps

LEMMA RunFailedKeeps ==
  ASSUME SessionsInv, NEW q \in Requests, RunFailed(q) PROVE SessionsInv'
<1>1. /\ req[q] \in RequestType /\ RequestOK(req[q]) /\ checkedout \in Nat
      /\ row[q] \in {"none", "awaiting_approval", "pending", "failed", "persisted"}
      /\ req[q].kind = "create" => RowOK(req[q], row[q])
  BY OfOne
<1>2. req[q].at = "failing" /\ req[q].main = 1
  BY <1>1 DEF RequestOK, Working, RunFailed
<1>3. "close" \notin Working /\ "close" \notin Without /\ "close" \in Places
  BY DEF Working, Without, NeedsMain, Places
<1>4. CASE req[q].kind = "create"
  <2> DEFINE r == [req[q] EXCEPT !.at = "close", !.main = 0]
  <2>1. /\ req' = [req EXCEPT ![q] = r]
        /\ checkedout' = checkedout - 1 /\ row' = [row EXCEPT ![q] = "failed"]
    BY <1>4 DEF RunFailed
  <2>2. Moved(req[q], r, "close", 0)
    BY <1>1, <1>3, MovedBoth
  <2> HIDE DEF r
  <2>3. RowOK(r, "failed")
    BY <1>1, <1>2, <1>4, <2>2 DEF RowOK, RowTells, RaisedIn, Moved
  <2>4. checkedout' = checkedout + 0 - req[q].main
    BY <1>1, <1>2, <2>1
  <2>5. Goes(q, r, "close", 0, "failed")
    BY <1>2, <1>3, <2>1, <2>2, <2>3, <2>4 DEF Goes
  <2> QED
    BY <2>5, MoveKeeps
<1>5. CASE req[q].kind # "create"
  <2> DEFINE r == [req[q] EXCEPT !.at = "close"]
  <2>1. req' = [req EXCEPT ![q] = r] /\ checkedout' = checkedout
    BY <1>5 DEF RunFailed
  <2>2. Moved(req[q], r, "close", 1)
    BY <1>1, <1>2, <1>3, MovedOnly
  <2> HIDE DEF r
  <2>3. row' = [row EXCEPT ![q] = row[q]]
    BY <1>5, RowStays DEF SessionsInv, RunFailed
  <2>4. checkedout' = checkedout + 1 - req[q].main
    BY <1>1, <1>2, <2>1
  <2>5. Goes(q, r, "close", 1, row[q])
    BY <1>1, <1>2, <1>3, <1>5, <2>1, <2>2, <2>3, <2>4 DEF Goes
  <2> QED
    BY <2>5, MoveKeeps
<1> QED
  BY <1>4, <1>5

LEMMA PersistKeeps ==
  ASSUME SessionsInv, NEW q \in Requests, PersistAndRespond(q) PROVE SessionsInv'
<1> DEFINE r == [req[q] EXCEPT !.at = "final_refresh", !.main = 0]
<1>1. /\ req[q].at = "persist" /\ req' = [req EXCEPT ![q] = r]
      /\ checkedout' = checkedout - 1 /\ row' = [row EXCEPT ![q] = "persisted"]
  BY DEF PersistAndRespond
<1>2. /\ req[q] \in RequestType /\ RequestOK(req[q]) /\ checkedout \in Nat
      /\ req[q].kind = "create" => RowOK(req[q], row[q])
  BY OfOne
<1>3. req[q].main = 1
  BY <1>1, <1>2 DEF RequestOK, Working
<1>4. Moved(req[q], r, "final_refresh", 0)
  BY <1>2, MovedBoth DEF Places, Without, NeedsMain
<1> HIDE DEF r
<1>5. req[q].kind = "create" => RowOK(r, "persisted")
  BY <1>1, <1>2, <1>4 DEF RowOK, RowTells, RaisedIn, Moved
<1>6. "final_refresh" \notin Working /\ checkedout' = checkedout + 0 - req[q].main
  BY <1>1, <1>2, <1>3 DEF Working
<1>7. Goes(q, r, "final_refresh", 0, "persisted")
  BY <1>1, <1>3, <1>4, <1>5, <1>6 DEF Goes
<1> QED
  BY <1>7, MoveKeeps

LEMMA CloseKeeps ==
  ASSUME SessionsInv, NEW q \in Requests, Close(q) PROVE SessionsInv'
<1> DEFINE r == [req[q] EXCEPT !.at = "answered", !.main = 0]
<1>1. /\ req[q].at = "close" /\ req' = [req EXCEPT ![q] = r]
      /\ checkedout' = checkedout - req[q].main
  BY DEF Close
<1>2. /\ req[q] \in RequestType /\ RequestOK(req[q]) /\ checkedout \in Nat
      /\ row[q] \in {"none", "awaiting_approval", "pending", "failed", "persisted"}
      /\ req[q].kind = "create" => RowOK(req[q], row[q]) 
      /\ req[q].main \in {0, 1}
  BY OfOne
<1>3. Moved(req[q], r, "answered", 0)
  BY <1>2, MovedBoth DEF Places, Without
<1> HIDE DEF r
<1>4. row' = [row EXCEPT ![q] = row[q]]
  BY RowStays DEF SessionsInv, Close
<1>5. req[q].kind = "create" => RowOK(r, row[q])
  BY <1>1, <1>2, <1>3 DEF RowOK, RowTells, RaisedIn, Moved
<1>6. "answered" \notin Working /\ checkedout' = checkedout + 0 - req[q].main
  BY <1>1, <1>2 DEF Working
<1>7. 0 > req[q].main => FALSE
  BY <1>2
<1>8. Goes(q, r, "answered", 0, row[q])
  BY <1>1, <1>2, <1>3, <1>4, <1>5, <1>6, <1>7 DEF Goes
<1> QED
  BY <1>8, MoveKeeps

-----------------------------------------------------------------------------
(* The supersteps of a run. *)

LEMMA FreshThreads ==
  ASSUME NEW N \in SUBSET Nodes, NEW kind
  PROVE  /\ Threads(N, kind) \in [N -> ThreadType]
         /\ \A n \in N : ThreadOK(Threads(N, kind)[n]) /\ Threads(N, kind)[n].held = 0
<1>1. ASSUME NEW n \in N
      PROVE  Threads(N, kind)[n] \in ThreadType
             /\ ThreadOK(Threads(N, kind)[n]) /\ Threads(N, kind)[n].held = 0
  <2> DEFINE todo   == SessionsOf(n, kind)
             thread == [todo |-> todo, held |-> 0, using |-> FALSE]
  <2>1. /\ <<"own", "event">> \in Seq({"own", "event"}) /\ <<"event">> \in Seq({"own", "event"})
        /\ <<"event", "event">> \in Seq({"own", "event"})
        /\ <<"own", "own", "event">> \in Seq({"own", "event"})
    OBVIOUS
  <2>2. todo \in {<<"own", "event">>, <<"own", "own", "event">>, <<"event", "event">>, <<"event">>}
    BY DEF SessionsOf
  <2>3. todo \in Seq({"own", "event"})
    BY <2>1, <2>2
  <2>4. Threads(N, kind)[n] = thread
    BY DEF Threads
  <2> HIDE DEF todo
  <2>5. thread \in ThreadType /\ thread.using = FALSE /\ thread.held = 0
    BY <2>3 DEF ThreadType
  <2> HIDE DEF thread
  <2>6. ThreadOK(thread)
    BY <2>5 DEF ThreadOK
  <2> QED
    BY <2>4, <2>5, <2>6
<1>2. Threads(N, kind) \in [N -> ThreadType]
  BY <1>1 DEF Threads
<1> QED
  BY <1>1, <1>2

LEMMA RoutesAreSequences ==
  ASSUME NEW kind, NEW route \in Routes(kind)
  PROVE  route \in Seq(SUBSET Nodes) /\ route # <<>>
<1>1. Analysed \in Seq(SUBSET Nodes)
  BY DEF Analysed, Nodes
<1>2. <<{"approval_gate"}>> \in Seq(SUBSET Nodes)
  BY DEF Nodes
<1>3. <<{"approval_gate"}, {"report"}>> \in Seq(SUBSET Nodes)
  BY DEF Nodes
<1>4. <<{"approval_gate"}, {"ticket"}, {"report"}>> \in Seq(SUBSET Nodes)
  BY DEF Nodes
<1>5. Len(Analysed) = 4
  BY DEF Analysed
<1>6. /\ Analysed \o <<{"approval_gate"}>> \in Seq(SUBSET Nodes)
      /\ Len(Analysed \o <<{"approval_gate"}>>) = Len(Analysed) + Len(<<{"approval_gate"}>>)
  BY <1>1, <1>2, ConcatProperties
<1>7. /\ Analysed \o <<{"approval_gate"}, {"report"}>> \in Seq(SUBSET Nodes)
      /\ Len(Analysed \o <<{"approval_gate"}, {"report"}>>)
           = Len(Analysed) + Len(<<{"approval_gate"}, {"report"}>>)
  BY <1>1, <1>3, ConcatProperties
<1>8. /\ Len(<<{"approval_gate"}>>) = 1 /\ Len(<<{"approval_gate"}, {"report"}>>) = 2
      /\ Len(<<{"approval_gate"}, {"ticket"}, {"report"}>>) = 3
  OBVIOUS
<1>9. route \in Seq(SUBSET Nodes) /\ Len(route) > 0
  <2>1. CASE kind = "create"
    <3>1. route = Analysed \o <<{"approval_gate"}>>
             \/ route = Analysed \o <<{"approval_gate"}, {"report"}>>
      BY <2>1 DEF Routes
    <3> QED
      BY <1>5, <1>6, <1>7, <1>8, <3>1
  <2>2. CASE kind # "create"
    <3>1. route = <<{"approval_gate"}, {"ticket"}, {"report"}>>
             \/ route = <<{"approval_gate"}, {"report"}>>
      BY <2>2 DEF Routes
    <3>2. CASE route = <<{"approval_gate"}, {"ticket"}, {"report"}>>
      <4>1. route \in Seq(SUBSET Nodes)
        BY <1>4, <3>2
      <4>2. Len(route) = 3
        BY <3>2
      <4> QED
        BY <4>1, <4>2
    <3>3. CASE route = <<{"approval_gate"}, {"report"}>>
      <4>1. route \in Seq(SUBSET Nodes)
        BY <1>3, <3>3
      <4>2. Len(route) = 2
        BY <3>3
      <4> QED
        BY <4>1, <4>2
    <3> QED
      BY <3>1, <3>2, <3>3
  <2> QED
    BY <2>1, <2>2
<1> QED
  BY <1>9

LEMMA NextSuperstep ==
  ASSUME NEW route \in Seq(SUBSET Nodes), route # <<>>
  PROVE  Head(route) \in SUBSET Nodes /\ Tail(route) \in Seq(SUBSET Nodes)
BY HeadTailProperties

\* Every thread of the superstep is without a connection, as it starts and as it ends.
Resting(r) == \A n \in DOMAIN r.threads : r.threads[n].held = 0

\* From one superstep to the next, or out of them.
Steps(q, r) ==
  /\ req' = [req EXCEPT ![q] = r] /\ r \in RequestType
  /\ RequestOK(r) /\ Resting(r) /\ Resting(req[q])
  /\ r.main = req[q].main /\ r.kind = req[q].kind /\ r.at # "idle"
  /\ UNCHANGED <<checkedout, row>>
  /\ req[q].kind = "create" => RowOK(r, row[q])

LEMMA StepKeeps ==
  ASSUME SessionsInv, NEW q \in Requests, NEW r, Steps(q, r)
  PROVE  SessionsInv'
<1>1. RequestsInv /\ PoolInv /\ RowsInv /\ req \in [Requests -> RequestType]
  BY DEF SessionsInv, RequestsInv
<1>2. /\ req' = [req EXCEPT ![q] = r] /\ r \in RequestType /\ RequestOK(r)
      /\ checkedout' = checkedout /\ row' = row
  BY DEF Steps
<1>3. RequestsInv'
  BY <1>1, <1>2, RequestsKept
<1>4. \A x \in Openers : Connected(r, x) <=> Connected(req[q], x)
  BY DEF Connected, Openers, Steps, Resting
<1>5. Holders' = Holders
  BY <1>1, <1>2, <1>4, SameHolders
<1>6. PoolInv'
  BY <1>1, <1>2, <1>5 DEF PoolInv
<1>7. RowsInv'
  <2>1. /\ r.at # "idle" /\ (r.kind = "create" => RowOK(r, row[q]))
        /\ row[q] \in {"none", "awaiting_approval", "pending", "failed", "persisted"}
    BY OfOne DEF Steps
  <2>2. row' = [row EXCEPT ![q] = row[q]]
    BY <1>1, <1>2, RowStays
  <2> QED
    BY <1>1, <1>2, <2>1, <2>2, RowsKept
<1> QED
  BY <1>3, <1>6, <1>7 DEF SessionsInv

LEMMA RunKeeps ==
  ASSUME SessionsInv, NEW q \in Requests, Run(q) PROVE SessionsInv'
<1>1. /\ req[q].at = "run" /\ checkedout' = checkedout /\ row' = row
  BY DEF Run
<1>2. PICK route \in Routes(req[q].kind) :
        req' = [req EXCEPT ![q] =
                  [req[q] EXCEPT !.at = "running", !.ran = TRUE, !.route = Tail(route),
                                 !.threads = Threads(Head(route), req[q].kind)]]
  BY DEF Run
<1> DEFINE N == Head(route)
           threads == Threads(N, req[q].kind)
           rest == Tail(route)
           r == [req[q] EXCEPT !.at = "running", !.ran = TRUE, !.route = rest, !.threads = threads]
<1>3. /\ req[q] \in RequestType /\ RequestOK(req[q])
      /\ req[q].kind = "create" => RowOK(req[q], row[q])
  BY OfOne
<1>4. N \in SUBSET Nodes /\ rest \in Seq(SUBSET Nodes)
  BY RoutesAreSequences, NextSuperstep
<1>5. /\ threads \in [N -> ThreadType]
      /\ \A n \in N : ThreadOK(threads[n]) /\ threads[n].held = 0
  BY <1>4, FreshThreads
<1> HIDE DEF N, threads, rest
<1>6. threads \in UNION {[M -> ThreadType] : M \in SUBSET Nodes} /\ DOMAIN threads = N
  BY <1>4, <1>5
<1>7. /\ r \in RequestType /\ r.at = "running" /\ r.threads = threads
      /\ r.main = req[q].main /\ r.kind = req[q].kind /\ r.ran = TRUE /\ r.raised = req[q].raised
  BY <1>3, <1>4, <1>6 DEF RequestType, Places, Working
<1>8. req' = [req EXCEPT ![q] = r]
  BY <1>2 DEF N, threads, rest
<1> HIDE DEF r
<1>9. req[q].main = 1 /\ req[q].threads = NoThreads
  BY <1>1, <1>3 DEF RequestOK, Working
<1>10. RequestOK(r)
  BY <1>5, <1>6, <1>7, <1>9 DEF RequestOK, Without, NeedsMain
<1>11. Resting(r) /\ Resting(req[q])
  BY <1>5, <1>6, <1>7, <1>9 DEF Resting, NoThreads
<1>12. req[q].kind = "create" => RowOK(r, row[q])
  BY <1>1, <1>3, <1>7 DEF RowOK
<1>13. Steps(q, r)
  BY <1>1, <1>7, <1>8, <1>10, <1>11, <1>12 DEF Steps
<1> QED
  BY <1>13, StepKeeps

LEMMA OverIsResting ==
  ASSUME SessionsInv, NEW q \in Requests, StepIsOver(q) PROVE Resting(req[q])
<1>1. req[q] \in RequestType /\ RequestOK(req[q])
  BY OfOne
<1>2. SUFFICES ASSUME NEW n \in DOMAIN req[q].threads PROVE req[q].threads[n].held = 0
  BY DEF Resting
<1>3. PICK N \in SUBSET Nodes : req[q].threads \in [N -> ThreadType]
  BY <1>1 DEF RequestType
<1>4. req[q].threads[n] \in ThreadType
  BY <1>2, <1>3
<1>5. req[q].threads[n].held \in {0, 1}
  BY <1>4 DEF ThreadType
<1>6. ThreadOK(req[q].threads[n]) /\ req[q].threads[n].todo = <<>>
  BY <1>1, <1>2 DEF RequestOK, StepIsOver
<1> QED
  BY <1>5, <1>6 DEF ThreadOK

LEMMA EndOfStepKeeps ==
  ASSUME SessionsInv, NEW q \in Requests, EndOfStep(q) PROVE SessionsInv'
<1>1. /\ req[q].at = "running" /\ checkedout' = checkedout /\ row' = row /\ StepIsOver(q)
  BY DEF EndOfStep, StepIsOver
<1>2. /\ req[q] \in RequestType /\ RequestOK(req[q])
      /\ req[q].kind = "create" => RowOK(req[q], row[q])
  BY OfOne
<1>3. req[q].main = 1
  BY <1>1, <1>2 DEF RequestOK, Working
<1>4. Resting(req[q])
  BY <1>1, OverIsResting
<1>5. ASSUME NEW place \in {"failing", "persist"},
             req' = [req EXCEPT ![q] = [req[q] EXCEPT !.at = place, !.threads = NoThreads]],
             place = "failing" <=> req[q].raised # {}
      PROVE  SessionsInv'
  <2> DEFINE r == [req[q] EXCEPT !.at = place, !.threads = NoThreads]
  <2>1. NoThreads \in [{} -> ThreadType] /\ {} \in SUBSET Nodes
    BY DEF NoThreads
  <2>2. NoThreads \in UNION {[N -> ThreadType] : N \in SUBSET Nodes}
    BY <2>1
  <2>3. /\ r \in RequestType /\ r.at = place /\ r.threads = NoThreads /\ r.raised = req[q].raised
        /\ r.main = req[q].main /\ r.kind = req[q].kind /\ r.ran = req[q].ran
    BY <1>2, <2>2 DEF RequestType, Places, Working
  <2>4. req' = [req EXCEPT ![q] = r]
    BY <1>5
  <2> HIDE DEF r
  <2>5. RequestOK(r) /\ Resting(r)
    BY <1>3, <2>3 DEF RequestOK, Resting, NoThreads, Without, NeedsMain
  <2>6. req[q].kind = "create" => RowOK(r, row[q])
    BY <1>1, <1>2, <1>5, <2>3 DEF RowOK, RaisedIn, InsideTry
  <2>7. Steps(q, r)
    BY <1>1, <1>4, <1>5, <2>3, <2>4, <2>5, <2>6 DEF Steps
  <2> QED
    BY <2>7, StepKeeps
<1>6. CASE req[q].raised # {}
  <2>1. req' = [req EXCEPT ![q] = [req[q] EXCEPT !.at = "failing", !.threads = NoThreads]]
    BY <1>6 DEF EndOfStep
  <2> QED
    BY <1>5, <1>6, <2>1
<1>7. CASE req[q].raised = {} /\ req[q].route = <<>>
  <2>1. req' = [req EXCEPT ![q] = [req[q] EXCEPT !.at = "persist", !.threads = NoThreads]]
    BY <1>7 DEF EndOfStep
  <2> QED
    BY <1>5, <1>7, <2>1
<1>8. CASE req[q].raised = {} /\ req[q].route # <<>>
  <2> DEFINE N == Head(req[q].route)
             threads == Threads(N, req[q].kind)
             rest == Tail(req[q].route)
             r == [req[q] EXCEPT !.route = rest, !.threads = threads]
  <2>1. req' = [req EXCEPT ![q] = r]
    BY <1>8 DEF EndOfStep
  <2>2. req[q].route \in Seq(SUBSET Nodes)
    BY <1>2 DEF RequestType
  <2>3. N \in SUBSET Nodes /\ rest \in Seq(SUBSET Nodes)
    BY <1>8, <2>2, NextSuperstep
  <2>4. /\ threads \in [N -> ThreadType]
        /\ \A n \in N : ThreadOK(threads[n]) /\ threads[n].held = 0
    BY <2>3, FreshThreads
  <2> HIDE DEF N, threads, rest
  <2>5. threads \in UNION {[M -> ThreadType] : M \in SUBSET Nodes} /\ DOMAIN threads = N
    BY <2>3, <2>4
  <2>6. /\ r \in RequestType /\ r.at = req[q].at /\ r.threads = threads /\ r.raised = req[q].raised
        /\ r.main = req[q].main /\ r.kind = req[q].kind /\ r.ran = req[q].ran
    BY <1>2, <2>3, <2>5 DEF RequestType
  <2> HIDE DEF r
  <2>7. RequestOK(r) /\ Resting(r)
    BY <1>1, <1>3, <2>4, <2>5, <2>6 DEF RequestOK, Resting, Without, NeedsMain
  <2>8. req[q].kind = "create" => RowOK(r, row[q])
    BY <1>1, <1>2, <2>6 DEF RowOK
  <2>9. Steps(q, r)
    BY <1>1, <1>4, <2>1, <2>6, <2>7, <2>8 DEF Steps
  <2> QED
    BY <2>9, StepKeeps
<1> QED
  BY <1>6, <1>7, <1>8

(* A statement that is no node's fails: the handler keeps its connection.   *)
LEMMA FailsKeeps ==
  ASSUME SessionsInv, NEW q \in Requests, Fails(q) PROVE SessionsInv'
<1> DEFINE caught == \/ req[q].at \in {"run", "running"}
                     \/ req[q].at = "set_up" /\ req[q].kind = "create"
           place  == IF caught THEN "failing" ELSE "close"
           raised == req[q].raised \cup {<<"main", req[q].at>>}
           r == [req[q] EXCEPT !.at = place, !.threads = NoThreads, !.raised = raised]
<1>1. /\ req' = [req EXCEPT ![q] = r] /\ UNCHANGED <<checkedout, row>>
      /\ req[q].at \in {"commit", "set_up", "run", "running", "failing", "persist"}
      /\ req[q].at = "running" => StepIsOver(q) /\ req[q].raised = {}
  BY DEF Fails, StepIsOver
<1>2. /\ req[q] \in RequestType /\ RequestOK(req[q])
      /\ req[q].kind = "create" => RowOK(req[q], row[q])
  BY OfOne
<1>3. req[q].main = 1 /\ place \in {"failing", "close"}
  BY <1>1, <1>2 DEF RequestOK, Working
<1>4. Resting(req[q])
  <2>1. CASE req[q].at = "running"
    BY <1>1, <2>1, OverIsResting
  <2>2. CASE req[q].at # "running"
    BY <1>2, <2>2 DEF RequestOK, Resting, NoThreads
  <2> QED
    BY <2>1, <2>2
<1>5. NoThreads \in UNION {[N -> ThreadType] : N \in SUBSET Nodes}
  <2>1. NoThreads \in [{} -> ThreadType] /\ {} \in SUBSET Nodes
    BY DEF NoThreads
  <2> QED
    BY <2>1
<1>6. raised \in SUBSET (Openers \X (Places \cup {"own"}))
  BY <1>2 DEF RequestType, Openers
<1>7. <<"main", req[q].at>> \in raised /\ req[q].raised \subseteq raised
  OBVIOUS
<1>8. /\ place = "failing" => req[q].at \in {"set_up", "run", "running"}
      /\ place = "close" => /\ req[q].at \in {"commit", "set_up", "failing", "persist"}
                            /\ req[q].kind = "create" => req[q].at # "set_up"
  BY <1>1
<1>9. \A failure \in raised : failure \in req[q].raised \/ failure[2] = req[q].at
  OBVIOUS
<1> HIDE DEF raised, place
<1>10. /\ r \in RequestType /\ r.at = place /\ r.threads = NoThreads /\ r.raised = raised
       /\ r.main = req[q].main /\ r.kind = req[q].kind /\ r.ran = req[q].ran
  BY <1>2, <1>3, <1>5, <1>6 DEF RequestType, Places, Working
<1>11. req' = [req EXCEPT ![q] = r]
  BY <1>1 DEF raised, place
<1> HIDE DEF r
<1>12. RequestOK(r) /\ Resting(r)
  BY <1>3, <1>10 DEF RequestOK, Resting, NoThreads, Without, NeedsMain
<1>13. ASSUME req[q].kind = "create" PROVE RowOK(r, row[q])
  <2>1. CASE place = "failing"
    <3>1. RaisedIn(r, InsideTry)
      BY <1>7, <1>8, <1>10, <2>1 DEF RaisedIn, InsideTry
    <3>2. row[q] = "pending"
      BY <1>2, <1>8, <1>13, <2>1 DEF RowOK
    <3> QED
      BY <1>10, <2>1, <3>1, <3>2 DEF RowOK
  <2>2. CASE place = "close"
    <3>1. RaisedIn(r, {req[q].at})
      BY <1>7, <1>10 DEF RaisedIn
    <3>2. CASE req[q].at = "commit"
      <4>1. row[q] = "none" /\ req[q].raised = {}
        BY <1>2, <1>13, <3>2 DEF RowOK
      <4>2. ~ RaisedIn(r, InsideTry)
        BY <1>9, <1>10, <3>2, <4>1 DEF RaisedIn, InsideTry
      <4> QED
        BY <1>10, <2>2, <4>1, <4>2 DEF RowOK, RowTells
    <3>3. CASE req[q].at = "failing"
      <4>1. row[q] = "pending"
        BY <1>2, <1>13, <3>3 DEF RowOK
      <4>2. RaisedIn(r, {"failing"}) /\ RaisedIn(r, {"failing", "persist"})
        BY <3>1, <3>3 DEF RaisedIn
      <4> QED
        BY <1>10, <2>2, <4>1, <4>2 DEF RowOK, RowTells
    <3>4. CASE req[q].at = "persist"
      <4>1. row[q] = "pending" /\ req[q].raised = {}
        BY <1>2, <1>13, <3>4 DEF RowOK
      <4>2. RaisedIn(r, {"failing", "persist"})
        BY <3>1, <3>4 DEF RaisedIn
      <4>3. ~ RaisedIn(r, InsideTry)
        BY <1>9, <1>10, <3>4, <4>1 DEF RaisedIn, InsideTry
      <4> QED
        BY <1>10, <2>2, <4>1, <4>2, <4>3 DEF RowOK, RowTells
    <3> QED
      BY <1>8, <1>13, <2>2, <3>2, <3>3, <3>4
  <2> QED
    BY <1>3, <2>1, <2>2
<1>14. Steps(q, r)
  BY <1>1, <1>3, <1>4, <1>10, <1>11, <1>12, <1>13 DEF Steps
<1> QED
  BY <1>14, StepKeeps

-----------------------------------------------------------------------------
(* The sessions of a node. *)

\* r is r0 but for thread n, which has become thread, and for what was raised
Rethreaded(r0, r, n, thread) ==
  /\ r.threads = [r0.threads EXCEPT ![n] = thread]
  /\ r.at = r0.at /\ r.main = r0.main /\ r.kind = r0.kind /\ r.ran = r0.ran

LEMMA OneThread ==
  ASSUME NEW r0 \in RequestType, NEW n \in DOMAIN r0.threads, NEW thread \in ThreadType
  PROVE  /\ [r0.threads EXCEPT ![n] = thread] \in UNION {[N -> ThreadType] : N \in SUBSET Nodes}
         /\ DOMAIN [r0.threads EXCEPT ![n] = thread] = DOMAIN r0.threads
         /\ [r0.threads EXCEPT ![n] = thread][n] = thread
         /\ \A m \in DOMAIN r0.threads \ {n} : [r0.threads EXCEPT ![n] = thread][m] = r0.threads[m]
         /\ n \in Nodes /\ r0.threads[n] \in ThreadType
<1>1. PICK N \in SUBSET Nodes : r0.threads \in [N -> ThreadType]
  BY DEF RequestType
<1> QED
  BY <1>1

\* A thread takes its connection or gives it back, or does without.
Works(q, r, n, thread) ==
  /\ req' = [req EXCEPT ![q] = r] /\ r \in RequestType
  /\ req[q].at = "running" /\ n \in DOMAIN req[q].threads
  /\ Rethreaded(req[q], r, n, thread)
  /\ thread \in ThreadType /\ ThreadOK(thread)
  /\ checkedout' = checkedout + thread.held - req[q].threads[n].held
  /\ thread.held > req[q].threads[n].held => checkedout < PoolSize
  /\ \A failure \in r.raised : failure \in req[q].raised \/ failure[2] = "own"
  /\ row' = row

LEMMA WorkKeeps ==
  ASSUME SessionsInv, NEW q \in Requests, NEW r, NEW n, NEW thread, Works(q, r, n, thread)
  PROVE  SessionsInv'
<1> DEFINE before == req[q].threads[n]
<1>1. /\ RequestsInv /\ PoolInv /\ RowsInv /\ req \in [Requests -> RequestType]
      /\ req[q] \in RequestType /\ RequestOK(req[q]) /\ checkedout \in Nat
      /\ row[q] \in {"none", "awaiting_approval", "pending", "failed", "persisted"}
      /\ req[q].kind = "create" => RowOK(req[q], row[q])
  BY OfOne DEF SessionsInv, RequestsInv
<1>2. /\ req' = [req EXCEPT ![q] = r] /\ r \in RequestType /\ row' = row
      /\ req[q].at = "running" /\ n \in DOMAIN req[q].threads
      /\ r.at = req[q].at /\ r.main = req[q].main /\ r.kind = req[q].kind /\ r.ran = req[q].ran
      /\ thread \in ThreadType /\ ThreadOK(thread)
      /\ \A failure \in r.raised : failure \in req[q].raised \/ failure[2] = "own"
  BY DEF Works, Rethreaded
<1>3. /\ DOMAIN r.threads = DOMAIN req[q].threads /\ r.threads[n] = thread
      /\ \A m \in DOMAIN r.threads \ {n} : r.threads[m] = req[q].threads[m]
      /\ n \in Nodes /\ before \in ThreadType
  <2>1. r.threads = [req[q].threads EXCEPT ![n] = thread]
    BY DEF Works, Rethreaded
  <2> QED
    BY <1>1, <1>2, <2>1, OneThread
<1>4. thread.held \in {0, 1} /\ before.held \in {0, 1}
  BY <1>2, <1>3 DEF ThreadType
<1>5. RequestOK(r)
  <2>1. \A m \in DOMAIN r.threads : ThreadOK(r.threads[m])
    <3> TAKE m \in DOMAIN r.threads
    <3>1. CASE m = n
      BY <1>2, <1>3, <3>1
    <3>2. CASE m # n
      BY <1>1, <1>3, <3>2 DEF RequestOK
    <3> QED
      BY <3>1, <3>2
  <2> QED
    BY <1>1, <1>2, <2>1 DEF RequestOK
<1>6. RequestsInv'
  BY <1>1, <1>2, <1>5, RequestsKept
<1>7. RowsInv'
  <2>1. row' = [row EXCEPT ![q] = row[q]]
    BY <1>1, <1>2, RowStays
  <2>2. r.at # "idle" /\ (r.kind = "create" => RowOK(r, row[q]))
    BY <1>1, <1>2 DEF RowOK
  <2> QED
    BY <1>1, <1>2, <2>1, <2>2, RowsKept
<1>8. n \in Openers /\ n # "main"
  BY <1>3 DEF Openers, Nodes
<1>9. /\ Connected(r, n) <=> thread.held = 1
      /\ Connected(req[q], n) <=> before.held = 1
  BY <1>2, <1>3, <1>4, <1>8 DEF Connected
<1>10. \A x \in Openers \ {n} : Connected(r, x) <=> Connected(req[q], x)
  <2> TAKE x \in Openers \ {n}
  <2>1. CASE x = "main"
    BY <1>2, <2>1 DEF Connected
  <2>2. CASE x # "main" /\ x \in DOMAIN r.threads
    <3>1. r.threads[x] = req[q].threads[x]
      BY <1>3, <2>2
    <3> QED
      BY <1>3, <2>2, <3>1 DEF Connected
  <2>3. CASE x # "main" /\ x \notin DOMAIN r.threads
    BY <1>3, <2>3 DEF Connected
  <2> QED
    BY <2>1, <2>2, <2>3
<1>11. OnlyChanges(q, r, n)
  BY <1>2, <1>10 DEF OnlyChanges
<1>12. /\ checkedout = Cardinality(Holders) /\ checkedout <= PoolSize
       /\ checkedout' = checkedout + thread.held - before.held
       /\ thread.held > before.held => checkedout < PoolSize
  BY <1>1 DEF PoolInv, Works
<1> HIDE DEF before
<1>13. CASE thread.held = before.held
  <2>1. \A x \in Openers : Connected(r, x) <=> Connected(req[q], x)
    BY <1>9, <1>10, <1>13
  <2>2. Holders' = Holders
    BY <1>1, <1>2, <2>1, SameHolders
  <2>3. PoolInv'
    BY <1>1, <1>4, <1>12, <1>13, <2>2 DEF PoolInv
  <2> QED
    BY <1>6, <1>7, <2>3 DEF SessionsInv
<1>14. CASE thread.held = 1 /\ before.held = 0
  <2>1. Connected(r, n) /\ ~ Connected(req[q], n)
    BY <1>9, <1>14
  <2>2. Cardinality(Holders') = Cardinality(Holders) + 1
    BY <1>1, <1>8, <1>11, <2>1, OneMoreHolder
  <2>3. PoolInv'
    BY <1>1, <1>12, <1>14, <2>2, SessionsAssumption DEF PoolInv
  <2> QED
    BY <1>6, <1>7, <2>3 DEF SessionsInv
<1>15. CASE thread.held = 0 /\ before.held = 1
  <2>1. Connected(req[q], n) /\ ~ Connected(r, n)
    BY <1>9, <1>15
  <2>2. Cardinality(Holders') = Cardinality(Holders) - 1
    BY <1>1, <1>8, <1>11, <2>1, OneHolderLess
  <2>3. PoolInv'
    BY <1>1, <1>12, <1>15, <2>2, SessionsAssumption DEF PoolInv
  <2> QED
    BY <1>6, <1>7, <2>3 DEF SessionsInv
<1> QED
  BY <1>4, <1>13, <1>14, <1>15

\* Only a running request has threads, and each is of a node.
LEMMA OfThread ==
  ASSUME SessionsInv, NEW q \in Requests, NEW n, ThreadAt(q, n)
  PROVE  /\ req[q] \in RequestType /\ checkedout \in Nat
         /\ req[q].at = "running" /\ n \in DOMAIN req[q].threads /\ n \in Nodes
         /\ req[q].threads[n] \in ThreadType /\ ThreadOK(req[q].threads[n])
         /\ req[q].threads[n].todo \in Seq({"own", "event"}) /\ req[q].threads[n].todo # <<>>
<1>1. req[q] \in RequestType /\ RequestOK(req[q]) /\ checkedout \in Nat
  BY OfOne
<1>2. req[q].at = "running" /\ n \in DOMAIN req[q].threads /\ req[q].threads[n].todo # <<>>
  BY DEF ThreadAt
<1>3. PICK N \in SUBSET Nodes : req[q].threads \in [N -> ThreadType]
  BY <1>1 DEF RequestType
<1>4. n \in Nodes /\ req[q].threads[n] \in ThreadType
  BY <1>2, <1>3
<1>5. req[q].threads[n].todo \in Seq({"own", "event"})
  BY <1>4 DEF ThreadType
<1>6. ThreadOK(req[q].threads[n])
  BY <1>1, <1>2 DEF RequestOK
<1> QED
  BY <1>1, <1>2, <1>4, <1>5, <1>6

LEMMA RethreadedRequest ==
  ASSUME NEW r0 \in RequestType, NEW n \in DOMAIN r0.threads, NEW thread \in ThreadType,
         NEW raised \in SUBSET (Openers \X (Places \cup {"own"}))
  PROVE  LET r == [r0 EXCEPT !.threads = [r0.threads EXCEPT ![n] = thread], !.raised = raised]
         IN r \in RequestType /\ Rethreaded(r0, r, n, thread)
<1> DEFINE threads == [r0.threads EXCEPT ![n] = thread]
           r == [r0 EXCEPT !.threads = threads, !.raised = raised]
<1>1. threads \in UNION {[N -> ThreadType] : N \in SUBSET Nodes}
  BY OneThread
<1> HIDE DEF threads
<1>2. /\ r \in RequestType /\ r.threads = threads
      /\ r.at = r0.at /\ r.main = r0.main /\ r.kind = r0.kind /\ r.ran = r0.ran
      /\ r.raised = raised
  BY <1>1 DEF RequestType
<1> HIDE DEF r
<1>3. Rethreaded(r0, r, n, thread)
  BY <1>2 DEF Rethreaded, threads
<1> USE DEF r, threads
<1> QED
  BY <1>2, <1>3

LEMMA CheckoutKeeps ==
  ASSUME SessionsInv, NEW q \in Requests, NEW n, Checkout(q, n) PROVE SessionsInv'
<1> DEFINE before == req[q].threads[n]
           thread == [before EXCEPT !.using = TRUE, !.held = before.held + 1]
           r == [req[q] EXCEPT !.threads = [req[q].threads EXCEPT ![n] = thread],
                               !.raised = req[q].raised]
<1>1. ThreadAt(q, n) /\ ~ before.using /\ checkedout < PoolSize
  BY DEF Checkout, Waits
<1>2. checkedout' = checkedout + 1 /\ row' = row
  BY DEF Checkout
<1>3. /\ req[q] \in RequestType /\ req[q].at = "running" /\ n \in DOMAIN req[q].threads
      /\ before \in ThreadType /\ ThreadOK(before) /\ before.todo # <<>> /\ checkedout \in Nat
  BY <1>1, OfThread
<1>4. before.held = 0
  BY <1>1, <1>3 DEF ThreadOK, ThreadType
<1>5. /\ thread \in ThreadType /\ thread.using = TRUE /\ thread.held = 1 /\ thread.todo = before.todo
  <2>1. thread = [before EXCEPT !.using = TRUE, !.held = 1]
    BY <1>4
  <2>2. 1 \in {0, 1} /\ TRUE \in BOOLEAN
    OBVIOUS
  <2> QED
    BY <1>3, <2>1, <2>2 DEF ThreadType
<1>6. req[q].raised \in SUBSET (Openers \X (Places \cup {"own"}))
  BY <1>3 DEF RequestType
<1>7. req' = [req EXCEPT ![q] = r]
  <2>1. req' = [req EXCEPT ![q] = [req[q] EXCEPT !.threads = [req[q].threads EXCEPT ![n] = thread]]]
    BY DEF Checkout
  <2>2. r = [req[q] EXCEPT !.threads = [req[q].threads EXCEPT ![n] = thread]]
    <3> HIDE DEF thread
    <3> QED
      BY <1>3 DEF RequestType
  <2> HIDE DEF r, thread
  <2> QED
    BY <2>1, <2>2
<1> HIDE DEF thread
<1>8. r \in RequestType /\ Rethreaded(req[q], r, n, thread) /\ r.raised = req[q].raised
  <2>1. r \in RequestType /\ Rethreaded(req[q], r, n, thread)
    BY <1>3, <1>5, <1>6, RethreadedRequest
  <2>2. r.raised = req[q].raised
    BY <1>3 DEF RequestType
  <2> QED
    BY <2>1, <2>2
<1> HIDE DEF r
<1>9. ThreadOK(thread)
  BY <1>3, <1>5 DEF ThreadOK
<1>10. checkedout' = checkedout + thread.held - before.held
  BY <1>2, <1>3, <1>4, <1>5
<1>11. Works(q, r, n, thread)
  BY <1>1, <1>2, <1>3, <1>5, <1>7, <1>8, <1>9, <1>10 DEF Works
<1> QED
  BY <1>11, WorkKeeps

LEMMA ReturnKeeps ==
  ASSUME SessionsInv, NEW q \in Requests, NEW n, Return(q, n) PROVE SessionsInv'
<1> DEFINE before == req[q].threads[n]
           rest   == Tail(before.todo)
           thread == [todo |-> rest, using |-> FALSE, held |-> 0]
           r == [req[q] EXCEPT !.threads = [req[q].threads EXCEPT ![n] = thread],
                               !.raised = req[q].raised]
<1>1. ThreadAt(q, n) /\ before.using
  BY DEF Return
<1>2. checkedout' = checkedout - before.held /\ row' = row
  BY DEF Return
<1>3. /\ req[q] \in RequestType /\ req[q].at = "running" /\ n \in DOMAIN req[q].threads
      /\ before \in ThreadType /\ ThreadOK(before) /\ before.todo # <<>> /\ checkedout \in Nat
      /\ before.todo \in Seq({"own", "event"}) /\ n \in Nodes
  BY <1>1, OfThread
<1>5. req' = [req EXCEPT ![q] = r]
  <2>1. req' = [req EXCEPT ![q] = [req[q] EXCEPT !.threads = [req[q].threads EXCEPT ![n] = thread]]]
    BY DEF Return
  <2>2. r = [req[q] EXCEPT !.threads = [req[q].threads EXCEPT ![n] = thread]]
    <3> HIDE DEF thread
    <3> QED
      BY <1>3 DEF RequestType
  <2> HIDE DEF r, thread
  <2> QED
    BY <2>1, <2>2
<1>6. req[q].raised \in SUBSET (Openers \X (Places \cup {"own"}))
  BY <1>3 DEF RequestType
<1>7. rest \in Seq({"own", "event"})
  BY <1>3, HeadTailProperties
<1> HIDE DEF rest
<1>8. thread \in ThreadType /\ ThreadOK(thread) /\ thread.held = 0
  BY <1>7 DEF ThreadType, ThreadOK
<1>9. before.held \in {0, 1}
  BY <1>3 DEF ThreadType
<1> HIDE DEF thread
<1>10. r \in RequestType /\ Rethreaded(req[q], r, n, thread) /\ r.raised = req[q].raised
  <2>1. r \in RequestType /\ Rethreaded(req[q], r, n, thread)
    BY <1>3, <1>6, <1>8, RethreadedRequest
  <2>2. r.raised = req[q].raised
    BY <1>3 DEF RequestType
  <2> QED
    BY <2>1, <2>2
<1> HIDE DEF r
<1>11. checkedout' = checkedout + thread.held - before.held /\ ~ (thread.held > before.held)
  BY <1>2, <1>3, <1>8, <1>9
<1>12. Works(q, r, n, thread)
  BY <1>2, <1>3, <1>5, <1>8, <1>10, <1>11 DEF Works
<1> QED
  BY <1>12, WorkKeeps

(* What a failed work, or a checkout that timed out, leaves to do and raises. *)
LEMMA FailingThread ==
  ASSUME NEW n \in Nodes, NEW todo \in Seq({"own", "event"}), todo # <<>>
  PROVE  /\ AfterFailure(todo) \in Seq({"own", "event"})
         /\ FailureOf(n, todo) \in SUBSET (Openers \X (Places \cup {"own"}))
         /\ \A failure \in FailureOf(n, todo) : failure[2] = "own"
<1>1. <<"event">> \in Seq({"own", "event"}) /\ Tail(todo) \in Seq({"own", "event"})
  BY HeadTailProperties
<1> QED
  BY <1>1 DEF AfterFailure, FailureOf, Openers

LEMMA WorkFailsKeeps ==
  ASSUME SessionsInv, NEW q \in Requests, NEW n, WorkFails(q, n) PROVE SessionsInv'
<1> DEFINE before == req[q].threads[n]
           rest   == AfterFailure(before.todo)
           thread == [todo |-> rest, using |-> FALSE, held |-> 0]
           failed == FailureOf(n, before.todo)
           raised == req[q].raised \cup failed
           r == [req[q] EXCEPT !.threads = [req[q].threads EXCEPT ![n] = thread], !.raised = raised]
<1>1. ThreadAt(q, n) /\ before.using
  BY DEF WorkFails
<1>2. checkedout' = checkedout - before.held /\ row' = row
  BY DEF WorkFails
<1>3. /\ req[q] \in RequestType /\ req[q].at = "running" /\ n \in DOMAIN req[q].threads
      /\ before \in ThreadType /\ ThreadOK(before) /\ before.todo # <<>> /\ checkedout \in Nat
      /\ before.todo \in Seq({"own", "event"}) /\ n \in Nodes
  BY <1>1, OfThread
<1>4. req' = [req EXCEPT ![q] = r]
  BY DEF WorkFails
<1>5. /\ rest \in Seq({"own", "event"}) /\ failed \in SUBSET (Openers \X (Places \cup {"own"}))
      /\ \A failure \in failed : failure[2] = "own"
  BY <1>3, FailingThread
<1> HIDE DEF rest, failed
<1>6. raised \in SUBSET (Openers \X (Places \cup {"own"}))
  BY <1>3, <1>5 DEF RequestType
<1>7. \A failure \in raised : failure \in req[q].raised \/ failure[2] = "own"
  BY <1>5
<1> HIDE DEF raised
<1>8. thread \in ThreadType /\ ThreadOK(thread) /\ thread.held = 0
  BY <1>5 DEF ThreadType, ThreadOK
<1>9. before.held \in {0, 1}
  BY <1>3 DEF ThreadType
<1> HIDE DEF thread
<1>10. r \in RequestType /\ Rethreaded(req[q], r, n, thread) /\ r.raised = raised
  <2>1. r \in RequestType /\ Rethreaded(req[q], r, n, thread)
    BY <1>3, <1>6, <1>8, RethreadedRequest
  <2>2. r.raised = raised
    BY <1>3 DEF RequestType
  <2> QED
    BY <2>1, <2>2
<1> HIDE DEF r
<1>11. checkedout' = checkedout + thread.held - before.held /\ ~ (thread.held > before.held)
  BY <1>2, <1>3, <1>8, <1>9
<1>12. Works(q, r, n, thread)
  BY <1>2, <1>3, <1>4, <1>7, <1>8, <1>10, <1>11 DEF Works
<1> QED
  BY <1>12, WorkKeeps

LEMMA TimeoutKeeps ==
  ASSUME SessionsInv, NEW q \in Requests, NEW n, Timeout(q, n) PROVE SessionsInv'
<1> DEFINE before == req[q].threads[n]
           rest   == AfterFailure(before.todo)
           thread == [before EXCEPT !.todo = rest]
           failed == FailureOf(n, before.todo)
           raised == req[q].raised \cup failed
           r == [req[q] EXCEPT !.threads = [req[q].threads EXCEPT ![n] = thread], !.raised = raised]
<1>1. ThreadAt(q, n) /\ ~ before.using
  BY DEF Timeout, Waits
<1>2. checkedout' = checkedout /\ row' = row
  BY DEF Timeout
<1>3. /\ req[q] \in RequestType /\ req[q].at = "running" /\ n \in DOMAIN req[q].threads
      /\ before \in ThreadType /\ ThreadOK(before) /\ before.todo # <<>> /\ checkedout \in Nat
      /\ before.todo \in Seq({"own", "event"}) /\ n \in Nodes
  BY <1>1, OfThread
<1>4. req' = [req EXCEPT ![q] = r]
  BY DEF Timeout
<1>5. /\ rest \in Seq({"own", "event"}) /\ failed \in SUBSET (Openers \X (Places \cup {"own"}))
      /\ \A failure \in failed : failure[2] = "own"
  BY <1>3, FailingThread
<1> HIDE DEF rest, failed
<1>6. raised \in SUBSET (Openers \X (Places \cup {"own"}))
  BY <1>3, <1>5 DEF RequestType
<1>7. \A failure \in raised : failure \in req[q].raised \/ failure[2] = "own"
  BY <1>5
<1> HIDE DEF raised
<1>8. /\ thread \in ThreadType /\ thread.using = before.using /\ thread.held = before.held
  BY <1>3, <1>5 DEF ThreadType
<1>9. before.held \in {0, 1}
  BY <1>3 DEF ThreadType
<1> HIDE DEF thread
<1>10. ThreadOK(thread)
  BY <1>1, <1>3, <1>8 DEF ThreadOK
<1>11. r \in RequestType /\ Rethreaded(req[q], r, n, thread) /\ r.raised = raised
  <2>1. r \in RequestType /\ Rethreaded(req[q], r, n, thread)
    BY <1>3, <1>6, <1>8, RethreadedRequest
  <2>2. r.raised = raised
    BY <1>3 DEF RequestType
  <2> QED
    BY <2>1, <2>2
<1> HIDE DEF r
<1>12. checkedout' = checkedout + thread.held - before.held /\ ~ (thread.held > before.held)
  BY <1>2, <1>3, <1>8, <1>9
<1>13. Works(q, r, n, thread)
  BY <1>2, <1>3, <1>4, <1>7, <1>8, <1>10, <1>11, <1>12 DEF Works
<1> QED
  BY <1>13, WorkKeeps

-----------------------------------------------------------------------------
(* The theorems. *)

LEMMA NextKeepsSessions ==
  ASSUME SessionsInv, [Next]_vars PROVE SessionsInv'
<1>1. CASE InitDb \/ BootCheckpointer
  <2>1. UNCHANGED <<req, row, checkedout>>
    BY <1>1 DEF InitDb, BootCheckpointer
  <2> QED
    BY <2>1, StartKeepsSessions
<1>2. ASSUME NEW q \in Requests, NEW kind \in MayAsk[q], Arrive(q, kind) PROVE SessionsInv'
  BY <1>2, ArriveKeepsSessions
<1>3. ASSUME NEW q \in Requests, MainStep(q) PROVE SessionsInv'
  <2>1. CASE CheckoutMain(q)
    BY <2>1, CheckoutMainKeeps
  <2>2. CASE TimeoutMain(q)
    BY <2>2, TimeoutMainKeeps
  <2>3. CASE CommitRow(q)
    BY <2>3, CommitRowKeeps
  <2>4. CASE SetUp(q)
    BY <2>4, SetUpKeeps
  <2>5. CASE Run(q)
    BY <2>5, RunKeeps
  <2>6. CASE EndOfStep(q)
    BY <2>6, EndOfStepKeeps
  <2>7. CASE RunFailed(q)
    BY <2>7, RunFailedKeeps
  <2>8. CASE PersistAndRespond(q)
    BY <2>8, PersistKeeps
  <2>9. CASE Close(q)
    BY <2>9, CloseKeeps
  <2> QED
    BY <1>3, <2>1, <2>2, <2>3, <2>4, <2>5, <2>6, <2>7, <2>8, <2>9 DEF MainStep
<1>4. ASSUME NEW q \in Requests, NEW n \in Nodes, ThreadStep(q, n) PROVE SessionsInv'
  <2>1. CASE Checkout(q, n)
    BY <2>1, CheckoutKeeps
  <2>2. CASE Return(q, n)
    BY <2>2, ReturnKeeps
  <2>3. CASE WorkFails(q, n)
    BY <2>3, WorkFailsKeeps
  <2>4. CASE Timeout(q, n)
    BY <2>4, TimeoutKeeps
  <2> QED
    BY <1>4, <2>1, <2>2, <2>3, <2>4 DEF ThreadStep
<1>5. CASE UNCHANGED vars
  <2>1. UNCHANGED <<req, row, checkedout>>
    BY <1>5 DEF vars
  <2> QED
    BY <2>1, StartKeepsSessions
<1>6. ASSUME NEW q \in Requests, Fails(q) PROVE SessionsInv'
  BY <1>6, FailsKeeps
<1> QED
  BY <1>1, <1>2, <1>3, <1>4, <1>5, <1>6 DEF Next, RequestStep

THEOREM SessionsInvariance == Spec => []SessionsInv
<1>1. Init => SessionsInv
  BY InitEstablishesSessions
<1>2. SessionsInv /\ [Next]_vars => SessionsInv'
  BY NextKeepsSessions
<1> QED
  BY <1>1, <1>2, PTL DEF Spec

(* Every connection that has left the pool is held by exactly one open     *)
(* session, of a handler or of a node, whatever fails (session.py,         *)
(* traced_node, record_event); and never more of them than there are.      *)
THEOREM ConnectionsAreCounted == Spec => []ConnectionsAreAccountedFor
<1>1. SessionsInv => ConnectionsAreAccountedFor
  BY DEF SessionsInv, PoolInv, ConnectionsAreAccountedFor
<1> QED
  BY <1>1, SessionsInvariance, PTL

(* When every open request is blocked, no node holds anything: a node that *)
(* did would be using it.  So the pool is with the handlers.               *)
LEMMA BlockedNodesHoldNothing ==
  ASSUME SessionsInv, \A q \in Requests : Open(q) => Blocked(q), NEW s \in Holders
  PROVE  s[1] \in Requests /\ s = <<s[1], "main">> /\ req[s[1]].main = 1
<1> DEFINE q == s[1]
           n == s[2]
<1>1. s \in Requests \X Openers /\ Connected(req[q], n)
  BY HoldersAreConnected
<1>2. q \in Requests /\ n \in Openers /\ s = <<q, n>>
  BY <1>1
<1> HIDE DEF q, n
<1>3. CASE n = "main"
  BY <1>1, <1>2, <1>3 DEF Connected, q
<1>4. CASE n # "main"
  <2>1. n \in DOMAIN req[q].threads /\ req[q].threads[n].held > 0
    BY <1>1, <1>4 DEF Connected
  <2>2. req[q] \in RequestType /\ RequestOK(req[q])
    BY <1>2, OfOne
  <2>3. req[q].at = "running"
    BY <2>1, <2>2 DEF RequestOK, NoThreads
  <2>4. PICK N \in SUBSET Nodes : req[q].threads \in [N -> ThreadType]
    BY <2>2 DEF RequestType
  <2>5. req[q].threads[n] \in ThreadType
    BY <2>1, <2>4
  <2>6. req[q].threads[n].held = 1
    BY <2>1, <2>5 DEF ThreadType
  <2>7. ThreadOK(req[q].threads[n])
    BY <2>1, <2>2 DEF RequestOK
  <2>8. req[q].threads[n].using /\ req[q].threads[n].todo # <<>>
    BY <2>6, <2>7 DEF ThreadOK
  <2>9. Blocked(q)
    BY <1>2, <2>3 DEF Open
  <2>10. \A m \in DOMAIN req[q].threads : ThreadAt(q, m) => Waits(q, m)
    BY <2>3, <2>9 DEF Blocked, NeedsMain
  <2>11. ThreadAt(q, n)
    BY <2>1, <2>3, <2>8 DEF ThreadAt
  <2>12. Waits(q, n)
    BY <2>1, <2>10, <2>11
  <2> QED
    BY <2>8, <2>12 DEF Waits
<1> QED
  BY <1>3, <1>4

(* Below one whole run per connection, somebody can always go on: requests *)
(* wait for each other only when every connection is with a handler that   *)
(* keeps it for its run (session.py, create_assessment).                   *)
THEOREM OnlyExhaustionBlocksAll == Spec => []AllWaitOnlyWhenExhausted
<1>1. ASSUME SessionsInv PROVE AllWaitOnlyWhenExhausted
  <2> SUFFICES ASSUME \E q \in Requests : Open(q),
                      \A q \in Requests : Open(q) => Blocked(q)
               PROVE  Cardinality({q \in Requests : req[q].main = 1}) >= PoolSize
    BY DEF AllWaitOnlyWhenExhausted
  <2> DEFINE handlers == {q \in Requests : req[q].main = 1}
             of == [s \in Holders |-> s[1]]
  <2>1. checkedout = PoolSize
    BY DEF Blocked
  <2>2. Cardinality(Holders) = PoolSize
    BY <1>1, <2>1 DEF SessionsInv, PoolInv
  <2>3. IsFiniteSet(handlers)
    BY SessionsAssumption, FS_Subset
  <2>4. \A s \in Holders : s[1] \in handlers /\ s = <<s[1], "main">>
    BY <1>1, BlockedNodesHoldNothing
  <2>5. of \in Injection(Holders, handlers)
    <3>1. of \in [Holders -> handlers]
      BY <2>4
    <3>2. \A s, t \in Holders : of[s] = of[t] => s = t
      BY <2>4
    <3> QED
      BY <3>1, <3>2 DEF Injection, IsInjective
  <2>6. Cardinality(Holders) <= Cardinality(handlers)
    BY <2>3, <2>5, FS_Injection
  <2>7. Cardinality(handlers) \in Nat
    BY <2>3, FS_CardinalityType
  <2> QED
    BY <2>2, <2>6, <2>7, SessionsAssumption
<1> QED
  BY <1>1, SessionsInvariance, PTL

(* An answered create has the row its run deserves (the except of          *)
(* create_assessment, _persist_and_respond), for every combination of a    *)
(* node's failure, a set-up, a statement of invoke and a commit that fail: *)
(* never "failed" for an event alone, never an outcome without a run, and  *)
(* "pending" after a run only where the handler's own commit was lost.     *)
THEOREM RowsTellTheRun == Spec => []RowsTellHowTheRunWent
<1>1. ASSUME SessionsInv PROVE RowsTellHowTheRunWent
  <2> SUFFICES ASSUME NEW q \in Requests, req[q].at = "answered", req[q].kind = "create"
               PROVE  /\ row[q] = "failed" => Wrong(q, InsideTry)
                      /\ Wrong(q, InsideTry) => row[q] = "failed" \/ Wrong(q, {"failing"})
                      /\ row[q] = "pending" => ~ req[q].ran \/ Wrong(q, {"failing", "persist"})
                      /\ row[q] = "persisted" => req[q].ran
    BY DEF RowsTellHowTheRunWent
  <2>1. RowTells(req[q], row[q])
    BY <1>1, OfOne DEF RowOK
  <2>2. \A places : RaisedIn(req[q], places) <=> Wrong(q, places)
    BY DEF RaisedIn, Wrong
  <2> QED
    BY <2>1, <2>2 DEF RowTells
<1> QED
  BY <1>1, SessionsInvariance, PTL
================================================================================
