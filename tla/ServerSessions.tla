---------------------------- MODULE ServerSessions ----------------------------
(***************************************************************************)
(* The server's start and the database connections of its requests         *)
(* (main.py, db/session.py, graph/checkpointer.py, api/assessments.py,     *)
(* services/tracing.py).                                                   *)
(*                                                                         *)
(* FastAPI runs a handler on a thread of its own, with a session that      *)
(* takes a connection from the pool when it first needs one and gives it   *)
(* back when it commits or closes.  A handler that drives the graph keeps  *)
(* a transaction open meanwhile, and the nodes take connections of their   *)
(* own: to search, to write a ticket, to write an event of the trace.  A   *)
(* checkout that finds the pool empty waits, and raises after 30 seconds.  *)
(*                                                                         *)
(* What the nodes compute is the subject of AssessmentWorkflow; here a run *)
(* is the sequence of its supersteps.  The checkpointer has connections of *)
(* its own, each held for one statement; of it there is the set-up, and    *)
(* that its statements may fail.                                           *)
(***************************************************************************)
EXTENDS Naturals, Sequences, FiniteSets

CONSTANTS
  Requests,
  MayAsk,      \* request -> the kinds of request it can be
  PoolSize     \* pool_size + max_overflow of the engine: 15 by default

Kinds == {"create", "approve", "read"}

ASSUME SessionsAssumption ==
  /\ PoolSize \in Nat \ {0} /\ IsFiniteSet(Requests)
  /\ MayAsk \in [Requests -> SUBSET Kinds]

VARIABLES
  boot,        \* what the server does next: "init_db", "checkpointer", "serving"
  bootFailed,  \* history: set-up of the checkpointer failed at boot
  indexed,     \* the database has the checkpointer's tables and indexes
  saver,       \* get_checkpointer's cache: "none" or "ready"
  checkedout,  \* connections taken from the pool
  req,         \* the requests
  row          \* the assessments row of each request: its status

vars == <<boot, bootFailed, indexed, saver, checkedout, req, row>>
server == <<boot, bootFailed, indexed, saver>>

Nodes == {"retrieve", "architecture", "security", "planner", "reviewer",
          "approval_gate", "ticket", "report"}

NoThreads == [n \in {} |-> <<>>]

Init ==
  /\ boot = "init_db" /\ bootFailed = FALSE
  /\ indexed \in BOOLEAN
  /\ saver = "none"
  /\ checkedout = 0
  /\ req = [q \in Requests |->
       [at |-> "idle", kind |-> "none", main |-> 0, route |-> <<>>, threads |-> NoThreads,
        raised |-> {}, ran |-> FALSE]]
  /\ row = [q \in Requests |-> "none"]

-----------------------------------------------------------------------------
(* Start. *)

\* A failure is logged and the server goes on.  Without its tables a request fails at
\* its first statement, so only the start in which they are there is followed.
InitDb ==
  /\ boot = "init_db"
  /\ boot' = "checkpointer"
  /\ UNCHANGED <<bootFailed, indexed, saver, checkedout, req, row>>

\* a variant that leaves set-up to the first request
BootCheckpointer_deferred ==
  /\ boot = "checkpointer"
  /\ boot' = "serving"
  /\ UNCHANGED <<bootFailed, indexed, saver, checkedout, req, row>>

BootCheckpointer ==
  /\ boot = "checkpointer"
  /\ boot' = "serving"
  /\ \/ indexed' = TRUE /\ saver' = "ready" /\ UNCHANGED bootFailed
     \/ bootFailed' = TRUE /\ UNCHANGED <<indexed, saver>>
  /\ UNCHANGED <<checkedout, req, row>>

-----------------------------------------------------------------------------
(* The pool, and the main session of a request. *)

Arrive(q, kind) ==
  /\ boot = "serving" /\ req[q].at = "idle"
  /\ req' = [req EXCEPT ![q].at = IF kind = "create" THEN "insert" ELSE "load", ![q].kind = kind]
  /\ row' = [row EXCEPT ![q] = IF kind = "create" THEN "none" ELSE "awaiting_approval"]
  /\ UNCHANGED <<server, checkedout>>

\* where a main session waits for a connection, and where it goes with it
NeedsMain == {"insert", "refresh", "load", "final_refresh"}

AfterMain(q) ==
  CASE req[q].at = "insert"                             -> "commit"
    [] req[q].at = "refresh"                            -> "set_up"
    [] req[q].at = "load" /\ req[q].kind = "approve"    -> "set_up"
    [] req[q].at = "load" /\ req[q].kind = "read"       -> "close"
    [] req[q].at = "final_refresh"                      -> "close"

CheckoutMain(q) ==
  /\ req[q].at \in NeedsMain /\ checkedout < PoolSize
  /\ req' = [req EXCEPT ![q].at = AfterMain(q), ![q].main = 1]
  /\ checkedout' = checkedout + 1
  /\ UNCHANGED <<server, row>>

\* None of these checkouts is inside a try: the request fails, and a new row stays
\* as it is.
TimeoutMain(q) ==
  /\ req[q].at \in NeedsMain /\ checkedout = PoolSize
  /\ req' = [req EXCEPT ![q].at = "close"]
  /\ UNCHANGED <<server, checkedout, row>>

\* the new row is committed, which gives the connection back
CommitRow(q) ==
  /\ req[q].at = "commit"
  /\ row' = [row EXCEPT ![q] = "pending"]
  /\ req' = [req EXCEPT ![q].at = "refresh", ![q].main = 0]
  /\ checkedout' = checkedout - 1
  /\ UNCHANGED server

-----------------------------------------------------------------------------
(* The checkpointer and the run. *)

\* the sessions that have a connection, by their request and the node they are opened in
Sessions == (Requests \X {"main"}) \cup (Requests \X Nodes)
HasConnection(s) ==
  LET r == req[s[1]]
  IN IF s[2] = "main" THEN r.main = 1
     ELSE s[2] \in DOMAIN r.threads /\ r.threads[s[2]].held > 0
Holders == {s \in Sessions : HasConnection(s)}

\* CREATE INDEX CONCURRENTLY waits for every open transaction, and a session that has
\* read and not committed has one.
NoTransactionIsOpen == Holders = {}

\* get_compiled_graph() calls get_checkpointer(); lru_cache keeps no failure
SetUp(q) ==
  /\ req[q].at = "set_up"
  /\ saver = "ready" \/ indexed \/ NoTransactionIsOpen
  /\ saver' = "ready" /\ indexed' = TRUE
  /\ req' = [req EXCEPT ![q].at = "run"]
  /\ UNCHANGED <<boot, bootFailed, checkedout, row>>

\* What a node takes a connection for, one after another: "own" is its work, and an event
\* is written when that session is closed.  The ticket's session commits, which gives
\* its connection back, and takes one again to refresh.
SessionsOf(node, kind) ==
  IF node = "retrieve" THEN <<"own", "event">>
  ELSE IF node = "ticket" THEN <<"own", "own", "event">>
  ELSE IF node = "approval_gate" /\ kind = "approve" THEN <<"event", "event">>
  ELSE <<"event">>

Analysed == <<{"retrieve"}, {"architecture", "security"}, {"planner"}, {"reviewer"}>>
Routes(kind) ==
  IF kind = "create"
    THEN {Analysed \o <<{"approval_gate"}>>, Analysed \o <<{"approval_gate"}, {"report"}>>}
    ELSE {<<{"approval_gate"}, {"ticket"}, {"report"}>>, <<{"approval_gate"}, {"report"}>>}

Threads(nodes, kind) == [n \in nodes |-> [todo |-> SessionsOf(n, kind), held |-> 0, using |-> FALSE]]

Run(q) ==
  /\ req[q].at = "run"
  /\ \E route \in Routes(req[q].kind) :
       req' = [req EXCEPT ![q].at = "running", ![q].ran = TRUE, ![q].route = Tail(route),
                          ![q].threads = Threads(Head(route), req[q].kind)]
  /\ UNCHANGED <<server, checkedout, row>>

ThreadAt(q, n) == req[q].at = "running" /\ n \in DOMAIN req[q].threads
                    /\ req[q].threads[n].todo # <<>>
Waits(q, n) == ThreadAt(q, n) /\ ~ req[q].threads[n].using

Checkout(q, n) ==
  /\ Waits(q, n) /\ checkedout < PoolSize
  /\ LET thread == req[q].threads[n]
     IN req' = [req EXCEPT ![q].threads[n] = [thread EXCEPT !.using = TRUE, !.held = thread.held + 1]]
  /\ checkedout' = checkedout + 1
  /\ UNCHANGED <<server, row>>

\* a variant that writes the event before the node's session is closed
Return_nested(q, n) ==
  /\ ThreadAt(q, n) /\ req[q].threads[n].using
  /\ LET thread == req[q].threads[n]
         given == IF Len(thread.todo) > 1 THEN 0 ELSE thread.held
     IN /\ req' = [req EXCEPT ![q].threads[n] = [todo |-> Tail(thread.todo), using |-> FALSE,
                                                held |-> thread.held - given]]
        /\ checkedout' = checkedout - given
  /\ UNCHANGED <<server, row>>

\* The connection is given back, and the work it was for is done.
Return(q, n) ==
  /\ ThreadAt(q, n) /\ req[q].threads[n].using
  /\ LET thread == req[q].threads[n]
     IN /\ req' = [req EXCEPT ![q].threads[n] = [todo |-> Tail(thread.todo), using |-> FALSE, held |-> 0]]
        /\ checkedout' = checkedout - thread.held
  /\ UNCHANGED <<server, row>>

\* A node whose own work fails raises, once it has written its last event; an event that
\* cannot be written is dropped.
AfterFailure(todo) == IF Head(todo) = "own" THEN <<"event">> ELSE Tail(todo)
FailureOf(n, todo) == {<<m, "own">> : m \in IF Head(todo) = "own" THEN {n} ELSE {}}

WorkFails(q, n) ==
  /\ ThreadAt(q, n) /\ req[q].threads[n].using
  /\ LET thread == req[q].threads[n]
     IN /\ req' = [req EXCEPT ![q].threads[n] = [todo |-> AfterFailure(thread.todo), using |-> FALSE,
                                                held |-> 0],
                              ![q].raised = @ \cup FailureOf(n, thread.todo)]
        /\ checkedout' = checkedout - thread.held
  /\ UNCHANGED <<server, row>>

\* 30 seconds without a connection: the node raises, or the event is dropped
Timeout(q, n) ==
  /\ Waits(q, n) /\ checkedout = PoolSize
  /\ LET thread == req[q].threads[n]
     IN req' = [req EXCEPT ![q].threads[n].todo = AfterFailure(thread.todo),
                           ![q].raised = @ \cup FailureOf(n, thread.todo)]
  /\ UNCHANGED <<server, checkedout, row>>

StepIsOver(q) ==
  req[q].at = "running" /\ \A n \in DOMAIN req[q].threads : req[q].threads[n].todo = <<>>

EndOfStep(q) ==
  /\ StepIsOver(q)
  /\ req' = IF req[q].raised # {} THEN [req EXCEPT ![q].at = "failing", ![q].threads = NoThreads]
            ELSE IF req[q].route = <<>> THEN [req EXCEPT ![q].at = "persist", ![q].threads = NoThreads]
            ELSE [req EXCEPT ![q].route = Tail(@),
                             ![q].threads = Threads(Head(req[q].route), req[q].kind)]
  /\ UNCHANGED <<server, checkedout, row>>

-----------------------------------------------------------------------------
(* The end of a request. *)

\* a variant that answers without committing the status
RunFailed_uncommitted(q) ==
  /\ req[q].at = "failing"
  /\ req' = [req EXCEPT ![q].at = "close"]
  /\ UNCHANGED <<server, checkedout, row>>

\* create marks its row; a failed approval leaves it
RunFailed(q) ==
  /\ req[q].at = "failing"
  /\ IF req[q].kind = "create"
       THEN /\ row' = [row EXCEPT ![q] = "failed"]
            /\ req' = [req EXCEPT ![q].at = "close", ![q].main = 0]
            /\ checkedout' = checkedout - 1
       ELSE /\ req' = [req EXCEPT ![q].at = "close"]
            /\ UNCHANGED <<checkedout, row>>
  /\ UNCHANGED server

\* the commit gives the connection back, and the refresh takes one again
PersistAndRespond(q) ==
  /\ req[q].at = "persist"
  /\ row' = [row EXCEPT ![q] = "persisted"]
  /\ req' = [req EXCEPT ![q].at = "final_refresh", ![q].main = 0]
  /\ checkedout' = checkedout - 1
  /\ UNCHANGED server

\* A statement fails that is not a node's: of the checkpointer's set-up or of its read of
\* the thread, of invoke at its start, of the checkpoints it saves or of the state read
\* once it is over, or of the handler itself.  Only what run_assessment raises is caught.
Fails(q) ==
  /\ \/ req[q].at \in {"commit", "run", "persist"}
     \/ req[q].at = "failing" /\ req[q].kind = "create"
     \/ req[q].at = "set_up" /\ (saver = "none" \/ req[q].kind = "approve")
     \/ StepIsOver(q) /\ req[q].route = <<>> /\ req[q].raised = {}
  /\ LET caught == \/ req[q].at \in {"run", "running"}
                   \/ req[q].at = "set_up" /\ req[q].kind = "create"
     IN req' = [req EXCEPT ![q].at = IF caught THEN "failing" ELSE "close",
                           ![q].threads = NoThreads,
                           ![q].raised = @ \cup {<<"main", req[q].at>>}]
  /\ UNCHANGED <<server, checkedout, row>>

\* a variant that closes the session only where nothing was raised
Close_on_success(q) ==
  /\ req[q].at = "close"
  /\ req' = [req EXCEPT ![q].at = "answered", ![q].main = 0]
  /\ checkedout' = IF req[q].raised = {} THEN checkedout - req[q].main ELSE checkedout
  /\ UNCHANGED <<server, row>>

\* get_db closes the session, whatever happened, and the answer is sent
Close(q) ==
  /\ req[q].at = "close"
  /\ req' = [req EXCEPT ![q].at = "answered", ![q].main = 0]
  /\ checkedout' = checkedout - req[q].main
  /\ UNCHANGED <<server, row>>

MainStep(q) ==
  \/ CheckoutMain(q) \/ TimeoutMain(q) \/ CommitRow(q) \/ SetUp(q) \/ Run(q) \/ EndOfStep(q)
  \/ RunFailed(q) \/ PersistAndRespond(q) \/ Close(q)
ThreadStep(q, n) == Checkout(q, n) \/ Return(q, n) \/ WorkFails(q, n) \/ Timeout(q, n)

RequestStep(q) == MainStep(q) \/ \E n \in Nodes : ThreadStep(q, n)

Next ==
  \/ InitDb \/ BootCheckpointer
  \/ \E q \in Requests :
       (\E kind \in MayAsk[q] : Arrive(q, kind)) \/ RequestStep(q) \/ Fails(q)

\* Threads are scheduled, and a wait ends with a connection or with the timeout.  Nothing
\* has to fail.
Spec == Init /\ [][Next]_vars /\ \A q \in Requests : WF_vars(RequestStep(q))

-----------------------------------------------------------------------------
(* Properties. *)

\* Every connection that is out is held by one session that will close: no path through
\* a handler, a node or a failure leaks one.
ConnectionsAreAccountedFor ==
  checkedout = Cardinality(Holders) /\ checkedout <= PoolSize

Open(q) == req[q].at \notin {"idle", "answered"}

\* q can do nothing until somebody else gives a connection back
Blocked(q) ==
  /\ checkedout = PoolSize
  /\ \/ req[q].at \in NeedsMain
     \/ /\ req[q].at = "running"
        /\ \E n \in DOMAIN req[q].threads : Waits(q, n)
        /\ \A n \in DOMAIN req[q].threads : ThreadAt(q, n) => Waits(q, n)

\* All requests wait for each other only when as many of them as there are connections
\* hold one for the whole of their run: below that, one connection at a time is enough
\* for every node, and no checkout has to time out.
AllWaitOnlyWhenExhausted ==
  (\E q \in Requests : Open(q)) /\ (\A q \in Requests : Open(q) => Blocked(q))
    => Cardinality({q \in Requests : req[q].main = 1}) >= PoolSize

\* what went wrong, in the words of raised: of a node, or of the handler by where it was
Wrong(q, places) == \E failure \in req[q].raised : failure[2] \in places
InsideTry == {"own", "set_up", "run", "running"}

\* The row of an answered create tells how its run went.  It is "failed" only if the work
\* of a node, or set-up, or a statement of invoke failed, and never for an event that could
\* not be written; all of these leave it "failed", unless the commit of that failed too.
\* It is still "pending" only if no run was started or its last commit failed, and has the
\* outcome of a run only if one went through.
RowsTellHowTheRunWent ==
  \A q \in Requests : req[q].at = "answered" /\ req[q].kind = "create" =>
    /\ row[q] = "failed" => Wrong(q, InsideTry)
    /\ Wrong(q, InsideTry) => row[q] = "failed" \/ Wrong(q, {"failing"})
    /\ row[q] = "pending" => ~ req[q].ran \/ Wrong(q, {"failing", "persist"})
    /\ row[q] = "persisted" => req[q].ran

\* When set-up succeeded at boot every request is answered, however many there are.
EveryRequestIsAnswered ==
  \A q \in Requests : (Open(q) /\ ~ bootFailed) ~> (req[q].at = "answered")
=============================================================================
