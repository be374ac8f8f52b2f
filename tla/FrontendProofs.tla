---------------------------- MODULE FrontendProofs ----------------------------
(***************************************************************************)
(* The page (Frontend), for any number of clicks: a banner that asks for a *)
(* decision already taken is explained, and the flags are true.            *)
(*                                                                         *)
(* What is displayed and what the server has drift apart in three ways: an *)
(* answer on its way that is out of date when it is shown, a decision the  *)
(* page still waits for, and a decision the page has given up but the      *)
(* server will yet act on.  The inductive invariant says that an answer on *)
(* its way to a run is of an assessment nobody can have decided on         *)
(* (AnswersAreFresh), and that the other two are the only ways             *)
(* (DriftIsExplained).                                                     *)
(*                                                                         *)
(* That the screen is current needs more: as long as handlers come one at  *)
(* a time, each finds the screen as it left it (ScreenIsTheirs), and what  *)
(* the server has ended stays ended (AnswersAreGiven, ScreenIsAnAnswer).   *)
(***************************************************************************)
EXTENDS Frontend, TLAPS

Handlers == 1..Len(handler)

Statuses == {"none", "awaiting_approval", "finished", "failed"}
Shown == [id : Nat, status : Statuses]
Handler == [kind : {"run", "decide"}, id : Nat, awaits : {"answer", "trace", "nothing"},
            call : {"sent", "served"}, answer : Shown]

StateTypes == store \in Seq(Statuses) /\ screen \in Shown /\ handler \in Seq(Handler)

IdsAreKnown ==
  /\ screen.id <= Len(store)
  /\ Awaits(screen) => screen.id # 0
  /\ \A h \in Handlers : handler[h].kind = "decide" => handler[h].id \in 1..Len(store)

\* the trace is asked for after the answer
TraceFollowsTheAnswer == \A h \in Handlers : handler[h].awaits = "trace" => handler[h].call = "served"

DecisionsEnd ==
  \A h \in Handlers : handler[h].kind = "decide" /\ handler[h].call = "served" =>
    handler[h].answer.id = handler[h].id /\ handler[h].answer.status \in {"finished", "failed"}

OnItsWay(h) ==
  handler[h].kind = "run" /\ handler[h].awaits = "answer" /\ handler[h].call = "served"

\* An assessment whose answer is on its way was never shown.
AnswersAreFresh ==
  \A h \in Handlers : OnItsWay(h) =>
    /\ handler[h].answer.id \in 1..Len(store)
    /\ store[handler[h].answer.id] = handler[h].answer.status
    /\ screen.id # handler[h].answer.id
    /\ \A g \in Handlers :
         /\ handler[g].kind = "decide" => handler[g].id # handler[h].answer.id
         /\ OnItsWay(g) /\ g # h => handler[g].answer.id # handler[h].answer.id

\* a decision the server has not acted on and the page no longer waits for
GivenUp(h) == handler[h].kind = "decide" /\ handler[h].call = "sent" /\ handler[h].awaits = "nothing"

Drifted ==
  /\ Awaits(screen)
  /\ \/ store[screen.id] # "awaiting_approval"
     \/ \E h \in Handlers : GivenUp(h) /\ handler[h].id = screen.id

Explained ==
  ~ Unexplained \/ \E h \in Handlers : handler[h].kind = "decide" /\ handler[h].awaits = "answer"

DriftIsExplained == Drifted => Explained

BannerInv ==
  /\ StateTypes
  /\ IdsAreKnown
  /\ TraceFollowsTheAnswer
  /\ DecisionsEnd
  /\ AnswersAreFresh
  /\ DriftIsExplained

-----------------------------------------------------------------------------
(* A handler, and the ways it changes. *)

LEMMA HandlerType ==
  ASSUME StateTypes, NEW h \in Handlers
  PROVE  handler[h] \in Handler
BY DEF StateTypes, Handlers

LEMMA HandlerStarts ==
  ASSUME StateTypes, NEW kind \in {"run", "decide"}, NEW id \in Nat, handler' = Started(kind, id)
  PROVE  /\ handler' \in Seq(Handler)
         /\ Len(handler') = Len(handler) + 1
         /\ \A g \in Handlers : handler'[g] = handler[g]
         /\ handler'[Len(handler) + 1] =
              [kind |-> kind, id |-> id, awaits |-> "answer", call |-> "sent", answer |-> None]
<1>1. [kind |-> kind, id |-> id, awaits |-> "answer", call |-> "sent", answer |-> None] \in Handler
  BY DEF Handler, None, Shown, Statuses
<1> QED
  BY <1>1 DEF StateTypes, Started, Handlers

LEMMA HandlerMoves ==
  ASSUME StateTypes, NEW h \in Handlers, NEW awaits \in {"answer", "trace", "nothing"},
         handler' = [handler EXCEPT ![h].awaits = awaits]
  PROVE  /\ handler' \in Seq(Handler)
         /\ Handlers' = Handlers
         /\ \A g \in Handlers :
              /\ handler'[g].kind = handler[g].kind
              /\ handler'[g].id = handler[g].id
              /\ handler'[g].call = handler[g].call
              /\ handler'[g].answer = handler[g].answer
              /\ handler'[g].awaits = IF g = h THEN awaits ELSE handler[g].awaits
<1>1. handler[h] \in Handler
  BY HandlerType
<1>2. [handler[h] EXCEPT !.awaits = awaits] \in Handler
  BY <1>1 DEF Handler
<1> QED
  BY <1>1, <1>2 DEF StateTypes, Handlers, Handler

LEMMA HandlerIsServed ==
  ASSUME StateTypes, NEW h \in Handlers, NEW id \in Nat, NEW status \in Statuses,
         handler' = Answered(h, id, status)
  PROVE  /\ handler' \in Seq(Handler)
         /\ Handlers' = Handlers
         /\ \A g \in Handlers :
              /\ handler'[g].kind = handler[g].kind
              /\ handler'[g].id = handler[g].id
              /\ handler'[g].awaits = handler[g].awaits
              /\ handler'[g].call = IF g = h THEN "served" ELSE handler[g].call
              /\ handler'[g].answer = IF g = h THEN [id |-> id, status |-> status]
                                                ELSE handler[g].answer
<1>1. handler[h] \in Handler
  BY HandlerType
<1> DEFINE served == [handler[h] EXCEPT !.call = "served", !.answer = [id |-> id, status |-> status]]
<1>2. served \in Handler
  BY <1>1 DEF Handler, Shown
<1>3. handler' = [handler EXCEPT ![h] = served]
  BY <1>1 DEF Answered, StateTypes, Handlers, Handler
<1> QED
  BY <1>1, <1>2, <1>3 DEF StateTypes, Handlers, Handler

-----------------------------------------------------------------------------
(* Every step preserves the invariant. *)

LEMMA ErrorExplains ==
  ASSUME NEW what \in {"apps", "run", "decide", "trace"}, ShowError(what)
  PROVE  Explained'
BY DEF ShowError, Explained, Unexplained

\* where neither the server, nor the screen, nor a handler changes
LEMMA QuietStep ==
  ASSUME BannerInv, UNCHANGED <<store, screen, handler>>,
         Explained' \/ UNCHANGED <<error, dismissed>>
  PROVE  BannerInv'
<1>1. Drifted' <=> Drifted
  BY DEF Drifted, Awaits, GivenUp, Handlers
<1>2. Explained => Explained'
  BY DEF Explained, Unexplained, Handlers
<1>3. DriftIsExplained'
  BY <1>1, <1>2 DEF BannerInv, DriftIsExplained
<1> QED
  BY <1>3 DEF BannerInv, StateTypes, IdsAreKnown, TraceFollowsTheAnswer, DecisionsEnd,
              AnswersAreFresh, OnItsWay, Awaits, Handlers

LEMMA RunStarts == BannerInv /\ HandleRun => BannerInv'
<1> SUFFICES ASSUME BannerInv, HandleRun PROVE BannerInv'
  OBVIOUS
<1>0. StateTypes /\ handler' = Started("run", 0) /\ screen' = None /\ UNCHANGED store
  BY DEF BannerInv, HandleRun
<1>1. /\ handler' \in Seq(Handler)
      /\ Len(handler') = Len(handler) + 1
      /\ \A g \in Handlers : handler'[g] = handler[g]
      /\ handler'[Len(handler) + 1] =
           [kind |-> "run", id |-> 0, awaits |-> "answer", call |-> "sent", answer |-> None]
  BY <1>0, HandlerStarts
<1>2. Handlers' = Handlers \cup {Len(handler) + 1} /\ Len(handler) + 1 \notin Handlers
  BY <1>0, <1>1 DEF Handlers, StateTypes
<1>3. StateTypes'
  BY <1>0, <1>1 DEF StateTypes, None, Shown, Statuses
<1>4. ~ Awaits(screen)' /\ screen'.id = 0
  BY <1>0 DEF Awaits, None
<1>5. IdsAreKnown'
  BY <1>0, <1>1, <1>2, <1>4 DEF BannerInv, IdsAreKnown, StateTypes
<1>6. TraceFollowsTheAnswer' /\ DecisionsEnd'
  BY <1>1, <1>2 DEF BannerInv, TraceFollowsTheAnswer, DecisionsEnd
<1>7. AnswersAreFresh'
  BY <1>0, <1>1, <1>2, <1>4 DEF BannerInv, AnswersAreFresh, OnItsWay
<1>8. DriftIsExplained'
  BY <1>4 DEF DriftIsExplained, Drifted
<1> QED
  BY <1>3, <1>5, <1>6, <1>7, <1>8 DEF BannerInv

LEMMA DecisionStarts == BannerInv /\ HandleDecision => BannerInv'
<1> SUFFICES ASSUME BannerInv, HandleDecision PROVE BannerInv'
  OBVIOUS
<1>0. /\ StateTypes /\ handler' = Started("decide", screen.id) /\ Awaits(screen)
      /\ UNCHANGED <<store, screen>>
      /\ screen.id \in 1..Len(store)
  BY DEF BannerInv, HandleDecision, IdsAreKnown, StateTypes, Shown
<1>1. /\ handler' \in Seq(Handler)
      /\ Len(handler') = Len(handler) + 1
      /\ \A g \in Handlers : handler'[g] = handler[g]
      /\ handler'[Len(handler) + 1] =
           [kind |-> "decide", id |-> screen.id, awaits |-> "answer", call |-> "sent", answer |-> None]
  BY <1>0, HandlerStarts
<1>2. Handlers' = Handlers \cup {Len(handler) + 1} /\ Len(handler) + 1 \notin Handlers
  BY <1>0, <1>1 DEF Handlers, StateTypes
<1>3. StateTypes'
  BY <1>0, <1>1 DEF StateTypes
<1>4. IdsAreKnown'
  BY <1>0, <1>1, <1>2 DEF BannerInv, IdsAreKnown, Awaits
<1>5. TraceFollowsTheAnswer' /\ DecisionsEnd'
  BY <1>1, <1>2 DEF BannerInv, TraceFollowsTheAnswer, DecisionsEnd
<1>6. AnswersAreFresh'
  <2>1. \A h \in Handlers' : OnItsWay(h)' => h \in Handlers /\ OnItsWay(h) /\ handler'[h] = handler[h]
    BY <1>1, <1>2 DEF OnItsWay
  <2>2. ASSUME NEW h \in Handlers, OnItsWay(h), NEW g \in Handlers', handler'[g].kind = "decide"
        PROVE  handler'[g].id # handler[h].answer.id
    BY <1>1, <1>2, <2>2 DEF BannerInv, AnswersAreFresh
  <2> QED
    BY <1>0, <2>1, <2>2 DEF BannerInv, AnswersAreFresh
<1>7. DriftIsExplained'
  BY <1>1, <1>2 DEF DriftIsExplained, Explained
<1> QED
  BY <1>3, <1>4, <1>5, <1>6, <1>7 DEF BannerInv

LEMMA RunIsServed ==
  ASSUME BannerInv, NEW h \in Handlers, CreateAssessment(h), UNCHANGED <<screen, error, dismissed>>
  PROVE  BannerInv'
<1>0. PICK status \in {"awaiting_approval", "finished", "failed"} :
        store' = Append(store, status) /\ handler' = Answered(h, Len(store) + 1, status)
  BY DEF CreateAssessment
<1>types. StateTypes /\ Len(store) + 1 \in Nat /\ status \in Statuses
  BY DEF BannerInv, StateTypes, Statuses
<1>1. /\ handler' \in Seq(Handler)
      /\ Handlers' = Handlers
      /\ \A g \in Handlers :
           /\ handler'[g].kind = handler[g].kind
           /\ handler'[g].id = handler[g].id
           /\ handler'[g].awaits = handler[g].awaits
           /\ handler'[g].call = IF g = h THEN "served" ELSE handler[g].call
           /\ handler'[g].answer = IF g = h THEN [id |-> Len(store) + 1, status |-> status]
                                             ELSE handler[g].answer
  BY <1>0, <1>types, HandlerIsServed
<1>2. /\ store' \in Seq(Statuses)
      /\ Len(store') = Len(store) + 1
      /\ \A i \in 1..Len(store) : store'[i] = store[i]
      /\ store'[Len(store) + 1] = status
  BY <1>0 DEF BannerInv, StateTypes, Statuses
<1>3. handler[h].kind = "run" /\ handler[h].call = "sent"
  BY DEF CreateAssessment
<1>4. Len(store) \in Nat /\ screen.id \in 0..Len(store)
  BY DEF BannerInv, StateTypes, IdsAreKnown, Shown
<1>5. StateTypes'
  BY <1>1, <1>2 DEF BannerInv, StateTypes
<1>6. IdsAreKnown'
  BY <1>1, <1>2, <1>4 DEF BannerInv, IdsAreKnown, Awaits
<1>7. TraceFollowsTheAnswer' /\ DecisionsEnd'
  BY <1>1, <1>3 DEF BannerInv, TraceFollowsTheAnswer, DecisionsEnd
<1>8. AnswersAreFresh'
  <2>1. \A g \in Handlers : g # h => (OnItsWay(g)' <=> OnItsWay(g))
    BY <1>1 DEF OnItsWay
  <2>2. \A g \in Handlers : g # h /\ OnItsWay(g) => handler[g].answer.id \in 1..Len(store)
    BY DEF BannerInv, AnswersAreFresh
  <2>3. \A g \in Handlers : handler[g].kind = "decide" => handler[g].id \in 1..Len(store)
    BY DEF BannerInv, IdsAreKnown
  <2>4. ASSUME NEW g \in Handlers, OnItsWay(g)'
        PROVE  /\ handler'[g].answer.id \in 1..Len(store')
               /\ store'[handler'[g].answer.id] = handler'[g].answer.status
               /\ screen'.id # handler'[g].answer.id
    BY <1>1, <1>2, <1>4, <2>1, <2>4 DEF BannerInv, AnswersAreFresh
  <2>5. ASSUME NEW g \in Handlers, OnItsWay(g)', NEW d \in Handlers, handler[d].kind = "decide"
        PROVE  handler[d].id # handler'[g].answer.id
    BY <1>1, <1>4, <2>1, <2>3, <2>5 DEF BannerInv, AnswersAreFresh
  <2>6. ASSUME NEW g \in Handlers, OnItsWay(g)', NEW d \in Handlers, OnItsWay(d)', d # g
        PROVE  handler'[d].answer.id # handler'[g].answer.id
    <3>1. CASE d = h
      BY <1>1, <1>4, <2>1, <2>2, <2>6, <3>1
    <3>2. CASE g = h
      BY <1>1, <1>4, <2>1, <2>2, <2>6, <3>2
    <3>3. CASE d # h /\ g # h
      BY <1>1, <2>1, <2>6, <3>3 DEF BannerInv, AnswersAreFresh
    <3> QED
      BY <3>1, <3>2, <3>3
  <2> QED
    BY <1>1, <2>4, <2>5, <2>6 DEF AnswersAreFresh
<1>9. DriftIsExplained'
  <2>1. Drifted' => Drifted
    BY <1>1, <1>2, <1>4 DEF BannerInv, IdsAreKnown, Drifted, Awaits, GivenUp
  <2>2. Explained => Explained'
    BY <1>1 DEF Explained, Unexplained
  <2> QED
    BY <2>1, <2>2 DEF BannerInv, DriftIsExplained
<1> QED
  BY <1>5, <1>6, <1>7, <1>8, <1>9 DEF BannerInv

LEMMA DecisionIsServed ==
  ASSUME BannerInv, NEW h \in Handlers, SubmitApproval(h), UNCHANGED <<screen, error, dismissed>>
  PROVE  BannerInv'
<1>0. handler[h].kind = "decide" /\ handler[h].call = "sent" /\ handler[h].id \in 1..Len(store)
  BY DEF SubmitApproval, BannerInv, IdsAreKnown
<1>1. PICK status \in {"finished", "failed"} :
        /\ handler' = Answered(h, handler[h].id, status)
        /\ \/ store' = [store EXCEPT ![handler[h].id] = "finished"]
           \/ store' = store
  BY DEF SubmitApproval
<1>types. StateTypes /\ handler[h].id \in Nat /\ status \in Statuses
  BY <1>0 DEF BannerInv, Statuses
<1>2. /\ handler' \in Seq(Handler)
      /\ Handlers' = Handlers
      /\ \A g \in Handlers :
           /\ handler'[g].kind = handler[g].kind
           /\ handler'[g].id = handler[g].id
           /\ handler'[g].awaits = handler[g].awaits
           /\ handler'[g].call = IF g = h THEN "served" ELSE handler[g].call
           /\ handler'[g].answer = IF g = h THEN [id |-> handler[h].id, status |-> status]
                                             ELSE handler[g].answer
  BY <1>1, <1>types, HandlerIsServed
<1>3. /\ store' \in Seq(Statuses)
      /\ Len(store') = Len(store)
      /\ \A i \in 1..Len(store) : i # handler[h].id => store'[i] = store[i]
  BY <1>0, <1>1 DEF BannerInv, StateTypes, Statuses
<1>4. StateTypes'
  BY <1>2, <1>3 DEF BannerInv, StateTypes
<1>5. IdsAreKnown'
  BY <1>2, <1>3 DEF BannerInv, IdsAreKnown, Awaits
<1>6. TraceFollowsTheAnswer' /\ DecisionsEnd'
  BY <1>0, <1>2 DEF BannerInv, TraceFollowsTheAnswer, DecisionsEnd
<1>7. AnswersAreFresh'
  <2>1. \A g \in Handlers : OnItsWay(g)' => OnItsWay(g) /\ g # h /\ handler'[g].answer = handler[g].answer
    BY <1>0, <1>2 DEF OnItsWay
  <2>2. \A g \in Handlers : OnItsWay(g) => handler[g].answer.id # handler[h].id
    BY <1>0 DEF BannerInv, AnswersAreFresh
  <2>3. ASSUME NEW g \in Handlers, OnItsWay(g)'
        PROVE  /\ handler'[g].answer.id \in 1..Len(store')
               /\ store'[handler'[g].answer.id] = handler'[g].answer.status
               /\ screen'.id # handler'[g].answer.id
    <3>1. /\ handler[g].answer.id \in 1..Len(store)
          /\ store[handler[g].answer.id] = handler[g].answer.status
          /\ screen.id # handler[g].answer.id
      BY <2>1, <2>3 DEF BannerInv, AnswersAreFresh
    <3> QED
      BY <1>3, <2>1, <2>2, <2>3, <3>1
  <2>4. ASSUME NEW g \in Handlers, OnItsWay(g)', NEW d \in Handlers
        PROVE  /\ handler'[d].kind = "decide" => handler'[d].id # handler'[g].answer.id
               /\ OnItsWay(d)' /\ d # g => handler'[d].answer.id # handler'[g].answer.id
    BY <1>2, <2>1, <2>4 DEF BannerInv, AnswersAreFresh
  <2> QED
    BY <1>2, <2>3, <2>4 DEF AnswersAreFresh
<1>8. DriftIsExplained'
  <2>1. Explained => Explained'
    BY <1>2 DEF Explained, Unexplained
  <2>2. CASE screen.id # handler[h].id
    <3>1. Awaits(screen) => screen.id \in 1..Len(store)
      BY DEF BannerInv, StateTypes, IdsAreKnown, Shown
    <3>2. Drifted' => Drifted
      BY <1>2, <1>3, <2>2, <3>1 DEF Drifted, Awaits, GivenUp
    <3> QED
      BY <2>1, <3>2 DEF BannerInv, DriftIsExplained
  <2>3. CASE screen.id = handler[h].id /\ handler[h].awaits = "answer"
    BY <1>0, <1>2, <2>3 DEF DriftIsExplained, Explained
  <2>4. CASE screen.id = handler[h].id /\ handler[h].awaits # "answer"
    <3>1. handler[h].awaits = "nothing"
      BY <1>0, <2>4, HandlerType DEF BannerInv, Handler, TraceFollowsTheAnswer
    <3>2. Drifted' => Drifted
      BY <1>0, <2>4, <3>1 DEF Drifted, GivenUp, Awaits
    <3> QED
      BY <2>1, <3>2 DEF BannerInv, DriftIsExplained
  <2> QED
    BY <2>2, <2>3, <2>4
<1> QED
  BY <1>4, <1>5, <1>6, <1>7, <1>8 DEF BannerInv

LEMMA AnswerIsShown ==
  ASSUME BannerInv, NEW h \in Handlers, Show(h)
  PROVE  BannerInv'
<1>0. /\ handler[h].awaits = "answer" /\ handler[h].call = "served"
      /\ screen' = handler[h].answer
      /\ handler' = [handler EXCEPT ![h].awaits = "trace"]
      /\ UNCHANGED store
  BY DEF Show
<1>1. /\ handler' \in Seq(Handler)
      /\ Handlers' = Handlers
      /\ \A g \in Handlers :
           /\ handler'[g].kind = handler[g].kind
           /\ handler'[g].id = handler[g].id
           /\ handler'[g].call = handler[g].call
           /\ handler'[g].answer = handler[g].answer
           /\ handler'[g].awaits = IF g = h THEN "trace" ELSE handler[g].awaits
  BY <1>0, HandlerMoves DEF BannerInv
<1>2. handler[h].answer \in Shown /\ handler[h].kind \in {"run", "decide"}
  BY HandlerType DEF BannerInv, Handler
<1>3. screen'.id \in 1..Len(store)
  BY <1>0, <1>2 DEF BannerInv, IdsAreKnown, DecisionsEnd, AnswersAreFresh, OnItsWay
<1>4. StateTypes'
  BY <1>0, <1>1, <1>2 DEF BannerInv, StateTypes
<1>5. IdsAreKnown'
  BY <1>0, <1>1, <1>3 DEF BannerInv, IdsAreKnown, StateTypes
<1>6. TraceFollowsTheAnswer' /\ DecisionsEnd'
  BY <1>0, <1>1 DEF BannerInv, TraceFollowsTheAnswer, DecisionsEnd
<1>7. AnswersAreFresh'
  <2>1. \A g \in Handlers : OnItsWay(g)' => OnItsWay(g) /\ g # h
    BY <1>1 DEF OnItsWay
  <2>2. ASSUME NEW g \in Handlers, OnItsWay(g), g # h
        PROVE  handler[h].answer.id # handler[g].answer.id
    <3>1. CASE handler[h].kind = "run"
      BY <1>0, <2>2, <3>1 DEF BannerInv, AnswersAreFresh, OnItsWay
    <3>2. CASE handler[h].kind = "decide"
      BY <1>0, <2>2, <3>2 DEF BannerInv, AnswersAreFresh, DecisionsEnd
    <3> QED
      BY <1>2, <3>1, <3>2
  <2> QED
    BY <1>0, <1>1, <2>1, <2>2 DEF BannerInv, AnswersAreFresh
<1>8. ~ Drifted'
  <2>1. CASE handler[h].kind = "decide"
    BY <1>0, <2>1 DEF BannerInv, DecisionsEnd, Drifted, Awaits
  <2>2. CASE handler[h].kind = "run"
    BY <1>0, <1>1, <2>2 DEF BannerInv, AnswersAreFresh, OnItsWay, Drifted, Awaits, GivenUp
  <2> QED
    BY <1>2, <2>1, <2>2
<1> QED
  BY <1>4, <1>5, <1>6, <1>7, <1>8 DEF BannerInv, DriftIsExplained

\* An end: it is one of a failure, which explains, or of a handler that has shown its answer.
LEMMA HandlerEnds ==
  ASSUME BannerInv, NEW h \in Handlers,
         handler' = [handler EXCEPT ![h].awaits = "nothing"],
         UNCHANGED <<store, screen>>,
         Explained' \/ (handler[h].awaits = "trace" /\ UNCHANGED <<error, dismissed>>)
  PROVE  BannerInv'
<1>1. /\ handler' \in Seq(Handler)
      /\ Handlers' = Handlers
      /\ \A g \in Handlers :
           /\ handler'[g].kind = handler[g].kind
           /\ handler'[g].id = handler[g].id
           /\ handler'[g].call = handler[g].call
           /\ handler'[g].answer = handler[g].answer
           /\ handler'[g].awaits = IF g = h THEN "nothing" ELSE handler[g].awaits
  BY HandlerMoves DEF BannerInv
<1>2. StateTypes' /\ IdsAreKnown'
  BY <1>1 DEF BannerInv, StateTypes, IdsAreKnown, Awaits
<1>3. TraceFollowsTheAnswer' /\ DecisionsEnd'
  BY <1>1 DEF BannerInv, TraceFollowsTheAnswer, DecisionsEnd
<1>4. AnswersAreFresh'
  <2>1. \A g \in Handlers : OnItsWay(g)' => OnItsWay(g)
    BY <1>1 DEF OnItsWay
  <2> QED
    BY <1>1, <2>1 DEF BannerInv, AnswersAreFresh
<1>5. DriftIsExplained'
  <2>1. CASE Explained'
    BY <2>1 DEF DriftIsExplained
  <2>2. CASE handler[h].awaits = "trace" /\ UNCHANGED <<error, dismissed>>
    <3>1. Drifted' => Drifted
      BY <1>1, <2>2 DEF BannerInv, TraceFollowsTheAnswer, Drifted, Awaits, GivenUp
    <3>2. Explained => Explained'
      BY <1>1, <2>2 DEF Explained, Unexplained
    <3> QED
      BY <3>1, <3>2 DEF BannerInv, DriftIsExplained
  <2> QED
    BY <2>1, <2>2
<1> QED
  BY <1>2, <1>3, <1>4, <1>5 DEF BannerInv

-----------------------------------------------------------------------------
LEMMA BannerInvInit == Init => BannerInv
BY DEF Init, BannerInv, StateTypes, IdsAreKnown, TraceFollowsTheAnswer, DecisionsEnd,
       AnswersAreFresh, DriftIsExplained, Drifted, Awaits, None, Shown, Statuses, Handlers

LEMMA BannerInvStep == BannerInv /\ [Next]_vars => BannerInv'
<1> SUFFICES ASSUME BannerInv, [Next]_vars PROVE BannerInv'
  OBVIOUS
<1>1. CASE ListSampleApps
  BY <1>1, ErrorExplains, QuietStep DEF ListSampleApps
<1>2. CASE Dismiss
  <2>1. Explained'
    BY <1>2 DEF Dismiss, Explained, Unexplained
  <2> QED
    BY <1>2, <2>1, QuietStep DEF Dismiss
<1>3. CASE HandleRun
  BY <1>3, RunStarts
<1>4. CASE HandleDecision
  BY <1>4, DecisionStarts
<1>5. ASSUME NEW h \in Handlers, Serve(h) PROVE BannerInv'
  BY <1>5, RunIsServed, DecisionIsServed DEF Serve, history
<1>6. ASSUME NEW h \in Handlers, Show(h) PROVE BannerInv'
  BY <1>6, AnswerIsShown
<1>7. ASSUME NEW h \in Handlers, Fail(h) PROVE BannerInv'
  <2>1. handler[h].kind \in {"run", "decide"}
    BY HandlerType DEF BannerInv, Handler
  <2>2. Explained'
    BY <1>7, <2>1, ErrorExplains DEF Fail
  <2> QED
    BY <1>7, <2>2, HandlerEnds DEF Fail, Finally
<1>8. ASSUME NEW h \in Handlers, RefreshTrace(h) PROVE BannerInv'
  BY <1>8, HandlerEnds DEF RefreshTrace, Finally, history
<1>9. ASSUME NEW h \in Handlers, TraceFails(h) PROVE BannerInv'
  <2>1. Explained'
    BY <1>9, ErrorExplains DEF TraceFails
  <2> QED
    BY <1>9, <2>1, HandlerEnds DEF TraceFails, Finally
<1>10. CASE UNCHANGED vars
  BY <1>10, QuietStep DEF vars
<1> QED
  BY <1>1, <1>2, <1>3, <1>4, <1>5, <1>6, <1>7, <1>8, <1>9, <1>10 DEF Next, Resume, Handlers

\* A banner that asks for a decision already taken comes with an error the user has seen,
\* or with a decision on the way, however many handlers of App.tsx were started, in
\* whatever order their calls were answered and whichever of them broke.
THEOREM BannerIsExplained == Spec => []StaleBannerIsExplained
<1>1. BannerInv => StaleBannerIsExplained
  BY DEF BannerInv, DriftIsExplained, Drifted, Explained, StaleBannerIsExplained,
         InFlight, Handlers
<1> QED
  BY <1>1, BannerInvInit, BannerInvStep, PTL DEF Spec

-----------------------------------------------------------------------------
(* The flags. *)

LEMMA NothingEnds ==
  ASSUME Handlers' = Handlers,
         \A g \in Handlers : /\ handler'[g].kind = handler[g].kind
                             /\ (handler'[g].awaits = "nothing" <=> handler[g].awaits = "nothing"),
         UNCHANGED <<running, deciding>>,
         FlagsTellWhatIsInFlight
  PROVE  FlagsTellWhatIsInFlight'
<1>1. InFlight("run")' = InFlight("run") /\ InFlight("decide")' = InFlight("decide")
  BY DEF InFlight, Handlers
<1> QED
  BY <1>1 DEF FlagsTellWhatIsInFlight

LEMMA OneEnds ==
  ASSUME StateTypes, FlagsTellWhatIsInFlight, NEW h \in Handlers,
         handler[h].awaits # "nothing", Finally(h)
  PROVE  FlagsTellWhatIsInFlight'
<1>1. /\ Handlers' = Handlers
      /\ \A g \in Handlers :
           /\ handler'[g].kind = handler[g].kind
           /\ handler'[g].awaits = IF g = h THEN "nothing" ELSE handler[g].awaits
  BY HandlerMoves DEF Finally
<1>2. handler[h].kind \in {"run", "decide"}
  BY HandlerType DEF Handler
<1>3. \A kind : InFlight(kind)' = InFlight(kind) \ {h}
  BY <1>1 DEF InFlight, Handlers
<1>4. \A kind : handler[h].kind = kind => h \in InFlight(kind)
  BY DEF InFlight, Handlers
<1>5. \A kind : handler[h].kind # kind => h \notin InFlight(kind)
  BY DEF InFlight
<1>6. CASE handler[h].kind = "run"
  <2>1. InFlight("run")' = {} /\ InFlight("decide")' = InFlight("decide")
    BY <1>3, <1>4, <1>5, <1>6 DEF FlagsTellWhatIsInFlight
  <2>2. running' = FALSE /\ deciding' = deciding
    BY <1>6 DEF Finally
  <2> QED
    BY <2>1, <2>2 DEF FlagsTellWhatIsInFlight
<1>7. CASE handler[h].kind = "decide"
  <2>1. InFlight("decide")' = {} /\ InFlight("run")' = InFlight("run")
    BY <1>3, <1>4, <1>5, <1>7 DEF FlagsTellWhatIsInFlight
  <2>2. deciding' = FALSE /\ running' = running
    BY <1>7 DEF Finally
  <2> QED
    BY <2>1, <2>2 DEF FlagsTellWhatIsInFlight
<1> QED
  BY <1>2, <1>6, <1>7

LEMMA OneStarts ==
  ASSUME StateTypes, NEW kind \in {"run", "decide"}, NEW id \in Nat, handler' = Started(kind, id)
  PROVE  /\ InFlight(kind)' = InFlight(kind) \cup {Len(handler) + 1}
         /\ \A other : other # kind => InFlight(other)' = InFlight(other)
<1>1. /\ Len(handler') = Len(handler) + 1
      /\ \A g \in Handlers : handler'[g] = handler[g]
      /\ handler'[Len(handler) + 1] =
           [kind |-> kind, id |-> id, awaits |-> "answer", call |-> "sent", answer |-> None]
  BY HandlerStarts
<1>2. Len(handler) \in Nat
  BY DEF StateTypes
<1>3. 1..Len(handler') = Handlers \cup {Len(handler) + 1}
  BY <1>1, <1>2 DEF Handlers
<1>4. ASSUME NEW other
      PROVE  InFlight(other)' = InFlight(other) \cup (IF other = kind THEN {Len(handler) + 1} ELSE {})
  <2>1. \A g \in Handlers : g \in InFlight(other)' <=> g \in InFlight(other)
    BY <1>1, <1>3 DEF InFlight, Handlers
  <2>2. Len(handler) + 1 \in InFlight(other)' <=> other = kind
    BY <1>1, <1>3 DEF InFlight
  <2>3. InFlight(other)' \subseteq Handlers \cup {Len(handler) + 1} /\ InFlight(other) \subseteq Handlers
    BY <1>3 DEF InFlight, Handlers
  <2>4. Len(handler) + 1 \notin Handlers
    BY <1>2 DEF Handlers
  <2> QED
    BY <2>1, <2>2, <2>3, <2>4
<1> QED
  BY <1>4

LEMMA FlagsStep == BannerInv /\ FlagsTellWhatIsInFlight /\ [Next]_vars => FlagsTellWhatIsInFlight'
<1> SUFFICES ASSUME BannerInv, FlagsTellWhatIsInFlight, [Next]_vars
             PROVE  FlagsTellWhatIsInFlight'
  OBVIOUS
<1>types. StateTypes
  BY DEF BannerInv
<1>1. CASE HandleRun
  <2>1. running' = TRUE /\ ~ running /\ UNCHANGED deciding
    BY <1>1 DEF HandleRun
  <2>2. InFlight("run")' = {Len(handler) + 1} /\ InFlight("decide")' = InFlight("decide")
    BY <1>types, <1>1, <2>1, OneStarts DEF HandleRun, FlagsTellWhatIsInFlight
  <2> QED
    BY <2>1, <2>2 DEF FlagsTellWhatIsInFlight
<1>2. CASE HandleDecision
  <2>1. deciding' = TRUE /\ ~ deciding /\ UNCHANGED running
    BY <1>2 DEF HandleDecision
  <2>2. screen.id \in Nat
    BY <1>types DEF StateTypes, Shown
  <2>3. InFlight("decide")' = {Len(handler) + 1} /\ InFlight("run")' = InFlight("run")
    BY <1>types, <1>2, <2>1, <2>2, OneStarts DEF HandleDecision, FlagsTellWhatIsInFlight
  <2> QED
    BY <2>1, <2>3 DEF FlagsTellWhatIsInFlight
<1>3. CASE ListSampleApps \/ Dismiss \/ UNCHANGED vars
  BY <1>3, NothingEnds DEF ListSampleApps, Dismiss, vars, Handlers
<1>4. ASSUME NEW h \in Handlers, Serve(h) PROVE FlagsTellWhatIsInFlight'
  <2>1. PICK id \in Nat, status \in Statuses : handler' = Answered(h, id, status)
    <3>1. Len(store) + 1 \in Nat /\ handler[h].id \in Nat
      BY <1>types, HandlerType DEF StateTypes, Handler
    <3> QED
      BY <1>4, <3>1 DEF Serve, CreateAssessment, SubmitApproval, Statuses
  <2> QED
    BY <1>types, <1>4, <2>1, HandlerIsServed, NothingEnds DEF Serve
<1>5. ASSUME NEW h \in Handlers, Show(h) PROVE FlagsTellWhatIsInFlight'
  <2>1. /\ handler[h].awaits = "answer"
        /\ handler' = [handler EXCEPT ![h].awaits = "trace"]
        /\ UNCHANGED <<running, deciding>>
    BY <1>5 DEF Show
  <2>2. /\ Handlers' = Handlers
        /\ \A g \in Handlers :
             /\ handler'[g].kind = handler[g].kind
             /\ handler'[g].awaits = IF g = h THEN "trace" ELSE handler[g].awaits
    BY <1>types, <2>1, HandlerMoves
  <2> QED
    BY <2>1, <2>2, NothingEnds
<1>6. ASSUME NEW h \in Handlers, Fail(h) \/ RefreshTrace(h) \/ TraceFails(h)
      PROVE  FlagsTellWhatIsInFlight'
  <2>1. handler[h].awaits # "nothing" /\ Finally(h)
    BY <1>6 DEF Fail, RefreshTrace, TraceFails
  <2> QED
    BY <1>types, <2>1, OneEnds
<1> QED
  BY <1>1, <1>2, <1>3, <1>4, <1>5, <1>6 DEF Next, Resume, Handlers

\* The flags that disable the form and the buttons of App.tsx tell what is in flight, and
\* never are two runs or two decisions in flight, whichever call breaks.
THEOREM FlagsAreTrue == Spec => []FlagsTellWhatIsInFlight
<1>1. Init => FlagsTellWhatIsInFlight
  BY DEF Init, FlagsTellWhatIsInFlight, InFlight
<1> QED
  BY <1>1, BannerInvInit, BannerInvStep, FlagsStep, PTL DEF Spec

-----------------------------------------------------------------------------
(* The screen, while no run and decision were in flight together. *)

Working == {h \in Handlers : handler[h].awaits # "nothing"}

\* what ended stays as it ended
AnswersAreGiven ==
  \A h \in Handlers : handler[h].call = "served" =>
    /\ handler[h].answer.id \in 1..Len(store)
    /\ handler[h].answer.status \in {"awaiting_approval", "finished", "failed"}
    /\ handler[h].answer.status = "finished" => store[handler[h].answer.id] = "finished"

ScreenIsAnAnswer ==
  \/ screen = None
  \/ /\ screen.id \in 1..Len(store)
     /\ Awaits(screen) \/ (screen.status = "finished" /\ store[screen.id] = "finished")

OneAtATime == \A g, h \in Working : g = h

\* what a handler finds on the screen when its call returns
ScreenIsTheirs ==
  \A h \in Handlers :
    /\ handler[h].awaits = "answer" =>
         IF handler[h].kind = "run" THEN screen = None ELSE screen.id = handler[h].id
    /\ handler[h].awaits = "trace" =>
         /\ screen = handler[h].answer
         /\ store[handler[h].answer.id] = handler[h].answer.status
         /\ Awaits(handler[h].answer) =>
              \A g \in Handlers : handler[g].kind = "decide" => handler[g].id # handler[h].answer.id

TraceIsOfScreen ==
  /\ trace.id \in {0, screen.id}
  /\ Working = {} /\ Unexplained /\ screen # None => trace = screen

ScreenInv ==
  /\ AnswersAreGiven
  /\ ScreenIsAnAnswer
  /\ ~ overlapped => OneAtATime /\ ScreenIsTheirs /\ TraceIsOfScreen

FullInv == BannerInv /\ FlagsTellWhatIsInFlight /\ ScreenInv

LEMMA NobodyWorks ==
  ASSUME StateTypes, FlagsTellWhatIsInFlight, ~ running, ~ deciding
  PROVE  Working = {}
<1>1. InFlight("run") = {} /\ InFlight("decide") = {}
  BY DEF FlagsTellWhatIsInFlight
<1>2. \A h \in Handlers : handler[h].kind \in {"run", "decide"}
  BY HandlerType DEF Handler
<1> QED
  BY <1>1, <1>2 DEF InFlight, Working, Handlers

LEMMA OneMoreHandler ==
  ASSUME StateTypes, NEW kind \in {"run", "decide"}, NEW id \in Nat, handler' = Started(kind, id)
  PROVE  /\ Handlers' = Handlers \cup {Len(handler) + 1} /\ Len(handler) + 1 \notin Handlers
         /\ \A g \in Handlers : handler'[g] = handler[g]
         /\ handler'[Len(handler) + 1] =
              [kind |-> kind, id |-> id, awaits |-> "answer", call |-> "sent", answer |-> None]
         /\ Working' = Working \cup {Len(handler) + 1}
<1>1. /\ Len(handler') = Len(handler) + 1
      /\ \A g \in Handlers : handler'[g] = handler[g]
      /\ handler'[Len(handler) + 1] =
           [kind |-> kind, id |-> id, awaits |-> "answer", call |-> "sent", answer |-> None]
  BY HandlerStarts
<1>2. Handlers' = Handlers \cup {Len(handler) + 1} /\ Len(handler) + 1 \notin Handlers
  BY <1>1 DEF Handlers, StateTypes
<1> QED
  BY <1>1, <1>2 DEF Working

LEMMA ScreenRunStarts == FullInv /\ HandleRun => ScreenInv'
<1> SUFFICES ASSUME FullInv, HandleRun PROVE ScreenInv'
  OBVIOUS
<1>0. /\ StateTypes /\ handler' = Started("run", 0) /\ screen' = None /\ trace' = None
      /\ store' = store /\ ~ running /\ overlapped' = (overlapped \/ deciding)
  BY DEF FullInv, BannerInv, HandleRun
<1>1. /\ Handlers' = Handlers \cup {Len(handler) + 1} /\ Len(handler) + 1 \notin Handlers
      /\ \A g \in Handlers : handler'[g] = handler[g]
      /\ handler'[Len(handler) + 1] =
           [kind |-> "run", id |-> 0, awaits |-> "answer", call |-> "sent", answer |-> None]
      /\ Working' = Working \cup {Len(handler) + 1}
  BY <1>0, OneMoreHandler
<1>2. AnswersAreGiven'
  BY <1>0, <1>1 DEF FullInv, ScreenInv, AnswersAreGiven
<1>3. ScreenIsAnAnswer'
  BY <1>0 DEF ScreenIsAnAnswer, None
<1>4. ASSUME ~ overlapped' PROVE OneAtATime' /\ ScreenIsTheirs' /\ TraceIsOfScreen'
  <2>1. Working = {}
    BY <1>0, <1>4, NobodyWorks DEF FullInv
  <2>2. Working' = {Len(handler) + 1}
    BY <1>1, <2>1
  <2>3. \A h \in Handlers : handler[h].awaits = "nothing"
    BY <2>1 DEF Working
  <2>4. OneAtATime'
    BY <2>2 DEF OneAtATime
  <2>5. ScreenIsTheirs'
    BY <1>0, <1>1, <2>3 DEF ScreenIsTheirs
  <2>6. TraceIsOfScreen'
    BY <1>0, <2>2 DEF TraceIsOfScreen, None
  <2> QED
    BY <2>4, <2>5, <2>6
<1> QED
  BY <1>2, <1>3, <1>4 DEF ScreenInv

LEMMA ScreenDecisionStarts == FullInv /\ HandleDecision => ScreenInv'
<1> SUFFICES ASSUME FullInv, HandleDecision PROVE ScreenInv'
  OBVIOUS
<1>0. /\ StateTypes /\ handler' = Started("decide", screen.id) /\ screen' = screen /\ trace' = trace
      /\ store' = store /\ ~ deciding /\ overlapped' = (overlapped \/ running) /\ screen.id \in Nat
  BY DEF FullInv, BannerInv, HandleDecision, StateTypes, Shown
<1>1. /\ Handlers' = Handlers \cup {Len(handler) + 1} /\ Len(handler) + 1 \notin Handlers
      /\ \A g \in Handlers : handler'[g] = handler[g]
      /\ handler'[Len(handler) + 1] =
           [kind |-> "decide", id |-> screen.id, awaits |-> "answer", call |-> "sent", answer |-> None]
      /\ Working' = Working \cup {Len(handler) + 1}
  BY <1>0, OneMoreHandler
<1>2. AnswersAreGiven'
  BY <1>0, <1>1 DEF FullInv, ScreenInv, AnswersAreGiven
<1>3. ScreenIsAnAnswer'
  BY <1>0 DEF FullInv, ScreenInv, ScreenIsAnAnswer, Awaits
<1>4. ASSUME ~ overlapped' PROVE OneAtATime' /\ ScreenIsTheirs' /\ TraceIsOfScreen'
  <2>1. Working = {} /\ ~ overlapped
    BY <1>0, <1>4, NobodyWorks DEF FullInv
  <2>2. Working' = {Len(handler) + 1}
    BY <1>1, <2>1
  <2>3. \A h \in Handlers : handler[h].awaits = "nothing"
    BY <2>1 DEF Working
  <2>4. OneAtATime'
    BY <2>2 DEF OneAtATime
  <2>5. ScreenIsTheirs'
    BY <1>0, <1>1, <2>3 DEF ScreenIsTheirs
  <2>6. TraceIsOfScreen'
    BY <1>0, <2>1, <2>2 DEF FullInv, ScreenInv, TraceIsOfScreen
  <2> QED
    BY <2>4, <2>5, <2>6
<1> QED
  BY <1>2, <1>3, <1>4 DEF ScreenInv

\* The server acts: a status that was not waiting for a decision stays as it is.
LEMMA ScreenIsServed ==
  ASSUME FullInv, NEW h \in Handlers, handler[h].call = "sent",
         NEW id \in Nat, NEW status \in {"awaiting_approval", "finished", "failed"},
         handler' = Answered(h, id, status),
         Len(store') \in Nat, id \in 1..Len(store'), status = "finished" => store'[id] = "finished",
         \A i \in 1..Len(store) :
           /\ i \in 1..Len(store')
           /\ store'[i] = store[i] \/ (store[i] = "awaiting_approval" /\ handler[h].kind = "decide"
                                         /\ handler[h].id = i),
         UNCHANGED <<screen, trace, error, dismissed, overlapped>>
  PROVE  ScreenInv'
<1>types. StateTypes /\ TraceFollowsTheAnswer /\ status \in Statuses
  BY DEF FullInv, BannerInv, Statuses
<1>1. /\ Handlers' = Handlers
      /\ \A g \in Handlers :
           /\ handler'[g].kind = handler[g].kind
           /\ handler'[g].id = handler[g].id
           /\ handler'[g].awaits = handler[g].awaits
           /\ handler'[g].call = IF g = h THEN "served" ELSE handler[g].call
           /\ handler'[g].answer = IF g = h THEN [id |-> id, status |-> status] ELSE handler[g].answer
  BY <1>types, HandlerIsServed
<1>2. AnswersAreGiven'
  <2> SUFFICES ASSUME NEW g \in Handlers, handler'[g].call = "served"
               PROVE  /\ handler'[g].answer.id \in 1..Len(store')
                      /\ handler'[g].answer.status \in {"awaiting_approval", "finished", "failed"}
                      /\ handler'[g].answer.status = "finished" =>
                           store'[handler'[g].answer.id] = "finished"
    BY <1>1 DEF AnswersAreGiven
  <2>1. CASE g = h
    BY <1>1, <2>1
  <2>2. CASE g # h
    <3>1. handler[g].call = "served" /\ handler'[g].answer = handler[g].answer
      BY <1>1, <2>2
    <3>2. /\ handler[g].answer.id \in 1..Len(store)
          /\ handler[g].answer.status \in {"awaiting_approval", "finished", "failed"}
          /\ handler[g].answer.status = "finished" => store[handler[g].answer.id] = "finished"
      BY <3>1 DEF FullInv, ScreenInv, AnswersAreGiven
    <3> QED
      BY <3>1, <3>2
  <2> QED
    BY <2>1, <2>2
<1>3. ScreenIsAnAnswer'
  BY DEF FullInv, ScreenInv, ScreenIsAnAnswer, Awaits
<1>4. Working' = Working
  BY <1>1 DEF Working
<1>5. ASSUME ~ overlapped' PROVE OneAtATime' /\ ScreenIsTheirs' /\ TraceIsOfScreen'
  <2>1. OneAtATime /\ ScreenIsTheirs /\ TraceIsOfScreen
    BY <1>5 DEF FullInv, ScreenInv
  <2>2. OneAtATime' /\ TraceIsOfScreen'
    BY <1>4, <2>1 DEF OneAtATime, TraceIsOfScreen, Unexplained
  <2>3. ASSUME NEW g \in Handlers, handler'[g].awaits = "answer"
        PROVE  IF handler'[g].kind = "run" THEN screen' = None ELSE screen'.id = handler'[g].id
    BY <1>1, <2>1, <2>3 DEF ScreenIsTheirs
  <2>4. ASSUME NEW g \in Handlers, handler'[g].awaits = "trace"
        PROVE  /\ screen' = handler'[g].answer
               /\ store'[handler'[g].answer.id] = handler'[g].answer.status
               /\ Awaits(handler'[g].answer) => \A d \in Handlers :
                    handler'[d].kind = "decide" => handler'[d].id # handler'[g].answer.id
    <3>1. g # h /\ handler[g].awaits = "trace" /\ handler[g].call = "served"
          /\ handler'[g].answer = handler[g].answer
      BY <1>types, <1>1, <2>4 DEF TraceFollowsTheAnswer
    <3>2. handler[g].answer.id \in 1..Len(store)
      BY <3>1 DEF FullInv, ScreenInv, AnswersAreGiven
    <3>3. /\ screen = handler[g].answer
          /\ store[handler[g].answer.id] = handler[g].answer.status
          /\ Awaits(handler[g].answer) =>
               \A d \in Handlers : handler[d].kind = "decide" => handler[d].id # handler[g].answer.id
      BY <2>1, <3>1 DEF ScreenIsTheirs
    <3>4. store'[handler[g].answer.id] = store[handler[g].answer.id]
      BY <3>2, <3>3 DEF Awaits
    <3> QED
      BY <1>1, <3>1, <3>3, <3>4
  <2>5. ScreenIsTheirs'
    BY <1>1, <2>3, <2>4 DEF ScreenIsTheirs
  <2> QED
    BY <2>2, <2>5
<1> QED
  BY <1>2, <1>3, <1>5 DEF ScreenInv

LEMMA ScreenServe ==
  ASSUME FullInv, NEW h \in Handlers, Serve(h) PROVE ScreenInv'
<1>types. store \in Seq(Statuses) /\ StateTypes /\ IdsAreKnown
  BY DEF FullInv, BannerInv, StateTypes
<1>0. UNCHANGED <<screen, trace, error, dismissed, overlapped>>
  BY DEF Serve, history
<1>1. CASE CreateAssessment(h)
  <2>1. PICK status \in {"awaiting_approval", "finished", "failed"} :
          store' = Append(store, status) /\ handler' = Answered(h, Len(store) + 1, status)
    BY <1>1 DEF CreateAssessment
  <2>2. status \in Statuses /\ Len(store) \in Nat /\ Len(store) + 1 \in Nat
    BY <1>types DEF Statuses
  <2>3. /\ Len(store') = Len(store) + 1 /\ store'[Len(store) + 1] = status
        /\ \A i \in 1..Len(store) : store'[i] = store[i]
    BY <1>types, <2>1, <2>2
  <2>4. /\ Len(store') \in Nat /\ Len(store) + 1 \in 1..Len(store')
        /\ status = "finished" => store'[Len(store) + 1] = "finished"
        /\ \A i \in 1..Len(store) : i \in 1..Len(store') /\ store'[i] = store[i]
    BY <2>2, <2>3
  <2>5. handler[h].call = "sent"
    BY <1>1 DEF CreateAssessment
  <2> QED
    BY <1>0, <2>1, <2>2, <2>4, <2>5, ScreenIsServed
<1>2. CASE SubmitApproval(h)
  <2> DEFINE id == handler[h].id
  <2>1. handler[h].call = "sent" /\ handler[h].kind = "decide" /\ id \in 1..Len(store)
    BY <1>types, <1>2 DEF SubmitApproval, IdsAreKnown
  <2>2. PICK status \in {"finished", "failed"} :
          /\ handler' = Answered(h, id, status)
          /\ \/ status = "finished" /\ store[id] = "awaiting_approval" /\ store' = [store EXCEPT ![id] = "finished"]
             \/ status = "failed" /\ store' = store
    BY <1>2 DEF SubmitApproval
  <2> HIDE DEF id
  <2>3. /\ Len(store') = Len(store) /\ Len(store) \in Nat /\ id \in Nat
        /\ status = "finished" => store'[id] = "finished"
        /\ \A i \in 1..Len(store) : store'[i] = store[i] \/ (store[i] = "awaiting_approval" /\ id = i)
    BY <1>types, <2>1, <2>2
  <2>4. /\ Len(store') \in Nat /\ id \in 1..Len(store')
        /\ \A i \in 1..Len(store) :
             /\ i \in 1..Len(store')
             /\ store'[i] = store[i] \/ (store[i] = "awaiting_approval" /\ handler[h].kind = "decide"
                                           /\ handler[h].id = i)
    BY <2>1, <2>3 DEF id
  <2>5. status \in {"awaiting_approval", "finished", "failed"}
    BY <2>2
  <2> QED
    BY <1>0, <2>1, <2>2, <2>3, <2>4, <2>5, ScreenIsServed
<1> QED
  BY <1>1, <1>2 DEF Serve

LEMMA ScreenShow ==
  ASSUME FullInv, NEW h \in Handlers, Show(h) PROVE ScreenInv'
<1>0. /\ handler[h].awaits = "answer" /\ handler[h].call = "served" /\ handler[h].answer.status # "failed"
      /\ screen' = handler[h].answer
      /\ handler' = [handler EXCEPT ![h].awaits = "trace"]
      /\ UNCHANGED <<store, trace, error, dismissed, overlapped>>
  BY DEF Show, history
<1>types. StateTypes /\ DecisionsEnd /\ AnswersAreFresh /\ AnswersAreGiven
  BY DEF FullInv, BannerInv, ScreenInv
<1>1. /\ Handlers' = Handlers
      /\ \A g \in Handlers :
           /\ handler'[g].kind = handler[g].kind
           /\ handler'[g].id = handler[g].id
           /\ handler'[g].call = handler[g].call
           /\ handler'[g].answer = handler[g].answer
           /\ handler'[g].awaits = IF g = h THEN "trace" ELSE handler[g].awaits
  BY <1>0, <1>types, HandlerMoves
<1>2. handler[h].kind \in {"run", "decide"}
  BY <1>types, HandlerType DEF Handler
<1>3. AnswersAreGiven'
  BY <1>0, <1>1, <1>types DEF AnswersAreGiven
<1>4. ScreenIsAnAnswer'
  BY <1>0, <1>types DEF AnswersAreGiven, ScreenIsAnAnswer, Awaits
<1>5. Working' = Working /\ h \in Working
  BY <1>0, <1>1 DEF Working
<1>6. ASSUME ~ overlapped' PROVE OneAtATime' /\ ScreenIsTheirs' /\ TraceIsOfScreen'
  <2>1. OneAtATime /\ ScreenIsTheirs /\ TraceIsOfScreen
    BY <1>0, <1>6 DEF FullInv, ScreenInv
  <2>2. \A g \in Handlers : g # h => handler[g].awaits = "nothing"
    BY <1>5, <2>1 DEF OneAtATime, Working
  <2>3. IF handler[h].kind = "run" THEN screen = None ELSE screen.id = handler[h].id
    BY <1>0, <2>1 DEF ScreenIsTheirs
  <2>4. /\ store[handler[h].answer.id] = handler[h].answer.status
        /\ Awaits(handler[h].answer) =>
             \A g \in Handlers : handler[g].kind = "decide" => handler[g].id # handler[h].answer.id
    <3>1. CASE handler[h].kind = "run"
      BY <1>0, <1>types, <3>1 DEF AnswersAreFresh, OnItsWay
    <3>2. CASE handler[h].kind = "decide"
      BY <1>0, <1>types, <3>2 DEF DecisionsEnd, AnswersAreGiven, Awaits
    <3> QED
      BY <1>2, <3>1, <3>2
  <2>5. ScreenIsTheirs'
    BY <1>0, <1>1, <2>2, <2>4 DEF ScreenIsTheirs
  <2>6. trace'.id \in {0, screen'.id}
    <3>1. CASE handler[h].kind = "run"
      BY <1>0, <2>1, <2>3, <3>1 DEF TraceIsOfScreen, None
    <3>2. CASE handler[h].kind = "decide"
      BY <1>0, <1>types, <2>1, <2>3, <3>2 DEF TraceIsOfScreen, DecisionsEnd
    <3> QED
      BY <1>2, <3>1, <3>2
  <2>7. OneAtATime' /\ TraceIsOfScreen'
    BY <1>5, <2>1, <2>6 DEF OneAtATime, TraceIsOfScreen
  <2> QED
    BY <2>5, <2>7
<1> QED
  BY <1>3, <1>4, <1>6 DEF ScreenInv

\* A handler ends: with an error, or with the trace of what is on the screen.
LEMMA ScreenEnds ==
  ASSUME FullInv, NEW h \in Handlers, handler[h].awaits # "nothing",
         handler' = [handler EXCEPT ![h].awaits = "nothing"],
         UNCHANGED <<store, screen, overlapped>>,
         \/ trace' = trace /\ error' # "none"
         \/ /\ handler[h].awaits = "trace"
            /\ \E status \in {handler[h].answer.status, store[handler[h].answer.id]} :
                 trace' = [id |-> handler[h].answer.id, status |-> status]
  PROVE  ScreenInv'
<1>types. StateTypes /\ AnswersAreGiven
  BY DEF FullInv, BannerInv, ScreenInv
<1>1. /\ Handlers' = Handlers
      /\ \A g \in Handlers :
           /\ handler'[g].kind = handler[g].kind
           /\ handler'[g].id = handler[g].id
           /\ handler'[g].call = handler[g].call
           /\ handler'[g].answer = handler[g].answer
           /\ handler'[g].awaits = IF g = h THEN "nothing" ELSE handler[g].awaits
  BY <1>types, HandlerMoves
<1>2. AnswersAreGiven'
  BY <1>1, <1>types DEF AnswersAreGiven
<1>3. ScreenIsAnAnswer'
  BY DEF FullInv, ScreenInv, ScreenIsAnAnswer, Awaits
<1>4. ASSUME ~ overlapped' PROVE OneAtATime' /\ ScreenIsTheirs' /\ TraceIsOfScreen'
  <2>1. OneAtATime /\ ScreenIsTheirs /\ TraceIsOfScreen
    BY <1>4 DEF FullInv, ScreenInv
  <2>2. Working' \subseteq Working
    BY <1>1 DEF Working
  <2>3. OneAtATime'
    BY <2>1, <2>2 DEF OneAtATime
  <2>4. \A g \in Handlers : handler'[g].awaits # "nothing" => handler'[g].awaits = handler[g].awaits
    BY <1>1
  <2>5. ScreenIsTheirs'
    BY <1>1, <2>1, <2>4 DEF ScreenIsTheirs
  <2>6. TraceIsOfScreen'
    <3>1. CASE trace' = trace /\ error' # "none"
      BY <2>1, <3>1 DEF TraceIsOfScreen, Unexplained
    <3>2. CASE /\ handler[h].awaits = "trace"
               /\ \E status \in {handler[h].answer.status, store[handler[h].answer.id]} :
                    trace' = [id |-> handler[h].answer.id, status |-> status]
      <4>1. screen = handler[h].answer /\ store[handler[h].answer.id] = handler[h].answer.status
        BY <2>1, <3>2 DEF ScreenIsTheirs
      <4>2. screen \in Shown
        BY <1>types DEF StateTypes
      <4>3. trace' = [id |-> screen.id, status |-> screen.status]
        BY <3>2, <4>1
      <4>4. trace' = screen
        BY <4>2, <4>3 DEF Shown
      <4> QED
        BY <4>4 DEF TraceIsOfScreen
    <3> QED
      BY <3>1, <3>2
  <2> QED
    BY <2>3, <2>5, <2>6
<1> QED
  BY <1>2, <1>3, <1>4 DEF ScreenInv

LEMMA ScreenQuiet ==
  ASSUME FullInv, UNCHANGED <<store, screen, trace, handler, overlapped>>, Unexplained' => Unexplained
  PROVE  ScreenInv'
BY DEF FullInv, ScreenInv, AnswersAreGiven, ScreenIsAnAnswer, OneAtATime, ScreenIsTheirs,
       TraceIsOfScreen, Working, Handlers, Awaits

LEMMA ScreenStep == FullInv /\ [Next]_vars => ScreenInv'
<1> SUFFICES ASSUME FullInv, [Next]_vars PROVE ScreenInv'
  OBVIOUS
<1>1. CASE ListSampleApps \/ Dismiss \/ UNCHANGED vars
  <2>1. Unexplained' => Unexplained
    BY <1>1 DEF ListSampleApps, Dismiss, ShowError, vars, Unexplained
  <2> QED
    BY <1>1, <2>1, ScreenQuiet DEF ListSampleApps, Dismiss, vars
<1>2. CASE HandleRun
  BY <1>2, ScreenRunStarts
<1>3. CASE HandleDecision
  BY <1>3, ScreenDecisionStarts
<1>4. ASSUME NEW h \in Handlers, Serve(h) PROVE ScreenInv'
  BY <1>4, ScreenServe
<1>5. ASSUME NEW h \in Handlers, Show(h) PROVE ScreenInv'
  BY <1>5, ScreenShow
<1>6. ASSUME NEW h \in Handlers, Fail(h) \/ TraceFails(h) PROVE ScreenInv'
  <2>1. handler[h].kind # "none"
    <3>1. handler[h].kind \in {"run", "decide"}
      BY HandlerType DEF FullInv, BannerInv, Handler
    <3> QED
      BY <3>1
  <2>2. error' # "none" /\ handler[h].awaits # "nothing" /\ Finally(h)
        /\ UNCHANGED <<store, screen, trace, overlapped>>
    BY <1>6, <2>1 DEF Fail, TraceFails, ShowError
  <2> QED
    BY <2>2, ScreenEnds DEF Finally
<1>7. ASSUME NEW h \in Handlers, RefreshTrace(h) PROVE ScreenInv'
  <2>1. /\ handler[h].awaits = "trace" /\ Finally(h) /\ UNCHANGED <<store, screen, overlapped>>
        /\ \E status \in {handler[h].answer.status, store[handler[h].answer.id]} :
             trace' = [id |-> handler[h].answer.id, status |-> status]
    BY <1>7 DEF RefreshTrace, history
  <2> QED
    BY <2>1, ScreenEnds DEF Finally
<1> QED
  BY <1>1, <1>2, <1>3, <1>4, <1>5, <1>6, <1>7 DEF Next, Resume, Handlers

\* While no run and decision of the page were in flight together, the trace is that of the
\* assessment on the screen, and once everything has settled without an error both are as
\* the server has them, whatever calls broke before and were acted on all the same.
THEOREM ScreenIsCurrent == Spec => []ScreenIsCurrentUnlessOverlapped
<1>1. Init => FullInv
  <2>1. Init => FlagsTellWhatIsInFlight
    BY DEF Init, FlagsTellWhatIsInFlight, InFlight
  <2>2. Init => ScreenInv
    BY DEF Init, ScreenInv, AnswersAreGiven, ScreenIsAnAnswer, OneAtATime, ScreenIsTheirs,
           TraceIsOfScreen, Working, Handlers, None
  <2> QED
    BY <2>1, <2>2, BannerInvInit DEF FullInv
<1>2. FullInv /\ [Next]_vars => FullInv'
  BY BannerInvStep, FlagsStep, ScreenStep DEF FullInv
<1>3. FullInv => ScreenIsCurrentUnlessOverlapped
  <2> SUFFICES ASSUME FullInv, ~ overlapped
               PROVE  /\ trace.id \in {0, screen.id}
                      /\ Settled /\ Unexplained /\ screen # None
                           => screen = [id |-> screen.id, status |-> store[screen.id]] /\ trace = screen
    BY DEF ScreenIsCurrentUnlessOverlapped
  <2>1. TraceIsOfScreen /\ ScreenIsAnAnswer /\ StateTypes /\ DriftIsExplained
    BY DEF FullInv, ScreenInv, BannerInv
  <2>2. ASSUME Settled, Unexplained, screen # None
        PROVE  screen = [id |-> screen.id, status |-> store[screen.id]] /\ trace = screen
    <3>1. Working = {}
      BY <2>1, <2>2, HandlerType DEF Settled, InFlight, Working, Handlers, Handler
    <3>2. ~ Explained
      BY <2>2 DEF Explained, Settled, InFlight, Handlers
    <3>3. screen.status = store[screen.id]
      BY <2>1, <2>2, <3>2 DEF ScreenIsAnAnswer, DriftIsExplained, Drifted, Awaits
    <3>4. screen = [id |-> screen.id, status |-> screen.status]
      BY <2>1 DEF StateTypes, Shown
    <3> QED
      BY <2>1, <2>2, <3>1, <3>3, <3>4 DEF TraceIsOfScreen
  <2> QED
    BY <2>1, <2>2 DEF TraceIsOfScreen
<1> QED
  BY <1>1, <1>2, <1>3, PTL DEF Spec
=============================================================================
