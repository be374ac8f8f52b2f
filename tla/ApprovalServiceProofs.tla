------------------------ MODULE ApprovalServiceProofs ------------------------
(***************************************************************************)
(* The approval service, for any number of requests, any finite set of     *)
(* assessments and any number of process stops: no assessment has a ticket *)
(* that nobody approved, and what answers, reports and rows say is true,   *)
(* of any assessment or of one that requests came to one at a time.        *)
(***************************************************************************)
EXTENDS ApprovalService, ChangeTicketToolProofs

(* The service moves the tool's variables only as the tool does. *)
LEMMA ServiceStepIsToolStep == TypeOK /\ [Next]_vars => [ToolNext]_toolVars
<1> SUFFICES ASSUME TypeOK, [Next]_vars PROVE [ToolNext]_toolVars
  OBVIOUS
<1>1. ASSUME NEW q \in Callers, CallTool(q) PROVE ToolNext
  <2>1. Call(q, requests[q].assessment) /\ requests[q].assessment \in Assessments
    BY <1>1 DEF CallTool, At, TypeOK
  <2> QED
    BY <2>1 DEF ToolNext
<1>2. ASSUME NEW q \in Callers, ToolRuns(q) PROVE ToolNext
  BY <1>2 DEF ToolRuns, ToolNext, ToolStep
<1>3. ASSUME NEW a \in Assessments, Cleanup(a) PROVE ToolNext
  BY <1>3 DEF Cleanup, ToolNext
<1>4. ASSUME NEW q \in Callers,
             \/ CheckAwaiting(q) \/ CheckAgain(q) \/ Invoke(q) \/ ApprovalGate(q)
             \/ TicketNodeReturns(q) \/ TicketNodeRaises(q) \/ ReportNode(q)
             \/ EndInvoke(q) \/ RequestFails(q) \/ PutWrites(q)
             \/ ReadState(q) \/ PersistAndRespond(q)
      PROVE  UNCHANGED toolVars
  BY <1>4 DEF CheckAwaiting, CheckAgain, Invoke, ApprovalGate, TicketNodeReturns,
              TicketNodeRaises, ReportNode, EndInvoke, RequestFails, PutWrites, ReadState,
              PersistAndRespond
<1>5. ASSUME NEW q \in Callers, NEW a \in Assessments, NEW decision \in {"approved", "denied"},
             Submit(q, a, decision)
      PROVE  UNCHANGED toolVars
  BY <1>5 DEF Submit
<1>6. ASSUME NEW a \in Assessments, PutCheckpoint(a) PROVE UNCHANGED toolVars
  BY <1>6 DEF PutCheckpoint
<1>7. CASE Crash
  BY <1>7 DEF Crash
<1>8. CASE UNCHANGED vars
  BY <1>8 DEF vars
<1> QED
  BY <1>1, <1>2, <1>3, <1>4, <1>5, <1>6, <1>7, <1>8 DEF Next, Step

-----------------------------------------------------------------------------
SentAt == OpenAt \cup {"conflict", "failed", "answered", "lost"}

RequestsOK ==
  /\ requests \in [Callers -> RequestType]
  /\ \A q \in Callers : requests[q].at # "ready" => requests[q].assessment \in Assessments

ThreadsOK ==
  /\ checkpoints \in [Assessments -> CheckpointType]
  /\ pending \in [Assessments -> SUBSET UnsavedType]
  /\ gate_writes \in [Assessments -> Decisions]

(* A request that was sent may move anywhere but back. *)
LEMMA MoveType ==
  ASSUME RequestsOK, NEW q \in Callers, requests[q].at # "ready", NEW at \in SentAt,
         Move(q, at)
  PROVE  RequestsOK'
BY DEF RequestsOK, RequestType, Move, SentAt, OpenAt

(* It may take a checkpoint with it. *)
LEMMA MoveWithType ==
  ASSUME RequestsOK, NEW q \in Callers, requests[q].at # "ready", NEW at \in SentAt,
         NEW state \in CheckpointType, MoveWith(q, at, state)
  PROVE  RequestsOK'
BY DEF RequestsOK, RequestType, MoveWith, SentAt, OpenAt

LEMMA MoveMoves ==
  ASSUME requests \in [Callers -> RequestType], NEW q \in Callers, NEW at, Move(q, at)
  PROVE  /\ requests'[q].at = at /\ requests'[q].seen = requests[q].seen
         /\ requests'[q].assessment = requests[q].assessment
         /\ requests'[q].decision = requests[q].decision
         /\ \A p \in Callers : p # q => requests'[p] = requests[p]
BY DEF RequestType, Move

LEMMA MoveWithMoves ==
  ASSUME requests \in [Callers -> RequestType], NEW q \in Callers, NEW at, NEW state,
         MoveWith(q, at, state)
  PROVE  /\ requests'[q].at = at /\ requests'[q].seen = state
         /\ requests'[q].assessment = requests[q].assessment
         /\ requests'[q].decision = requests[q].decision
         /\ \A p \in Callers : p # q => requests'[p] = requests[p]
BY DEF RequestType, MoveWith

(* A new checkpoint comes after those there are. *)
LEMMA CheckpointKeepsType ==
  ASSUME RequestsOK, ThreadsOK, NEW q \in Callers, requests[q].at # "ready",
         NEW state \in CheckpointType, state.next \in {"ticket", "report", "end"},
         Checkpoint(q, state)
  PROVE  RequestsOK' /\ ThreadsOK'
<1> DEFINE a == requests[q].assessment
<1>1. a \in Assessments
  BY DEF RequestsOK
<1>2. Continuation(state) \in SentAt
  BY DEF Continuation, SentAt, OpenAt
<1>3. RequestsOK'
  BY <1>2, MoveWithType DEF Checkpoint
<1>4. PICK n \in {1} \cup {c.nth + 1 : c \in pending[a]} :
        pending' = [pending EXCEPT ![a] = @ \cup {[nth |-> n, by |-> q, state |-> state]}]
  BY DEF Checkpoint
<1>5. n \in Nat
  BY <1>1, <1>4 DEF ThreadsOK, UnsavedType
<1>6. [nth |-> n, by |-> q, state |-> state] \in UnsavedType
  BY <1>5 DEF UnsavedType
<1>7. pending' \in [Assessments -> SUBSET UnsavedType]
  BY <1>1, <1>4, <1>6 DEF ThreadsOK
<1> QED
  BY <1>3, <1>7 DEF ThreadsOK, Checkpoint

LEMMA AbandonType ==
  ASSUME RequestsOK, ThreadsOK, rolled_back \subseteq Assessments,
         NEW q \in Callers, requests[q].at # "ready", Abandon(q, "failed")
  PROVE  RequestsOK' /\ ThreadsOK' /\ rolled_back' \subseteq Assessments
<1>1. requests[q].assessment \in Assessments
  BY DEF RequestsOK
<1>2. RequestsOK'
  BY MoveType DEF Abandon, SentAt
<1>3. ThreadsOK'
  BY <1>1 DEF Abandon, ThreadsOK
<1> QED
  BY <1>1, <1>2, <1>3 DEF Abandon

LEMMA DecidedType ==
  ASSUME NEW decision \in Decisions
  PROVE  Decided(decision) \in CheckpointType /\ Decided(decision).next \in {"ticket", "report"}
BY DEF Decided, CheckpointType

(* The variables of the service keep their shape from step to step. *)
LEMMA ServiceTypeStep == TypeOK /\ ToolInv /\ [Next]_vars => TypeOK'
<1> SUFFICES ASSUME TypeOK, ToolInv, [Next]_vars PROVE TypeOK'
  OBVIOUS
<1> DEFINE HistoryOK == /\ resumed' \subseteq Callers
                        /\ overlapped' \subseteq Assessments
                        /\ rolled_back' \subseteq Assessments
                        /\ crashes' \in 0..MaxCrashes
           RowsOK == rows' \in [Assessments -> RowType]
<1>1. ToolTypeOK'
  BY ServiceStepIsToolStep, ToolStepInv DEF ToolInv
<1>2. RequestsOK /\ ThreadsOK
  BY DEF TypeOK, RequestsOK, ThreadsOK
<1>3. SUFFICES RequestsOK' /\ ThreadsOK' /\ RowsOK /\ HistoryOK
  BY <1>1 DEF TypeOK, RequestsOK, ThreadsOK
<1>4. /\ UNCHANGED history => HistoryOK
      /\ UNCHANGED rows => RowsOK
      /\ UNCHANGED thread => ThreadsOK'
      /\ UNCHANGED requests => RequestsOK'
  BY <1>2 DEF TypeOK, history, thread, RequestsOK, ThreadsOK
<1>5. ASSUME NEW q \in Callers, NEW a \in Assessments,
             NEW decision \in {"approved", "denied"}, Submit(q, a, decision)
      PROVE  RequestsOK' /\ HistoryOK /\ UNCHANGED <<thread, rows>>
  <2>1. [at |-> "received", assessment |-> a, decision |-> decision, seen |-> Paused]
          \in RequestType
    BY DEF RequestType, CheckpointType, Decisions, OpenAt, Paused
  <2>2. RequestsOK'
    BY <1>2, <1>5, <2>1 DEF Submit, RequestsOK
  <2> QED
    BY <1>5, <2>2 DEF Submit, TypeOK
<1>6. ASSUME NEW q \in Callers,
             \/ CheckAwaiting(q) \/ CheckAgain(q) \/ CallTool(q) \/ TicketNodeRaises(q)
             \/ EndInvoke(q)
      PROVE  RequestsOK' /\ HistoryOK /\ UNCHANGED <<thread, rows>>
  <2>1. requests[q].at # "ready"
    BY <1>6 DEF CheckAwaiting, CheckAgain, CallTool, TicketNodeRaises, EndInvoke, At
  <2>2. \E at \in SentAt : Move(q, at)
    BY <1>6 DEF CheckAwaiting, CheckAgain, CallTool, TicketNodeRaises, EndInvoke, SentAt, OpenAt
  <2>3. RequestsOK'
    BY <1>2, <2>1, <2>2, MoveType
  <2>4. HistoryOK
    BY <1>4, <1>6 DEF CheckAwaiting, CheckAgain, CallTool, TicketNodeRaises, EndInvoke, TypeOK,
                      history
  <2> QED
    BY <1>6, <2>3, <2>4 DEF CheckAwaiting, CheckAgain, CallTool, TicketNodeRaises, EndInvoke
<1>7. ASSUME NEW q \in Callers, Invoke(q)
      PROVE  RequestsOK' /\ ThreadsOK' /\ UNCHANGED <<rows, history>>
  <2> DEFINE a == requests[q].assessment
             loaded == checkpoints[a]
  <2>1. requests[q].at # "ready" /\ a \in Assessments /\ UNCHANGED <<rows, history>>
    BY <1>7 DEF Invoke, At, TypeOK
  <2>2. loaded \in CheckpointType /\ gate_writes[a] \in Decisions
    BY <1>2, <2>1 DEF ThreadsOK
  <2>3. CASE loaded.next = "gate" /\ gate_writes[a] # "none"
    <3>1. Checkpoint(q, Decided(gate_writes[a]))
      BY <1>7, <2>3 DEF Invoke
    <3> QED
      BY <1>2, <2>1, <2>2, <3>1, DecidedType, CheckpointKeepsType
  <2>4. CASE ~(loaded.next = "gate" /\ gate_writes[a] # "none")
    <3>1. /\ UNCHANGED thread
          /\ IF loaded.next = "none" THEN Move(q, "failed")
                                     ELSE MoveWith(q, Continuation(loaded), loaded)
      BY <1>7, <2>4 DEF Invoke
    <3>2. loaded.next # "none" => Continuation(loaded) \in SentAt
      BY <2>2 DEF Continuation, SentAt, OpenAt, CheckpointType
    <3>3. "failed" \in SentAt
      BY DEF SentAt
    <3> HIDE DEF loaded
    <3>4. RequestsOK'
      BY <1>2, <2>1, <2>2, <3>1, <3>2, <3>3, MoveType, MoveWithType
    <3> QED
      BY <1>4, <2>1, <3>1, <3>4
  <2> QED
    BY <2>3, <2>4
<1>8. ASSUME NEW q \in Callers, ReadState(q)
      PROVE  RequestsOK' /\ UNCHANGED <<thread, rows, history>>
  <2>1. requests[q].at # "ready" /\ requests[q].assessment \in Assessments
    BY <1>8 DEF ReadState, At, TypeOK
  <2>2. checkpoints[requests[q].assessment] \in CheckpointType /\ "persist" \in SentAt
    BY <1>2, <2>1 DEF ThreadsOK, SentAt, OpenAt
  <2>3. RequestsOK'
    BY <1>2, <1>8, <2>1, <2>2, MoveWithType DEF ReadState
  <2> QED
    BY <1>8, <2>3 DEF ReadState
<1>9. ASSUME NEW q \in Callers, ApprovalGate(q) \/ TicketNodeReturns(q) \/ ReportNode(q)
      PROVE  /\ RequestsOK' /\ ThreadsOK' /\ UNCHANGED <<rows, history>>
  <2>1. requests[q].at # "ready" /\ requests[q].seen \in CheckpointType
        /\ requests[q].decision \in Decisions /\ calls[q].number \in Nat
    BY <1>2, <1>9 DEF ApprovalGate, TicketNodeReturns, ReportNode, At, RequestsOK, RequestType,
                      TypeOK, ToolTypeOK, CallType
  <2>2. \E state \in CheckpointType :
          state.next \in {"ticket", "report", "end"} /\ Checkpoint(q, state)
    BY <1>9, <2>1, DecidedType
       DEF ApprovalGate, TicketNodeReturns, ReportNode, CheckpointType
  <2>3. UNCHANGED <<rows, history>>
    BY <1>9 DEF ApprovalGate, TicketNodeReturns, ReportNode
  <2> QED
    BY <1>2, <2>1, <2>2, <2>3, CheckpointKeepsType
<1>10. ASSUME NEW q \in Callers, RequestFails(q)
       PROVE  /\ RequestsOK' /\ ThreadsOK' /\ HistoryOK /\ UNCHANGED rows
  <2>1. requests[q].at # "ready" /\ Abandon(q, "failed")
        /\ UNCHANGED <<rows, resumed, overlapped, crashes>>
    BY <1>10 DEF RequestFails
  <2> QED
    BY <1>2, <2>1, AbandonType DEF TypeOK
<1>11. ASSUME NEW a \in Assessments, PutCheckpoint(a)
       PROVE  ThreadsOK' /\ UNCHANGED <<requests, rows, history>>
  <2>1. PICK c \in pending[a] :
          /\ checkpoints' = [checkpoints EXCEPT ![a] = c.state]
          /\ pending' = [pending EXCEPT
               ![a] = {[d EXCEPT !.nth = @ - c.nth] : d \in {d \in pending[a] : d.nth > c.nth}}]
    BY <1>11 DEF PutCheckpoint
  <2>2. c \in UnsavedType /\ \A d \in pending[a] : d \in UnsavedType
    BY <1>2 DEF ThreadsOK
  <2>3. checkpoints' \in [Assessments -> CheckpointType]
    BY <1>2, <2>1, <2>2 DEF ThreadsOK, UnsavedType
  <2>4. \A d \in pending[a] : d.nth > c.nth => [d EXCEPT !.nth = @ - c.nth] \in UnsavedType
    BY <2>2 DEF UnsavedType
  <2>5. pending' \in [Assessments -> SUBSET UnsavedType]
    BY <1>2, <2>1, <2>4 DEF ThreadsOK
  <2>6. gate_writes' \in [Assessments -> Decisions]
    BY <1>2, <1>11 DEF PutCheckpoint, ThreadsOK, Decisions
  <2> QED
    BY <1>11, <2>3, <2>5, <2>6 DEF PutCheckpoint, ThreadsOK
<1>12. ASSUME NEW q \in Callers, PutWrites(q)
       PROVE  ThreadsOK' /\ UNCHANGED <<requests, rows, history>>
  <2>1. requests[q].seen.decision \in Decisions
    BY <1>2 DEF RequestsOK, RequestType, CheckpointType
  <2> QED
    BY <1>2, <1>12, <2>1 DEF PutWrites, ThreadsOK
<1>13. ASSUME NEW q \in Callers, PersistAndRespond(q)
       PROVE  RequestsOK' /\ RowsOK /\ UNCHANGED <<thread, history>>
  <2>1. requests[q].at # "ready" /\ requests[q].seen \in CheckpointType
    BY <1>2, <1>13 DEF PersistAndRespond, At, RequestsOK, RequestType
  <2>2. RequestsOK'
    BY <1>2, <1>13, <2>1, MoveType DEF PersistAndRespond, SentAt
  <2>3. StatusOf(requests[q].seen)
          \in {"reviewing", "approved", "rejected", "reporting", "completed"}
    BY <2>1 DEF StatusOf, CheckpointType
  <2>4. RowsOK
    BY <1>13, <2>1, <2>3 DEF PersistAndRespond, RowType, CheckpointType, TypeOK
  <2> QED
    BY <1>13, <2>2, <2>4 DEF PersistAndRespond
<1>14. CASE Crash
  <2>1. RequestsOK'
    BY <1>2, <1>14 DEF Crash, OpenRequest, RequestsOK, RequestType, OpenAt
  <2>2. HistoryOK
    BY <1>14, ServiceAssumption DEF Crash, TypeOK
  <2>3. ThreadsOK'
    BY <1>2, <1>14 DEF Crash, ThreadsOK
  <2> QED
    BY <1>4, <1>14, <2>1, <2>2, <2>3 DEF Crash
<1>15. ASSUME NEW a \in Assessments, Cleanup(a)
       PROVE  ThreadsOK' /\ UNCHANGED <<requests, rows, history>>
  <2>1. Gone \in CheckpointType
    BY DEF Gone, CheckpointType, Decisions
  <2> QED
    BY <1>2, <1>15, <2>1 DEF Cleanup, ThreadsOK, Decisions
<1>16. ASSUME UNCHANGED serviceVars
       PROVE  UNCHANGED <<thread, requests, rows, history>>
  BY <1>16 DEF serviceVars
<1> QED
  BY <1>4, <1>5, <1>6, <1>7, <1>8, <1>9, <1>10, <1>11, <1>12, <1>13, <1>14, <1>15, <1>16
     DEF Next, Step, ToolRuns, vars

-----------------------------------------------------------------------------
(* What each step does to the requests: nothing, or it sends one, or moves *)
(* one that was open, or all open ones are lost.                           *)
Moved(p, at) == Move(p, at) \/ \E state : MoveWith(p, at, state)

LEMMA StepMoves ==
  ASSUME TypeOK, NEW p \in Callers, Step(p)
  PROVE  \/ UNCHANGED requests
         \/ OpenRequest(p) /\ \E at \in SentAt : Moved(p, at)
<1> USE DEF Moved, OpenRequest
<1>1. CASE CheckAwaiting(p) \/ CheckAgain(p) \/ CallTool(p) \/ TicketNodeRaises(p)
           \/ PersistAndRespond(p) \/ EndInvoke(p) \/ ReadState(p)
  BY <1>1 DEF CheckAwaiting, CheckAgain, CallTool, TicketNodeRaises, PersistAndRespond,
              EndInvoke, ReadState, SentAt, OpenAt, At
<1>2. CASE ToolRuns(p) \/ PutWrites(p)
  BY <1>2 DEF ToolRuns, serviceVars, PutWrites
<1>3. CASE RequestFails(p)
  BY <1>3 DEF RequestFails, Abandon, SentAt, OpenAt
<1>4. ASSUME NEW state, Checkpoint(p, state), state.next \in {"ticket", "report", "end"}
      PROVE  \E at \in SentAt : Moved(p, at)
  BY <1>4 DEF Checkpoint, Continuation, SentAt, OpenAt
<1>5. CASE ApprovalGate(p) \/ TicketNodeReturns(p) \/ ReportNode(p)
  <2>1. \E state : state.next \in {"ticket", "report", "end"} /\ Checkpoint(p, state)
    BY <1>5 DEF ApprovalGate, TicketNodeReturns, ReportNode, Decided
  <2> QED
    BY <1>4, <1>5, <2>1 DEF ApprovalGate, TicketNodeReturns, ReportNode, At, OpenAt
<1>6. CASE Invoke(p)
  <2> DEFINE loaded == checkpoints[requests[p].assessment]
  <2>1. requests[p].assessment \in Assessments /\ OpenRequest(p)
    BY <1>6 DEF Invoke, At, TypeOK, OpenAt
  <2>2. loaded.next \in {"gate", "ticket", "report", "end", "none"}
    BY <2>1 DEF TypeOK, CheckpointType
  <2>3. CASE loaded.next = "gate" /\ gate_writes[requests[p].assessment] # "none"
    <3>1. Checkpoint(p, Decided(gate_writes[requests[p].assessment]))
      BY <1>6, <2>3 DEF Invoke
    <3>2. Decided(gate_writes[requests[p].assessment]).next \in {"ticket", "report", "end"}
      BY DEF Decided
    <3> QED
      BY <1>4, <2>1, <3>1, <3>2
  <2>4. CASE ~(loaded.next = "gate" /\ gate_writes[requests[p].assessment] # "none")
    BY <1>6, <2>1, <2>2, <2>4 DEF Invoke, Continuation, SentAt, OpenAt
  <2> QED
    BY <2>3, <2>4
<1> QED
  BY <1>1, <1>2, <1>3, <1>5, <1>6 DEF Step

(* What a request asks, once it is sent, never changes; and a request that *)
(* is over stays as it is.                                                 *)
LEMMA RequestsStand ==
  ASSUME TypeOK, [Next]_vars, NEW q \in Callers, requests[q].at # "ready"
  PROVE  /\ requests'[q].at # "ready"
         /\ requests'[q].assessment = requests[q].assessment
         /\ requests'[q].decision = requests[q].decision
         /\ ~OpenRequest(q) => requests'[q] = requests[q]
<1> DEFINE Stands == /\ requests'[q].at # "ready"
                     /\ requests'[q].assessment = requests[q].assessment
                     /\ requests'[q].decision = requests[q].decision
                     /\ ~OpenRequest(q) => requests'[q] = requests[q]
<1>0. requests \in [Callers -> RequestType]
  BY DEF TypeOK
<1>1. ASSUME NEW p \in Callers, NEW a \in Assessments,
             NEW decision \in {"approved", "denied"}, Submit(p, a, decision)
      PROVE  requests'[q] = requests[q]
  BY <1>0, <1>1 DEF Submit, At
<1>2. ASSUME NEW p \in Callers, NEW at \in SentAt, Moved(p, at), OpenRequest(p)
      PROVE  Stands
  <2>1. at # "ready"
    BY DEF SentAt, OpenAt
  <2>2. CASE Move(p, at)
    BY <1>0, <1>2, <2>1, <2>2, MoveMoves
  <2>3. ASSUME NEW state, MoveWith(p, at, state) PROVE Stands
    BY <1>0, <1>2, <2>1, <2>3, MoveWithMoves
  <2> QED
    BY <1>2, <2>2, <2>3 DEF Moved
<1>3. CASE Crash
  BY <1>0, <1>3 DEF Crash, RequestType
<1>4. ASSUME NEW a \in Assessments, Cleanup(a) \/ PutCheckpoint(a) PROVE UNCHANGED requests
  BY <1>4 DEF Cleanup, PutCheckpoint
<1>5. ASSUME NEW p \in Callers, Step(p) PROVE Stands
  BY <1>2, <1>5, StepMoves
<1>6. CASE UNCHANGED vars
  BY <1>6 DEF vars, serviceVars
<1> QED
  BY <1>1, <1>3, <1>4, <1>5, <1>6 DEF Next

(* The record of what happened only grows. *)
LEMMA HistoryGrows ==
  ASSUME [Next]_vars
  PROVE  resumed \subseteq resumed' /\ overlapped \subseteq overlapped'
         /\ rolled_back \subseteq rolled_back'
<1>1. ASSUME NEW q \in Callers, Step(q)
      PROVE  resumed \subseteq resumed' /\ overlapped \subseteq overlapped'
             /\ rolled_back \subseteq rolled_back'
  <2>1. CASE CheckAgain(q) \/ RequestFails(q)
    BY <2>1 DEF CheckAgain, RequestFails, Abandon
  <2>2. CASE ~(CheckAgain(q) \/ RequestFails(q))
    BY <1>1, <2>2
       DEF Step, history, serviceVars, CheckAwaiting, Invoke, ApprovalGate, CallTool, ToolRuns,
           TicketNodeReturns, TicketNodeRaises, ReportNode, EndInvoke, PutWrites, ReadState,
           PersistAndRespond
  <2> QED
    BY <2>1, <2>2
<1> QED
  BY <1>1 DEF Next, vars, serviceVars, history, Submit, PutCheckpoint, Cleanup, Crash

(* Once sent and let through, a decision stays so. *)
LEMMA SentStands ==
  ASSUME TypeOK, DecisionsAreTraced, [Next]_vars, NEW a, NEW d, Sent(a, d)
  PROVE  Sent(a, d)'
<1>1. PICK q \in resumed : requests[q].assessment = a /\ requests[q].decision = d
  BY DEF Sent
<1>2. q \in Callers /\ requests[q].at # "ready"
  BY DEF TypeOK, DecisionsAreTraced
<1> QED
  BY <1>1, <1>2, HistoryGrows, RequestsStand DEF Sent

-----------------------------------------------------------------------------
(* A checkpoint c that is saved leaves those made after it, counted from c. *)
Since(c, e) == [nth |-> e.nth - c.nth, by |-> e.by, state |-> e.state]

LEMMA WhatPutDoes ==
  ASSUME TypeOK, NEW a \in Assessments, PutCheckpoint(a)
  PROVE  /\ \E c \in pending[a] :
              /\ checkpoints'[a] = c.state
              /\ pending'[a] = {Since(c, e) : e \in {e \in pending[a] : e.nth > c.nth}}
         /\ gate_writes'[a] = "none"
         /\ \A b \in Assessments : b # a => /\ checkpoints'[b] = checkpoints[b]
                                           /\ pending'[b] = pending[b]
                                           /\ gate_writes'[b] = gate_writes[b]
         /\ UNCHANGED <<toolVars, requests, rows, history>>
<1>0. /\ checkpoints \in [Assessments -> CheckpointType]
      /\ pending \in [Assessments -> SUBSET UnsavedType]
      /\ gate_writes \in [Assessments -> Decisions]
  BY DEF TypeOK
<1>1. PICK c \in pending[a] :
        /\ checkpoints' = [checkpoints EXCEPT ![a] = c.state]
        /\ pending' = [pending EXCEPT
             ![a] = {[d EXCEPT !.nth = @ - c.nth] : d \in {d \in pending[a] : d.nth > c.nth}}]
  BY DEF PutCheckpoint
<1>2. \A d \in pending[a] : [d EXCEPT !.nth = @ - c.nth] = Since(c, d)
  BY <1>0 DEF UnsavedType, Since
<1>3. pending'[a] = {Since(c, e) : e \in {e \in pending[a] : e.nth > c.nth}}
  <2>1. pending'[a]
          = {[d EXCEPT !.nth = @ - c.nth] : d \in {d \in pending[a] : d.nth > c.nth}}
    BY <1>0, <1>1
  <2> QED
    BY <1>2, <2>1
<1>4. checkpoints'[a] = c.state
  BY <1>0, <1>1
<1>5. gate_writes' = [gate_writes EXCEPT ![a] = "none"]
  BY DEF PutCheckpoint
<1>6. gate_writes'[a] = "none"
  BY <1>0, <1>5
<1>7. \A b \in Assessments : b # a => /\ checkpoints'[b] = checkpoints[b]
                                    /\ pending'[b] = pending[b]
                                    /\ gate_writes'[b] = gate_writes[b]
  BY <1>0, <1>1, <1>5
<1> QED
  BY <1>3, <1>4, <1>6, <1>7 DEF PutCheckpoint

-----------------------------------------------------------------------------
(* Each step keeps every decision in the system traced to a request that   *)
(* sent it.  By then, in what follows, is after the step.                  *)
LEMMA DecisionsTracedStep ==
  ServiceInv /\ [Next]_vars => DecisionsAreTraced' /\ NoTicketWithoutApproval'
<1> SUFFICES ASSUME ServiceInv, [Next]_vars
             PROVE  DecisionsAreTraced' /\ NoTicketWithoutApproval'
  OBVIOUS
<1> DEFINE ByThen(a, d) ==
      \E q \in resumed' : requests'[q].assessment = a /\ requests'[q].decision = d
<1> DEFINE
      Resumers  == \A q \in resumed' : requests'[q].at # "ready"
      Runs      == \A q \in Callers : requests'[q].at \in AtRun => q \in resumed'
      Saved     == \A a \in Assessments :
                     /\ checkpoints'[a].decision # "none" => ByThen(a, checkpoints'[a].decision)
                     /\ gate_writes'[a] # "none" => ByThen(a, gate_writes'[a])
      News      == \A a \in Assessments : \A c \in pending'[a] :
                     c.state.decision # "none" => ByThen(a, c.state.decision)
      Views     == \A q \in Callers : requests'[q].seen.decision # "none" =>
                     ByThen(requests'[q].assessment, requests'[q].seen.decision)
      ToolCalls == \A q \in Callers : calls'[q].at # "ready" =>
                     /\ requests'[q].at # "ready"
                     /\ calls'[q].assessment = requests'[q].assessment
                     /\ ByThen(requests'[q].assessment, "approved")
      Tickets   == \A a \in Assessments : ticket_number'[a] # 0 => ByThen(a, "approved")
<1>1. SUFFICES Resumers /\ Runs /\ Saved /\ News /\ Views /\ ToolCalls /\ Tickets
  BY DEF DecisionsAreTraced, NoTicketWithoutApproval, Approved, Sent, Ticketed
<1>2. /\ TypeOK /\ ToolTypeOK /\ DecisionsAreTraced
      /\ requests \in [Callers -> RequestType]
      /\ checkpoints \in [Assessments -> CheckpointType]
      /\ pending \in [Assessments -> SUBSET UnsavedType]
      /\ gate_writes \in [Assessments -> Decisions]
      /\ calls \in [Callers -> CallType]
      /\ resumed \subseteq Callers
      /\ \A a \in Assessments : ticket_number[a] # 0 => Sent(a, "approved")
  BY DEF ServiceInv, TypeOK, ToolTypeOK, NoTicketWithoutApproval, Approved, Ticketed
<1>3. \A a, d : Sent(a, d) => ByThen(a, d)
  <2>1. ASSUME NEW a, NEW d, Sent(a, d) PROVE Sent(a, d)'
    BY <1>2, <2>1, SentStands
  <2> QED
    BY <2>1 DEF Sent
<1>4. \A q \in Callers : requests[q].at # "ready" =>
        /\ requests'[q].at # "ready"
        /\ requests'[q].assessment = requests[q].assessment
        /\ requests'[q].decision = requests[q].decision
  BY <1>2, RequestsStand
(* What holds before the step, of what it leaves alone. *)
<1>5. /\ \A q \in resumed : requests'[q].at # "ready"
      /\ \A q \in Callers : requests[q].at \in AtRun => q \in resumed
      /\ \A a \in Assessments :
           /\ checkpoints[a].decision # "none" => ByThen(a, checkpoints[a].decision)
           /\ gate_writes[a] # "none" => ByThen(a, gate_writes[a])
           /\ \A c \in pending[a] : c.state.decision # "none" => ByThen(a, c.state.decision)
      /\ \A q \in Callers : requests[q].seen.decision # "none" =>
           ByThen(requests[q].assessment, requests[q].seen.decision)
      /\ \A q \in Callers : calls[q].at # "ready" =>
           /\ requests'[q].at # "ready"
           /\ calls[q].assessment = requests'[q].assessment
           /\ ByThen(requests'[q].assessment, "approved")
      /\ \A a \in Assessments : ticket_number[a] # 0 => ByThen(a, "approved")
  BY <1>2, <1>3, <1>4 DEF DecisionsAreTraced, Approved
<1> HIDE DEF ByThen
<1>6. /\ UNCHANGED resumed => Resumers
      /\ UNCHANGED <<checkpoints, gate_writes>> => Saved
      /\ UNCHANGED pending => News
      /\ UNCHANGED toolVars => ToolCalls /\ Tickets
      /\ UNCHANGED <<requests, resumed>> => Runs
      /\ UNCHANGED requests => Views
  BY <1>5 DEF toolVars
(* A request that keeps what it has seen. *)
<1>7. ASSUME NEW q \in Callers, NEW at, Move(q, at), UNCHANGED resumed,
             at \in AtRun => requests[q].at \in AtRun
      PROVE  Runs /\ Views
  <2>1. /\ requests'[q].at = at /\ requests'[q].seen = requests[q].seen
        /\ requests'[q].assessment = requests[q].assessment
        /\ \A p \in Callers : p # q => requests'[p] = requests[p]
    BY <1>2, <1>7, MoveMoves
  <2> QED
    BY <1>5, <1>7, <2>1
(* One that has seen a decision somebody sent. *)
<1>8. ASSUME NEW q \in Callers, NEW at, NEW state, MoveWith(q, at, state), UNCHANGED resumed,
             requests[q].at \in AtRun,
             state.decision # "none" => ByThen(requests[q].assessment, state.decision)
      PROVE  Runs /\ Views
  <2>1. /\ requests'[q].at = at /\ requests'[q].seen = state
        /\ requests'[q].assessment = requests[q].assessment
        /\ \A p \in Callers : p # q => requests'[p] = requests[p]
    BY <1>2, <1>8, MoveWithMoves
  <2> QED
    BY <1>5, <1>8, <2>1
(* A node checkpoints a decision it can vouch for. *)
<1>9. ASSUME NEW q \in Callers, NEW state, Checkpoint(q, state), UNCHANGED resumed,
             requests[q].at \in AtRun,
             state.decision # "none" => ByThen(requests[q].assessment, state.decision)
      PROVE  Runs /\ Views /\ Saved /\ News
  <2>1. Runs /\ Views
    BY <1>8, <1>9 DEF Checkpoint
  <2>2. Saved
    BY <1>6, <1>9 DEF Checkpoint
  <2> DEFINE a == requests[q].assessment
  <2>3. PICK n : pending' =
          [pending EXCEPT ![a] = @ \cup {[nth |-> n, by |-> q, state |-> state]}]
    BY <1>9 DEF Checkpoint
  <2>4. \A b \in Assessments : \A c \in pending'[b] :
          c \in pending[b] \/ (b = a /\ c.state = state)
    BY <1>2, <2>3
  <2>5. News
    <3> HIDE DEF a
    <3> QED
      BY <1>5, <1>9, <2>4 DEF a
  <2> QED
    BY <2>1, <2>2, <2>5
<1>10. ASSUME NEW q \in Callers, NEW a \in Assessments,
              NEW decision \in {"approved", "denied"}, Submit(q, a, decision)
       PROVE  Runs /\ Views /\ UNCHANGED <<toolVars, thread, resumed>>
  BY <1>2, <1>5, <1>10 DEF Submit, AtRun, Paused
<1>11. ASSUME NEW q \in Callers,
              \/ CheckAwaiting(q) \/ TicketNodeRaises(q) \/ PersistAndRespond(q) \/ EndInvoke(q)
       PROVE  Runs /\ Views /\ UNCHANGED <<toolVars, thread, resumed>>
  <2>1. \E at : Move(q, at) /\ (at \in AtRun => requests[q].at \in AtRun)
    BY <1>11 DEF CheckAwaiting, TicketNodeRaises, PersistAndRespond, EndInvoke, At, AtRun, OpenAt
  <2>2. UNCHANGED <<toolVars, thread, resumed>>
    BY <1>11 DEF CheckAwaiting, TicketNodeRaises, PersistAndRespond, EndInvoke, history
  <2> QED
    BY <1>7, <2>1, <2>2
<1>12. ASSUME NEW q \in Callers, CheckAgain(q)
       PROVE  Resumers /\ Runs /\ Views /\ UNCHANGED <<toolVars, thread>>
  <2>1. /\ \/ Move(q, "invoke") /\ resumed' = resumed \cup {q}
           \/ Move(q, "failed") /\ UNCHANGED resumed
        /\ requests[q].at # "ready" /\ UNCHANGED <<toolVars, thread>>
    BY <1>12 DEF CheckAgain, At
  <2>2. Resumers
    BY <1>4, <1>5, <2>1
  <2>3. PICK at : /\ requests'[q].at = at /\ (at \in AtRun => q \in resumed')
                  /\ requests'[q].seen = requests[q].seen
                  /\ requests'[q].assessment = requests[q].assessment
                  /\ \A p \in Callers : p # q => requests'[p] = requests[p]
    BY <1>2, <2>1, MoveMoves DEF AtRun, OpenAt
  <2>4. Runs
    BY <1>5, <2>1, <2>3
  <2>5. Views
    BY <1>5, <2>3
  <2> QED
    BY <2>1, <2>2, <2>4, <2>5
<1>13. ASSUME NEW q \in Callers, Invoke(q)
       PROVE  Runs /\ Views /\ Saved /\ News /\ UNCHANGED <<toolVars, resumed>>
  <2> DEFINE a == requests[q].assessment
             loaded == checkpoints[a]
  <2>1. /\ requests[q].at \in AtRun /\ a \in Assessments
        /\ UNCHANGED <<toolVars, resumed>>
    BY <1>2, <1>13 DEF Invoke, At, AtRun, OpenAt, TypeOK, history
  <2>2. CASE loaded.next = "gate" /\ gate_writes[a] # "none"
    <3>1. Checkpoint(q, Decided(gate_writes[a])) /\ Decided(gate_writes[a]).decision = gate_writes[a]
      BY <1>13, <2>2 DEF Invoke, Decided
    <3> QED
      BY <1>5, <1>9, <2>1, <2>2, <3>1
  <2>3. CASE ~(loaded.next = "gate" /\ gate_writes[a] # "none")
    <3>1. UNCHANGED thread /\ \/ Move(q, "failed")
                              \/ MoveWith(q, Continuation(loaded), loaded)
      BY <1>13, <2>3 DEF Invoke
    <3>2. "failed" \notin AtRun
      BY DEF AtRun, OpenAt
    <3>3. loaded.decision # "none" => ByThen(a, loaded.decision)
      BY <1>5, <2>1
    <3>4. Runs /\ Views
      <4>1. CASE Move(q, "failed")
        BY <1>7, <2>1, <3>2, <4>1
      <4>2. CASE MoveWith(q, Continuation(loaded), loaded)
        BY <1>8, <2>1, <3>3, <4>2
      <4> QED
        BY <3>1, <4>1, <4>2
    <3> QED
      BY <1>6, <2>1, <3>1, <3>4 DEF thread
  <2> QED
    BY <2>1, <2>2, <2>3
<1>14. ASSUME NEW q \in Callers, ReadState(q)
       PROVE  Runs /\ Views /\ UNCHANGED <<toolVars, thread, resumed>>
  <2>1. /\ requests[q].at \in AtRun /\ requests[q].assessment \in Assessments
        /\ UNCHANGED <<toolVars, thread, resumed>>
        /\ MoveWith(q, "persist", checkpoints[requests[q].assessment])
    BY <1>2, <1>14 DEF ReadState, At, AtRun, OpenAt, TypeOK, history
  <2> QED
    BY <1>5, <1>8, <2>1
<1>15. ASSUME NEW q \in Callers, ApprovalGate(q)
       PROVE  Runs /\ Views /\ Saved /\ News /\ UNCHANGED <<toolVars, resumed>>
  <2>1. /\ requests[q].at \in AtRun /\ Checkpoint(q, Decided(requests[q].decision))
        /\ UNCHANGED <<toolVars, resumed>>
    BY <1>15 DEF ApprovalGate, At, AtRun, OpenAt, history
  <2>2. Sent(requests[q].assessment, requests[q].decision)
    BY <1>5, <2>1 DEF Sent
  <2>3. Decided(requests[q].decision).decision = requests[q].decision
    BY DEF Decided
  <2> QED
    BY <1>3, <1>9, <2>1, <2>2, <2>3
<1>16. ASSUME NEW q \in Callers, TicketNodeReturns(q) \/ ReportNode(q)
       PROVE  Runs /\ Views /\ Saved /\ News /\ UNCHANGED <<toolVars, resumed>>
  <2>1. /\ \E state : Checkpoint(q, state) /\ state.decision = requests[q].seen.decision
        /\ requests[q].at \in AtRun /\ UNCHANGED <<toolVars, resumed>>
    BY <1>16 DEF TicketNodeReturns, ReportNode, At, AtRun, OpenAt, history
  <2> QED
    BY <1>5, <1>9, <2>1
<1>17. ASSUME NEW q \in Callers, CallTool(q)
       PROVE  Runs /\ Views /\ ToolCalls /\ Tickets /\ UNCHANGED <<thread, resumed>>
  <2>1. /\ requests[q].seen.decision = "approved" /\ requests[q].at # "ready"
        /\ Move(q, "tool") /\ UNCHANGED <<thread, resumed>>
        /\ requests[q].at \in AtRun
    BY <1>17 DEF CallTool, At, history, AtRun, OpenAt
  <2>2. Runs /\ Views
    BY <1>7, <2>1
  <2>3. calls' = [calls EXCEPT
           ![q] = [at |-> "lookup", assessment |-> requests[q].assessment, number |-> 0]]
    BY <1>17 DEF CallTool, Call
  <2>4. ByThen(requests[q].assessment, "approved")
    BY <1>5, <2>1
  <2>5. ToolCalls
    BY <1>2, <1>4, <1>5, <2>1, <2>3, <2>4
  <2>6. Tickets
    BY <1>5, <1>17 DEF CallTool, Call
  <2> QED
    BY <2>1, <2>2, <2>5, <2>6
<1>18. ASSUME NEW q \in Callers, ToolRuns(q)
       PROVE  ToolCalls /\ Tickets /\ UNCHANGED <<requests, thread, resumed>>
  <2> USE DEF Lookup, Count, Commit, Refresh, IntegrityError, Reread, DatabaseError
  <2>1. ToolStep(q) /\ UNCHANGED <<requests, thread, resumed>>
    BY <1>18 DEF ToolRuns, ToolStep, serviceVars, history
  <2>2. calls[q].at # "ready"
    BY <2>1 DEF ToolStep, OpenCall, OpenStates
  <2>3. \A c \in Callers :
          /\ calls'[c].assessment = calls[c].assessment
          /\ calls'[c].at # "ready" => calls[c].at # "ready"
    BY <1>2, <2>1, <2>2 DEF ToolStep, Goto, Return, CallType
  <2>4. \A a \in Assessments :
          ticket_number'[a] # 0 => ticket_number[a] # 0 \/ a = calls[q].assessment
    BY <1>2, <2>1 DEF ToolTypeOK, ToolStep
  <2> QED
    BY <1>5, <2>1, <2>2, <2>3, <2>4
<1>19. ASSUME NEW a \in Assessments, Cleanup(a)
       PROVE  Saved /\ ToolCalls /\ Tickets /\ UNCHANGED <<requests, pending, resumed>>
  <2>1. Saved
    BY <1>2, <1>5, <1>19 DEF Cleanup, Gone
  <2>2. ToolCalls
    BY <1>5, <1>19 DEF Cleanup, DeleteAssessment
  <2>3. Tickets
    BY <1>2, <1>5, <1>19 DEF Cleanup, DeleteAssessment, ToolTypeOK
  <2> QED
    BY <1>19, <2>1, <2>2, <2>3 DEF Cleanup, history
<1>20. CASE Crash
  <2>1. Runs /\ Views
    BY <1>2, <1>5, <1>20 DEF Crash, RequestType, OpenRequest, AtRun, OpenAt
  <2>2. News
    BY <1>20 DEF Crash
  <2> QED
    BY <1>6, <1>20, <2>1, <2>2 DEF Crash
<1>21. ASSUME NEW q \in Callers, RequestFails(q)
       PROVE  Runs /\ Views /\ Saved /\ News /\ UNCHANGED <<toolVars, resumed>>
  <2>1. /\ Abandon(q, "failed") /\ UNCHANGED <<toolVars, resumed>>
        /\ requests[q].at # "ready"
    BY <1>21 DEF RequestFails
  <2>2. Runs /\ Views
    BY <1>7, <2>1 DEF Abandon, AtRun, OpenAt
  <2>3. News
    BY <1>2, <1>5, <2>1 DEF Abandon
  <2> QED
    BY <1>6, <2>1, <2>2, <2>3 DEF Abandon
<1>22. ASSUME NEW a \in Assessments, PutCheckpoint(a)
       PROVE  Saved /\ News /\ UNCHANGED <<toolVars, requests, resumed>>
  <2>1. PICK c \in pending[a] :
          /\ checkpoints'[a] = c.state
          /\ pending'[a] = {Since(c, e) : e \in {e \in pending[a] : e.nth > c.nth}}
    BY <1>2, <1>22, WhatPutDoes
  <2>2. /\ gate_writes'[a] = "none"
        /\ \A b \in Assessments : b # a => /\ checkpoints'[b] = checkpoints[b]
                                          /\ pending'[b] = pending[b]
                                          /\ gate_writes'[b] = gate_writes[b]
        /\ UNCHANGED <<toolVars, requests, history>>
    BY <1>2, <1>22, WhatPutDoes
  <2>3. Saved
    BY <1>5, <2>1, <2>2
  <2>4. \A d \in pending'[a] : \E e \in pending[a] : d.state = e.state
    BY <2>1 DEF Since
  <2>5. News
    BY <1>5, <2>2, <2>4
  <2> QED
    BY <2>2, <2>3, <2>5 DEF history
<1>23. ASSUME NEW q \in Callers, PutWrites(q)
       PROVE  Saved /\ UNCHANGED <<toolVars, pending, requests, resumed>>
  <2>1. Saved
    BY <1>2, <1>5, <1>23 DEF PutWrites
  <2> QED
    BY <1>23, <2>1 DEF PutWrites, history
<1>24. CASE UNCHANGED vars
  BY <1>6, <1>24 DEF vars, serviceVars, history, thread
<1> QED
  BY <1>6, <1>10, <1>11, <1>12, <1>13, <1>14, <1>15, <1>16, <1>17, <1>18, <1>19, <1>20, <1>21,
     <1>22, <1>23, <1>24 DEF Next, Step, thread

LEMMA ServiceInitInv == Init => ServiceInv
<1> SUFFICES ASSUME Init PROVE ServiceInv
  OBVIOUS
<1>1. ToolInv
  BY ToolInitInv DEF Init
<1>2. TypeOK
  <2>1. ToolTypeOK
    BY <1>1 DEF ToolInv
  <2>2. Paused \in CheckpointType
    BY DEF Paused, CheckpointType, Decisions
  <2>3. Unsent \in RequestType
    BY <2>2 DEF Unsent, RequestType, Decisions
  <2>4. [status |-> "awaiting_approval", decision |-> "none", ticket |-> 0] \in RowType
    BY DEF RowType, Decisions
  <2>5. \A q \in Callers : requests[q].at = "ready"
    BY DEF Init, Unsent
  <2>6. "none" \in Decisions
    BY DEF Decisions
  <2> QED
    BY <2>1, <2>2, <2>3, <2>4, <2>5, <2>6, ServiceAssumption DEF Init, TypeOK
<1>3. DecisionsAreTraced
  BY DEF Init, ToolInit, DecisionsAreTraced, AtRun, OpenAt, Unsent, Unasked, Paused
<1>4. NoTicketWithoutApproval
  BY DEF Init, ToolInit, NoTicketWithoutApproval, Ticketed
<1> QED
  BY <1>1, <1>2, <1>3, <1>4 DEF ServiceInv

LEMMA ServiceStepInv == ServiceInv /\ [Next]_vars => ServiceInv'
<1> SUFFICES ASSUME ServiceInv, [Next]_vars PROVE ServiceInv'
  OBVIOUS
<1>1. TypeOK /\ ToolInv
  BY DEF ServiceInv
<1>2. TypeOK'
  BY <1>1, ServiceTypeStep
<1>3. ToolInv'
  BY <1>1, ServiceStepIsToolStep, ToolStepInv
<1> QED
  BY <1>2, <1>3, DecisionsTracedStep DEF ServiceInv

(* ServiceInv is inductive. *)
THEOREM ServiceInvariance == Spec => []ServiceInv
BY ServiceInitInv, ServiceStepInv, PTL DEF Spec

(* Every variable of the approval service keeps its shape. *)
THEOREM ServiceTypeCorrect == Spec => []TypeOK
<1>1. ServiceInv => TypeOK
  BY DEF ServiceInv
<1> QED
  BY <1>1, ServiceInvariance, PTL

(* The gate holds (submit_approval, resume_with_decision, approval_gate    *)
(* and ticket_node): whatever requests race on an assessment, whichever    *)
(* fail, wherever the process stops and whatever checkpoints that loses, a *)
(* ticket means that a request which said "approved" was let through.      *)
THEOREM NoUnapprovedTicket == Spec => []NoTicketWithoutApproval
<1>1. ServiceInv => NoTicketWithoutApproval
  BY DEF ServiceInv
<1> QED
  BY <1>1, ServiceInvariance, PTL

-----------------------------------------------------------------------------
(* What the answers, the reports and the rows say.                         *)
(*                                                                         *)
(* A state of the graph is true of an assessment whose ticket has number n *)
(* (0 without one).                                                        *)
StateIsTrue(s, n) ==
  /\ s.next # "none"
  /\ s.next = "gate"   => s.decision = "none" /\ s.ticket = 0
  /\ s.next = "ticket" => s.decision = "approved" /\ s.ticket = 0
  /\ s.next \in {"report", "end"} =>
       s.decision # "none" /\ (s.decision = "approved" <=> s.ticket # 0)
  /\ s.ticket # 0 => s.ticket = n

RequestsFor(a) == {q \in Callers : requests[q].assessment = a}

(* The run is past the gate, and its invoke has not ended. *)
PastGate == {"ticket", "tool", "report", "flush", "raising"}

(* A request is at the node its state has next; once past the gate, it has *)
(* a checkpoint of its own to save, or the thread is past the gate too.    *)
RequestOK(q, a) ==
  /\ StateIsTrue(requests[q].seen, ticket_number[a])
  /\ requests[q].at \in {"gate", "report"} => requests[q].seen.next = requests[q].at
  /\ requests[q].at \in {"ticket", "tool"} => requests[q].seen.next = "ticket"
  /\ requests[q].at \in PastGate \cup {"persist"} => requests[q].seen.next # "gate"
  /\ requests[q].at # "ready" => requests[q].decision # "none"
  /\ requests[q].at \in PastGate => checkpoints[a].next # "gate" \/ Unsaved(q, a)
  /\ requests[q].at \in {"read", "persist"} => checkpoints[a].next # "gate"

UnsavedOK(c, n) == StateIsTrue(c.state, n) /\ c.state.next # "gate"

PhaseOK(a) ==
  /\ StateIsTrue(checkpoints[a], ticket_number[a])
  /\ \A c \in pending[a] : UnsavedOK(c, ticket_number[a])
  /\ \A q \in RequestsFor(a) : RequestOK(q, a)

(* The decision d of a run of q is its own, or one that was cut off. *)
Honest(q, a, d) ==
  d = requests[q].decision \/ (a \in rolled_back /\ d \in DecisionsCutOff(a))

(* A request q alone on a follows the thread from the gate to the end. *)
Follows(q, a) ==
  /\ requests[q].at \in {"accepted", "invoke", "gate"} => checkpoints[a].next = "gate"
  /\ requests[q].at = "gate" => gate_writes[a] = "none"
  /\ requests[q].at \in PastGate =>
       /\ \A c \in pending[a] : c.state.decision = requests[q].seen.decision
       /\ checkpoints[a].next # "gate" => checkpoints[a].decision = requests[q].seen.decision
       /\ gate_writes[a] \in {"none", requests[q].seen.decision}
       /\ Honest(q, a, requests[q].seen.decision)
  /\ requests[q].at = "flush" =>
       /\ pending[a] = {} => checkpoints[a].next = "end"
       /\ \A c \in pending[a] : (\A d \in pending[a] : d.nth <= c.nth) => c.state.next = "end"
  /\ requests[q].at \in {"read", "persist"} =>
       checkpoints[a].next = "end" /\ Honest(q, a, checkpoints[a].decision)
  /\ requests[q].at = "persist" => requests[q].seen = checkpoints[a]

RowTells(w, c) ==
  /\ w.status = IF c.next = "gate" THEN "awaiting_approval" ELSE "completed"
  /\ w.decision = c.decision
  /\ w.ticket = c.ticket

(* Between the gate and the row that tells of it. *)
RowIsDue == PastGate \cup {"read", "persist", "lost", "failed"}

(* A call of the tool, even a lost one, may still commit. *)
MayBeTicketed(a) == a \in Ticketed \/ \E q \in RequestsFor(a) : OpenCall(q)

(* The thread is past the gate for good, with a yes. *)
Sealed(a) ==
  /\ pending[a] = {} => checkpoints[a].next # "gate"
  /\ checkpoints[a].next # "gate" => checkpoints[a].decision = "approved"
  /\ \A c \in pending[a] : c.state.decision = "approved"
  /\ \A q \in RequestsOn(a) : requests[q].at \in PastGate =>
       requests[q].seen.decision = "approved"

(* What a gate returned is saved beside the checkpoint it ran on: that of  *)
(* the run that is past it, or one that was cut off.                       *)
WritesOK(a) ==
  gate_writes[a] # "none" =>
    /\ checkpoints[a].next = "gate"
    /\ (\A q \in RequestsOn(a) : requests[q].at \notin PastGate) =>
         a \in rolled_back /\ gate_writes[a] \in DecisionsCutOff(a)

RowOK(a) ==
  (\A q \in RequestsFor(a) : requests[q].at \notin RowIsDue) => RowTells(rows[a], checkpoints[a])

AloneOK(a) ==
  /\ \A p, q \in RequestsOn(a) : p = q
  /\ \A c \in pending[a] : c.by \in RequestsOn(a) /\ requests[c.by].at \in PastGate
  /\ \A q \in RequestsOn(a) : Follows(q, a)
  /\ WritesOK(a)
  /\ RowOK(a)
  /\ a \notin rolled_back /\ MayBeTicketed(a) => Sealed(a)

PhaseInv == \A a \in assessments : PhaseOK(a)

AloneInv == \A a \in assessments \ overlapped : AloneOK(a)

OutcomeInv == PhaseInv /\ AloneInv /\ AnswerHonoursTheRequest

-----------------------------------------------------------------------------
(* At first every assessment is paused and no request has come. *)
LEMMA OutcomeInitInv == Init => OutcomeInv
<1> SUFFICES ASSUME Init PROVE OutcomeInv
  OBVIOUS
<1>1. /\ \A a \in Assessments : /\ checkpoints[a] = Paused
                                /\ pending[a] = {}
                                /\ gate_writes[a] = "none"
      /\ \A q \in Callers : requests[q] = Unsent /\ calls[q].at = "ready"
      /\ \A a \in Assessments :
           rows[a] = [status |-> "awaiting_approval", decision |-> "none", ticket |-> 0]
      /\ Ticketed = {}
      /\ assessments = Assessments
  BY DEF Init, ToolInit, Ticketed, Unasked
<1>2. \A n : StateIsTrue(Paused, n)
  BY DEF StateIsTrue, Paused
<1>3. \A q \in Callers : \A a : RequestOK(q, a)
  BY <1>1, <1>2 DEF RequestOK, Unsent, PastGate
<1>4. PhaseInv
  BY <1>1, <1>2, <1>3 DEF PhaseInv, PhaseOK, RequestsFor
<1>5. \A a : RequestsOn(a) = {}
  BY <1>1 DEF RequestsOn, OpenRequest, OpenAt, Unsent
<1>6. \A a \in Assessments : RowTells(rows[a], checkpoints[a])
  BY <1>1 DEF RowTells, Paused
<1>7. \A a \in Assessments : ~MayBeTicketed(a)
  BY <1>1 DEF MayBeTicketed, RequestsFor, OpenCall, OpenStates
<1>8. AloneInv
  BY <1>1, <1>5, <1>6, <1>7 DEF AloneInv, AloneOK, WritesOK, RowOK
<1>9. AnswerHonoursTheRequest
  BY <1>1 DEF AnswerHonoursTheRequest, Unsent
<1> QED
  BY <1>4, <1>8, <1>9 DEF OutcomeInv

-----------------------------------------------------------------------------
(* What is true of an assessment that is still there stays so. *)
LEMMA TruthLasts ==
  ASSUME ServiceInv, [Next]_vars, NEW a \in assessments'
  PROVE  /\ a \in assessments /\ a \in Assessments
         /\ \A s : StateIsTrue(s, ticket_number[a]) => StateIsTrue(s, ticket_number'[a])
<1>1. ToolInv /\ [ToolNext]_toolVars
  BY ServiceStepIsToolStep DEF ServiceInv
<1>2. a \in assessments /\ a \in Assessments
  BY <1>1, AssessmentsShrink DEF ToolInv, ToolTypeOK
<1>3. ticket_number[a] # 0 => ticket_number'[a] = ticket_number[a]
  BY <1>1, <1>2, TicketLasts DEF Ticketed
<1> QED
  BY <1>2, <1>3 DEF StateIsTrue

(* A decision that was cut off stays so. *)
LEMMA CutOffLasts ==
  ASSUME ServiceInv, [Next]_vars, NEW a
  PROVE  DecisionsCutOff(a) \subseteq DecisionsCutOff(a)'
<1>1. ASSUME NEW q \in CutOff(a)
      PROVE  /\ q \in CutOff(a)'
             /\ requests'[q].decision = requests[q].decision
  <2>1. q \in Callers /\ requests[q].at \in {"lost", "failed"}
    BY <1>1 DEF CutOff, ServiceInv, TypeOK
  <2>2. requests'[q] = requests[q]
    BY <2>1, RequestsStand DEF ServiceInv, OpenRequest, OpenAt
  <2> QED
    BY <1>1, <2>2, HistoryGrows DEF CutOff
<1> QED
  BY <1>1 DEF DecisionsCutOff

(* A step that has nothing to do with b. *)
Still(b) ==
  /\ \A p \in Callers : requests[p].assessment = b \/ requests'[p].assessment = b =>
       requests'[p] = requests[p] /\ calls'[p] = calls[p]
  /\ checkpoints'[b] = checkpoints[b]
  /\ pending'[b] = pending[b]
  /\ gate_writes'[b] = gate_writes[b]
  /\ rows'[b] = rows[b]
  /\ ticket_number'[b] = ticket_number[b]
  /\ b \in rolled_back' <=> b \in rolled_back

LEMMA StillKeepsPhase ==
  ASSUME NEW b, PhaseOK(b), Still(b)
  PROVE  PhaseOK(b)'
<1>1. RequestsFor(b)' = RequestsFor(b)
  BY DEF Still, RequestsFor
<1>2. ASSUME NEW q \in RequestsFor(b) PROVE RequestOK(q, b)'
  <2>1. requests'[q] = requests[q]
    BY <1>2 DEF Still, RequestsFor
  <2>2. RequestOK(q, b)
    BY <1>2 DEF PhaseOK
  <2> QED
    BY <2>1, <2>2 DEF RequestOK, Still, Unsaved
<1> QED
  BY <1>1, <1>2 DEF PhaseOK, Still

LEMMA StillKeepsAlone ==
  ASSUME ServiceInv, [Next]_vars, NEW b \in Assessments, AloneOK(b), Still(b)
  PROVE  AloneOK(b)'
<1>1. /\ RequestsFor(b)' = RequestsFor(b)
      /\ RequestsOn(b)' = RequestsOn(b)
      /\ \A q \in RequestsFor(b) : requests'[q] = requests[q] /\ calls'[q] = calls[q]
      /\ RequestsOn(b) \subseteq RequestsFor(b)
  BY DEF Still, RequestsFor, RequestsOn, OpenRequest
<1>2. DecisionsCutOff(b) \subseteq DecisionsCutOff(b)'
  BY CutOffLasts
<1>3. ASSUME NEW q \in RequestsOn(b) PROVE Follows(q, b)'
  <2>1. requests'[q] = requests[q]
    BY <1>1, <1>3
  <2>2. Follows(q, b)
    BY <1>3 DEF AloneOK
  <2> QED
    BY <1>2, <2>1, <2>2 DEF Follows, Honest, Still
<1>4. WritesOK(b)'
  <2>1. WritesOK(b)
    BY DEF AloneOK
  <2> QED
    BY <1>1, <1>2, <2>1 DEF WritesOK, Still
<1>5. RowOK(b)'
  <2>1. RowOK(b)
    BY DEF AloneOK
  <2> QED
    BY <1>1, <2>1 DEF RowOK, Still
<1>6. MayBeTicketed(b)' => MayBeTicketed(b)
  BY <1>1 DEF MayBeTicketed, Still, Ticketed, OpenCall
<1>7. Sealed(b) => Sealed(b)'
  BY <1>1 DEF Sealed, Still
<1> QED
  BY <1>1, <1>3, <1>4, <1>5, <1>6, <1>7 DEF AloneOK, Still

-----------------------------------------------------------------------------
(* What a step of a request q on a does, and that it does nothing else.    *)
Local(q, a) ==
  /\ a \in Assessments /\ requests[q].assessment = a
  /\ \A p \in Callers : p # q => requests'[p] = requests[p] /\ calls'[p] = calls[p]
  /\ requests'[q].assessment = a /\ requests'[q].decision = requests[q].decision
  /\ \A b \in Assessments : b # a =>
       /\ pending'[b] = pending[b] /\ gate_writes'[b] = gate_writes[b]
       /\ rows'[b] = rows[b] /\ ticket_number'[b] = ticket_number[b]
       /\ b \in rolled_back' <=> b \in rolled_back
  /\ UNCHANGED <<checkpoints, assessments, overlapped>>

SameThread(a) ==
  /\ pending'[a] = pending[a] /\ gate_writes'[a] = gate_writes[a]
  /\ a \in rolled_back' <=> a \in rolled_back

SameTables(q, a) ==
  calls'[q] = calls[q] /\ ticket_number'[a] = ticket_number[a] /\ rows'[a] = rows[a]

LEMMA LocalIsStill ==
  ASSUME NEW q \in Callers, NEW a, Local(q, a), NEW b \in Assessments, b # a
  PROVE  Still(b)
BY DEF Local, Still

LEMMA MoveIsLocal ==
  ASSUME TypeOK, NEW q \in Callers, NEW a \in Assessments, requests[q].assessment = a,
         NEW at, Move(q, at), UNCHANGED <<toolVars, thread, overlapped, rolled_back>>,
         \A b \in Assessments : b # a => rows'[b] = rows[b]
  PROVE  /\ Local(q, a) /\ SameThread(a)
         /\ calls'[q] = calls[q] /\ ticket_number'[a] = ticket_number[a]
         /\ requests'[q].at = at /\ requests'[q].seen = requests[q].seen
<1>1. requests \in [Callers -> RequestType]
  BY DEF TypeOK
<1> QED
  BY <1>1, MoveMoves DEF Local, SameThread, toolVars, thread

LEMMA MoveWithIsLocal ==
  ASSUME TypeOK, NEW q \in Callers, NEW a \in Assessments, requests[q].assessment = a,
         NEW at, NEW s, MoveWith(q, at, s), UNCHANGED <<toolVars, thread, rows, history>>
  PROVE  /\ Local(q, a) /\ SameThread(a) /\ SameTables(q, a)
         /\ requests'[q].at = at /\ requests'[q].seen = s
<1>1. requests \in [Callers -> RequestType]
  BY DEF TypeOK
<1> QED
  BY <1>1, MoveWithMoves DEF Local, SameThread, SameTables, toolVars, thread, history

(* The checkpoint a run of q has just made, the newest of all. *)
Newest(c, q, a) ==
  /\ c.by = q /\ c.state = requests'[q].seen
  /\ \A d \in pending[a] : d.nth < c.nth
  /\ pending'[a] = pending[a] \cup {c}

Checkpointed(q, a) ==
  /\ \E c : Newest(c, q, a)
  /\ gate_writes'[a] = gate_writes[a]
  /\ a \in rolled_back' <=> a \in rolled_back
  /\ requests'[q].at = Continuation(requests'[q].seen)

LEMMA CheckpointIsLocal ==
  ASSUME TypeOK, NEW q \in Callers, NEW a \in Assessments, requests[q].assessment = a,
         NEW s, Checkpoint(q, s), UNCHANGED <<toolVars, rows, history>>
  PROVE  /\ Local(q, a) /\ Checkpointed(q, a) /\ SameTables(q, a)
         /\ requests'[q].seen = s
<1>1. /\ requests \in [Callers -> RequestType] /\ pending \in [Assessments -> SUBSET UnsavedType]
      /\ MoveWith(q, Continuation(s), s) /\ UNCHANGED <<checkpoints, gate_writes>>
  BY DEF TypeOK, Checkpoint
<1>2. PICK n \in {1} \cup {c.nth + 1 : c \in pending[a]} :
        /\ \A c \in pending[a] : c.nth < n
        /\ pending' = [pending EXCEPT ![a] = @ \cup {[nth |-> n, by |-> q, state |-> s]}]
  BY DEF Checkpoint
<1> DEFINE c == [nth |-> n, by |-> q, state |-> s]
<1>3. c.nth = n /\ c.by = q /\ c.state = s
  OBVIOUS
<1> HIDE DEF c
<1>4. /\ pending'[a] = pending[a] \cup {c}
      /\ \A b \in Assessments : b # a => pending'[b] = pending[b]
  BY <1>1, <1>2 DEF c
<1>5. /\ requests'[q].at = Continuation(s) /\ requests'[q].seen = s
      /\ requests'[q].assessment = a
      /\ requests'[q].decision = requests[q].decision
      /\ \A p \in Callers : p # q => requests'[p] = requests[p]
  BY <1>1, MoveWithMoves
<1>6. Newest(c, q, a)
  BY <1>2, <1>3, <1>4, <1>5 DEF Newest
<1> QED
  BY <1>1, <1>4, <1>5, <1>6 DEF Local, Checkpointed, SameTables, toolVars, history

LEMMA AbandonIsLocal ==
  ASSUME TypeOK, NEW q \in Callers, NEW a \in Assessments, requests[q].assessment = a,
         Abandon(q, "failed"), UNCHANGED <<toolVars, rows, overlapped>>
  PROVE  /\ Local(q, a) /\ SameTables(q, a)
         /\ pending'[a] = {c \in pending[a] : c.by # q}
         /\ gate_writes'[a] = gate_writes[a]
         /\ a \in rolled_back' <=> a \in rolled_back \/ Unsaved(q, a)
         /\ requests'[q].at = "failed" /\ requests'[q].seen = requests[q].seen
<1>1. /\ requests \in [Callers -> RequestType] /\ pending \in [Assessments -> SUBSET UnsavedType]
      /\ Move(q, "failed") /\ UNCHANGED <<checkpoints, gate_writes>>
      /\ pending' = [pending EXCEPT ![a] = {c \in @ : c.by # q}]
      /\ rolled_back' = IF Unsaved(q, a) THEN rolled_back \cup {a} ELSE rolled_back
  BY DEF TypeOK, Abandon
<1>2. /\ pending'[a] = {c \in pending[a] : c.by # q}
      /\ \A b \in Assessments : b # a => pending'[b] = pending[b]
  BY <1>1
<1>3. /\ \A b : b # a => (b \in rolled_back' <=> b \in rolled_back)
      /\ a \in rolled_back' <=> a \in rolled_back \/ Unsaved(q, a)
  BY <1>1
<1> QED
  BY <1>1, <1>2, <1>3, MoveMoves DEF Local, SameTables, toolVars

-----------------------------------------------------------------------------
(* A step of q on a keeps the phases in order if it leaves q in order. *)
LEMMA PhaseKept ==
  ASSUME ServiceInv, [Next]_vars, NEW q \in Callers, NEW a \in assessments', PhaseOK(a),
         Local(q, a),
         \A c \in pending'[a] : UnsavedOK(c, ticket_number'[a]),
         \A p \in Callers : p # q /\ Unsaved(p, a) => Unsaved(p, a)',
         RequestOK(q, a)'
  PROVE  PhaseOK(a)'
<1>1. checkpoints' = checkpoints
  BY DEF Local
<1>2. StateIsTrue(checkpoints'[a], ticket_number'[a])
  BY <1>1, TruthLasts DEF PhaseOK
<1>3. ASSUME NEW p \in RequestsFor(a)', p # q PROVE RequestOK(p, a)'
  <2>1. requests'[p] = requests[p] /\ p \in RequestsFor(a) /\ p \in Callers
    BY <1>3 DEF Local, RequestsFor
  <2>2. RequestOK(p, a)
    BY <2>1 DEF PhaseOK
  <2>3. StateIsTrue(requests'[p].seen, ticket_number'[a])
    BY <2>1, <2>2, TruthLasts DEF RequestOK
  <2>4. Unsaved(p, a) => Unsaved(p, a)'
    BY <1>3, <2>1
  <2> QED
    BY <1>1, <2>1, <2>2, <2>3, <2>4 DEF RequestOK
<1> QED
  BY <1>2, <1>3 DEF PhaseOK

(* Where the thread stays as it is. *)
LEMMA MoveKeepsPhase ==
  ASSUME ServiceInv, [Next]_vars, NEW q \in Callers, NEW a \in assessments', PhaseOK(a),
         Local(q, a), SameThread(a), RequestOK(q, a)'
  PROVE  PhaseOK(a)'
<1>1. \A c \in pending'[a] : UnsavedOK(c, ticket_number'[a])
  BY TruthLasts DEF SameThread, PhaseOK, UnsavedOK
<1>2. \A p \in Callers : Unsaved(p, a) => Unsaved(p, a)'
  BY DEF SameThread, Unsaved
<1> QED
  BY <1>1, <1>2, PhaseKept

(* Where q's run has made a checkpoint. *)
LEMMA CheckpointKeepsPhase ==
  ASSUME ServiceInv, [Next]_vars, NEW q \in Callers, NEW a \in assessments', PhaseOK(a),
         Local(q, a), Checkpointed(q, a), requests[q].at # "ready",
         StateIsTrue(requests'[q].seen, ticket_number'[a]), requests'[q].seen.next # "gate"
  PROVE  PhaseOK(a)'
<1>1. PICK c : Newest(c, q, a)
  BY DEF Checkpointed
<1>2. \A d \in pending'[a] : UnsavedOK(d, ticket_number'[a])
  BY <1>1, TruthLasts DEF PhaseOK, UnsavedOK, Newest
<1>3. \A p \in Callers : Unsaved(p, a) => Unsaved(p, a)'
  BY <1>1 DEF Unsaved, Newest
<1>4. Unsaved(q, a)'
  BY <1>1 DEF Unsaved, Newest
<1>5. requests'[q].decision # "none"
  BY DEF PhaseOK, RequestOK, Local, RequestsFor
<1>6. requests'[q].at = Continuation(requests'[q].seen)
  BY DEF Checkpointed
<1>7. requests'[q].seen.next \in {"ticket", "report", "end"}
  <2>1. requests'[q] \in RequestType
    BY ServiceStepInv DEF ServiceInv, TypeOK
  <2> QED
    BY <2>1 DEF RequestType, CheckpointType, StateIsTrue
<1>8. RequestOK(q, a)'
  BY <1>4, <1>5, <1>6, <1>7 DEF RequestOK, Continuation, PastGate
<1> QED
  BY <1>2, <1>3, <1>8, PhaseKept

LEMMA AbandonKeepsPhase ==
  ASSUME ServiceInv, [Next]_vars, NEW q \in Callers, NEW a \in assessments', PhaseOK(a),
         Local(q, a), pending'[a] = {c \in pending[a] : c.by # q},
         requests'[q].at = "failed", requests'[q].seen = requests[q].seen,
         requests[q].at # "ready"
  PROVE  PhaseOK(a)'
<1>1. \A c \in pending'[a] : UnsavedOK(c, ticket_number'[a])
  BY TruthLasts DEF PhaseOK, UnsavedOK
<1>2. \A p \in Callers : p # q /\ Unsaved(p, a) => Unsaved(p, a)'
  BY DEF Unsaved
<1>3. RequestOK(q, a)
  BY DEF PhaseOK, Local, RequestsFor
<1>4. requests'[q].decision # "none" /\ StateIsTrue(requests'[q].seen, ticket_number'[a])
  BY <1>3, TruthLasts DEF RequestOK, Local
<1>5. RequestOK(q, a)'
  BY <1>4 DEF RequestOK, PastGate
<1> QED
  BY <1>1, <1>2, <1>5, PhaseKept

-----------------------------------------------------------------------------
(* A step of q, alone on a, keeps a in order if q leaves it in order.      *)
LeavesInOrder(q, a) ==
  /\ \A c \in pending'[a] : c.by = q /\ requests'[q].at \in PastGate
  /\ requests'[q].at \in OpenAt => Follows(q, a)'
  /\ gate_writes'[a] # "none" =>
       /\ checkpoints'[a].next = "gate"
       /\ requests'[q].at \notin PastGate =>
            a \in rolled_back' /\ gate_writes'[a] \in DecisionsCutOff(a)'
  /\ requests'[q].at \notin RowIsDue =>
       \/ RowTells(rows'[a], checkpoints'[a])
       \/ requests[q].at \notin RowIsDue /\ rows'[a] = rows[a]

LeavesSealed(q, a) ==
  a \notin rolled_back' /\ MayBeTicketed(a)' =>
    /\ pending'[a] = {} => checkpoints'[a].next # "gate"
    /\ checkpoints'[a].next # "gate" => checkpoints'[a].decision = "approved"
    /\ \A c \in pending'[a] : c.state.decision = "approved"
    /\ requests'[q].at \in PastGate => requests'[q].seen.decision = "approved"

LEMMA AloneKept ==
  ASSUME ServiceInv, [Next]_vars, NEW q \in Callers, NEW a \in Assessments, AloneOK(a),
         Local(q, a), requests[q].at \in OpenAt, LeavesInOrder(q, a), LeavesSealed(q, a)
  PROVE  AloneOK(a)'
<1>1. /\ \A p \in RequestsOn(a) : p = q
      /\ \A p \in RequestsOn(a)' : p = q
      /\ requests'[q].at \in OpenAt => q \in RequestsOn(a)'
  BY DEF AloneOK, Local, RequestsOn, OpenRequest
<1>2. \A c \in pending'[a] : c.by \in RequestsOn(a)' /\ requests'[c.by].at \in PastGate
  BY <1>1 DEF LeavesInOrder, PastGate, OpenAt
<1>3. \A p \in RequestsOn(a)' : Follows(p, a)'
  BY <1>1 DEF LeavesInOrder, RequestsOn, OpenRequest
<1>4. WritesOK(a)'
  <2>1. PastGate \subseteq OpenAt
    BY DEF PastGate, OpenAt
  <2> QED
    BY <1>1, <2>1 DEF WritesOK, LeavesInOrder
<1>5. RowOK(a)'
  <2>1. SUFFICES ASSUME \A p \in RequestsFor(a)' : requests'[p].at \notin RowIsDue
                 PROVE  RowTells(rows'[a], checkpoints'[a])
    BY DEF RowOK
  <2>2. requests'[q].at \notin RowIsDue
    BY <2>1 DEF Local, RequestsFor
  <2>3. CASE requests[q].at \notin RowIsDue /\ rows'[a] = rows[a]
    <3>1. \A p \in RequestsFor(a) : requests[p].at \notin RowIsDue
      BY <2>1, <2>3 DEF Local, RequestsFor
    <3> QED
      BY <2>3, <3>1 DEF AloneOK, RowOK, Local
  <2> QED
    BY <2>2, <2>3 DEF LeavesInOrder
<1>6. a \notin rolled_back' /\ MayBeTicketed(a)' => Sealed(a)'
  BY <1>1 DEF LeavesSealed, Sealed
<1> QED
  BY <1>1, <1>2, <1>3, <1>4, <1>5, <1>6 DEF AloneOK

(* Before the step, of the open request q that is alone on a. *)
LEMMA AloneOf ==
  ASSUME NEW q \in Callers, NEW a \in Assessments, requests[q].at \in OpenAt,
         requests[q].assessment = a, PhaseOK(a), AloneOK(a)
  PROVE  /\ Follows(q, a) /\ RequestOK(q, a)
         /\ \A c \in pending[a] : c.by = q /\ requests[q].at \in PastGate
         /\ gate_writes[a] # "none" =>
              /\ checkpoints[a].next = "gate"
              /\ requests[q].at \notin PastGate =>
                   a \in rolled_back /\ gate_writes[a] \in DecisionsCutOff(a)
         /\ a \notin rolled_back /\ MayBeTicketed(a) =>
              /\ requests[q].at \notin {"accepted", "invoke", "gate"}
              /\ pending[a] = {} => checkpoints[a].next # "gate"
              /\ checkpoints[a].next # "gate" => checkpoints[a].decision = "approved"
              /\ \A c \in pending[a] : c.state.decision = "approved"
              /\ requests[q].at \in PastGate => requests[q].seen.decision = "approved"
<1>1. q \in RequestsOn(a) /\ \A p \in RequestsOn(a) : p = q
  BY DEF AloneOK, RequestsOn, OpenRequest
<1>2. Follows(q, a)
  BY <1>1 DEF AloneOK
<1>3. RequestOK(q, a)
  BY DEF PhaseOK, RequestsFor
<1>4. \A c \in pending[a] : c.by = q /\ requests[q].at \in PastGate
  BY <1>1 DEF AloneOK
<1>5. WritesOK(a) /\ (a \notin rolled_back /\ MayBeTicketed(a) => Sealed(a))
  BY DEF AloneOK
<1>6. gate_writes[a] # "none" =>
        /\ checkpoints[a].next = "gate"
        /\ requests[q].at \notin PastGate =>
             a \in rolled_back /\ gate_writes[a] \in DecisionsCutOff(a)
  BY <1>1, <1>5 DEF WritesOK
<1>7. Sealed(a) => /\ requests[q].at \notin {"accepted", "invoke", "gate"}
                   /\ requests[q].at \in PastGate => requests[q].seen.decision = "approved"
  BY <1>1, <1>2, <1>4 DEF Sealed, Follows, PastGate
<1> QED
  BY <1>2, <1>3, <1>4, <1>5, <1>6, <1>7 DEF Sealed

(* Where no ticket and no call changes. *)
LEMMA SameTickets ==
  ASSUME NEW q \in Callers, NEW a, Local(q, a),
         calls'[q] = calls[q], ticket_number'[a] = ticket_number[a]
  PROVE  MayBeTicketed(a)' => MayBeTicketed(a)
<1>1. \A p \in RequestsFor(a)' : p \in RequestsFor(a) /\ calls'[p] = calls[p]
  BY DEF RequestsFor, Local
<1> QED
  BY <1>1 DEF MayBeTicketed, Local, Ticketed, OpenCall

(* Where the thread stays as it is, and q moves. *)
LEMMA SealedByMove ==
  ASSUME NEW q \in Callers, NEW a \in Assessments, requests[q].at \in OpenAt,
         PhaseOK(a), AloneOK(a), Local(q, a), SameThread(a),
         calls'[q] = calls[q], ticket_number'[a] = ticket_number[a],
         requests'[q].at \in PastGate =>
           requests[q].at \in PastGate /\ requests'[q].seen = requests[q].seen
  PROVE  LeavesSealed(q, a)
<1>1. requests[q].assessment = a /\ checkpoints' = checkpoints
  BY DEF Local
<1>2. MayBeTicketed(a)' => MayBeTicketed(a)
  BY SameTickets
<1> QED
  BY <1>1, <1>2, AloneOf DEF LeavesSealed, SameThread

(* Where q's run has made a checkpoint, with the decision it had. *)
LEMMA SealedByCheckpoint ==
  ASSUME NEW q \in Callers, NEW a \in Assessments, requests[q].at \in OpenAt,
         PhaseOK(a), AloneOK(a), Local(q, a), Checkpointed(q, a),
         calls'[q] = calls[q], ticket_number'[a] = ticket_number[a],
         \/ requests[q].at \in {"invoke", "gate"}
         \/ requests[q].at \in PastGate /\ requests'[q].seen.decision = requests[q].seen.decision
  PROVE  LeavesSealed(q, a)
<1>1. requests[q].assessment = a /\ checkpoints' = checkpoints
  BY DEF Local
<1>2. MayBeTicketed(a)' => MayBeTicketed(a)
  BY SameTickets
<1>3. PICK c : Newest(c, q, a)
  BY DEF Checkpointed
<1>4. c \in pending'[a] /\ \A d \in pending'[a] : d = c \/ d \in pending[a]
  BY <1>3 DEF Newest
<1>5. c.state.decision = requests'[q].seen.decision
  BY <1>3 DEF Newest
<1> QED
  BY <1>1, <1>2, <1>4, <1>5, AloneOf DEF LeavesSealed, Checkpointed

-----------------------------------------------------------------------------
(* The steps of a request, one by one: each keeps its assessment's phases  *)
(* in order, and the assessment too if the request is alone on it.         *)
LEMMA SeenLasts ==
  ASSUME ServiceInv, [Next]_vars, NEW q \in Callers, NEW a \in assessments',
         requests[q].assessment = a, PhaseOK(a)
  PROVE  RequestOK(q, a) /\ StateIsTrue(requests[q].seen, ticket_number'[a])
<1>1. RequestOK(q, a)
  BY DEF PhaseOK, RequestsFor
<1> QED
  BY <1>1, TruthLasts DEF RequestOK

(* A request that moves before it is past the gate, or fails there. *)
LEMMA EarlyMoveKeeps ==
  ASSUME ServiceInv, [Next]_vars, NEW q \in Callers, NEW a \in assessments',
         Local(q, a), SameThread(a), SameTables(q, a), PhaseOK(a),
         requests'[q].seen = requests[q].seen,
         requests[q].at \in {"received", "accepted", "invoke"},
         \/ requests'[q].at \in {"accepted", "invoke"} /\ checkpoints[a].next = "gate"
         \/ requests'[q].at \in {"conflict", "failed"}
  PROVE  PhaseOK(a)' /\ (AloneOK(a) => AloneOK(a)')
<1>0. a \in Assessments /\ requests[q].assessment = a /\ checkpoints' = checkpoints
  BY DEF Local
<1>1. RequestOK(q, a) /\ StateIsTrue(requests[q].seen, ticket_number'[a])
  BY <1>0, SeenLasts
<1>2. requests'[q].decision # "none"
  BY <1>1 DEF RequestOK, Local
<1>3. RequestOK(q, a)'
  BY <1>1, <1>2 DEF RequestOK, PastGate
<1>4. PhaseOK(a)'
  BY <1>3, MoveKeepsPhase
<1>5. ASSUME AloneOK(a) PROVE AloneOK(a)'
  <2>1. /\ pending[a] = {}
        /\ gate_writes[a] # "none" =>
             checkpoints[a].next = "gate" /\ a \in rolled_back
             /\ gate_writes[a] \in DecisionsCutOff(a)
    BY <1>0, <1>5, AloneOf DEF OpenAt, PastGate
  <2>2. LeavesInOrder(q, a)
    BY <1>0, <2>1, CutOffLasts
       DEF LeavesInOrder, SameThread, SameTables, Follows, PastGate, RowIsDue, OpenAt
  <2>3. LeavesSealed(q, a)
    BY <1>0, <1>5, SealedByMove DEF OpenAt, PastGate, SameTables
  <2> QED
    BY <1>0, <1>5, <2>2, <2>3, AloneKept DEF OpenAt
<1> QED
  BY <1>4, <1>5

LEMMA CheckAwaitingKeeps ==
  ASSUME ServiceInv, [Next]_vars, NEW q \in Callers, NEW a \in Assessments,
         requests[q].assessment = a, CheckAwaiting(q)
  PROVE  /\ Local(q, a)
         /\ a \in assessments' /\ PhaseOK(a) => PhaseOK(a)' /\ (AloneOK(a) => AloneOK(a)')
<1> DEFINE at == IF IsAwaitingApproval(a) THEN "accepted" ELSE "conflict"
<1>1. /\ requests[q].at = "received" /\ Move(q, at)
      /\ UNCHANGED <<toolVars, thread, rows, overlapped, rolled_back>>
  BY DEF CheckAwaiting, At, history
<1>2. (at = "accepted" /\ checkpoints[a].next = "gate") \/ at = "conflict"
  BY DEF IsAwaitingApproval
<1> HIDE DEF at
<1>3. /\ Local(q, a) /\ SameThread(a) /\ SameTables(q, a)
      /\ requests'[q].at = at /\ requests'[q].seen = requests[q].seen
  BY <1>1, MoveIsLocal DEF ServiceInv, SameTables
<1> QED
  BY <1>1, <1>2, <1>3, EarlyMoveKeeps

LEMMA CheckAgainKeeps ==
  ASSUME ServiceInv, [Next]_vars, NEW q \in Callers, NEW a \in Assessments,
         requests[q].assessment = a, CheckAgain(q)
  PROVE  /\ Local(q, a)
         /\ a \in assessments' /\ PhaseOK(a) => PhaseOK(a)' /\ (AloneOK(a) => AloneOK(a)')
<1> DEFINE at == IF IsAwaitingApproval(a) THEN "invoke" ELSE "failed"
<1>1. /\ requests[q].at = "accepted" /\ Move(q, at)
      /\ UNCHANGED <<toolVars, thread, rows, overlapped, rolled_back>>
  BY DEF CheckAgain, At
<1>2. (at = "invoke" /\ checkpoints[a].next = "gate") \/ at = "failed"
  BY DEF IsAwaitingApproval
<1> HIDE DEF at
<1>3. /\ Local(q, a) /\ SameThread(a) /\ SameTables(q, a)
      /\ requests'[q].at = at /\ requests'[q].seen = requests[q].seen
  BY <1>1, MoveIsLocal DEF ServiceInv, SameTables
<1> QED
  BY <1>1, <1>2, <1>3, EarlyMoveKeeps

(* The first checkpoint past the gate, with the decision d. *)
LEMMA DecidedKeeps ==
  ASSUME ServiceInv, [Next]_vars, NEW q \in Callers, NEW a \in assessments',
         Local(q, a), SameTables(q, a), Checkpointed(q, a), PhaseOK(a), NEW d \in Decisions,
         requests'[q].seen = Decided(d), d # "none",
         requests[q].at \in {"invoke", "gate"},
         AloneOK(a) =>
           /\ checkpoints[a].next = "gate" /\ gate_writes[a] \in {"none", d}
           /\ \/ d = requests[q].decision
              \/ a \in rolled_back /\ d \in DecisionsCutOff(a)
  PROVE  PhaseOK(a)' /\ (AloneOK(a) => AloneOK(a)')
<1> DEFINE s == requests'[q].seen
<1>0. a \in Assessments /\ requests[q].assessment = a /\ checkpoints' = checkpoints
  BY DEF Local
<1>1. /\ s.decision = d /\ s.next \in {"ticket", "report"}
      /\ \A n : StateIsTrue(s, n) 
  BY DEF Decided, StateIsTrue, Decisions
<1>2. PhaseOK(a)'
  BY <1>1, CheckpointKeepsPhase
<1>3. requests'[q].at = s.next
  BY <1>1 DEF Checkpointed, Continuation
<1>4. ASSUME AloneOK(a) PROVE AloneOK(a)'
  <2>1. pending[a] = {}
    BY <1>0, <1>4, AloneOf DEF OpenAt, PastGate
  <2>2. PICK c : Newest(c, q, a)
    BY DEF Checkpointed
  <2>3. pending'[a] = {c} /\ c.by = q /\ c.state = s
    BY <2>1, <2>2 DEF Newest
  <2>4. Follows(q, a)'
    BY <1>0, <1>1, <1>3, <1>4, <2>3, CutOffLasts
       DEF Follows, Checkpointed, PastGate, Honest, Local
  <2>5. LeavesInOrder(q, a)
    BY <1>0, <1>1, <1>3, <1>4, <2>3, <2>4
       DEF LeavesInOrder, Checkpointed, PastGate, RowIsDue
  <2>6. LeavesSealed(q, a)
    BY <1>0, <1>4, SealedByCheckpoint DEF OpenAt, SameTables
  <2> QED
    BY <1>0, <1>4, <2>5, <2>6, AloneKept DEF OpenAt
<1> QED
  BY <1>2, <1>4

LEMMA InvokeKeeps ==
  ASSUME ServiceInv, [Next]_vars, NEW q \in Callers, NEW a \in Assessments,
         requests[q].assessment = a, Invoke(q)
  PROVE  /\ Local(q, a)
         /\ a \in assessments' /\ PhaseOK(a) => PhaseOK(a)' /\ (AloneOK(a) => AloneOK(a)')
<1>0. /\ requests[q].at = "invoke" /\ UNCHANGED <<toolVars, rows, history>>
      /\ TypeOK /\ gate_writes[a] \in Decisions /\ checkpoints[a] \in CheckpointType
  BY DEF Invoke, At, ServiceInv, TypeOK
<1>1. CASE checkpoints[a].next = "gate" /\ gate_writes[a] # "none"
  <2>1. PICK d \in Decisions : d = gate_writes[a]
    BY <1>0
  <2>2. Checkpoint(q, Decided(d))
    BY <1>1, <2>1 DEF Invoke
  <2>3. /\ Local(q, a) /\ Checkpointed(q, a) /\ SameTables(q, a)
        /\ requests'[q].seen = Decided(d)
    BY <1>0, <2>2, CheckpointIsLocal
  <2>4. ASSUME AloneOK(a), PhaseOK(a) PROVE a \in rolled_back /\ d \in DecisionsCutOff(a)
    BY <1>0, <1>1, <2>1, <2>4, AloneOf DEF OpenAt, PastGate
  <2> QED
    BY <1>0, <1>1, <2>1, <2>3, <2>4, DecidedKeeps
<1>2. CASE checkpoints[a].next = "none"
  <2>1. Move(q, "failed") /\ UNCHANGED thread
    BY <1>2 DEF Invoke
  <2>2. /\ Local(q, a) /\ SameThread(a) /\ SameTables(q, a)
        /\ requests'[q].at = "failed" /\ requests'[q].seen = requests[q].seen
    BY <1>0, <2>1, MoveIsLocal DEF SameTables, history
  <2> QED
    BY <1>0, <2>2, EarlyMoveKeeps
<1>3. CASE checkpoints[a].next # "none"
           /\ ~(checkpoints[a].next = "gate" /\ gate_writes[a] # "none")
  <2>1. MoveWith(q, Continuation(checkpoints[a]), checkpoints[a]) /\ UNCHANGED thread
    BY <1>3 DEF Invoke
  <2>2. /\ Local(q, a) /\ SameThread(a) /\ SameTables(q, a)
        /\ requests'[q].at = Continuation(checkpoints[a])
        /\ requests'[q].seen = checkpoints[a]
    BY <1>0, <2>1, MoveWithIsLocal
  <2>3. checkpoints' = checkpoints
    BY <2>2 DEF Local
  <2>4. requests'[q].at = IF checkpoints[a].next = "end" THEN "flush" ELSE checkpoints[a].next
    BY <2>2 DEF Continuation
  <2>5. ASSUME a \in assessments', PhaseOK(a) PROVE PhaseOK(a)'
    <3>1. StateIsTrue(checkpoints[a], ticket_number'[a])
      BY <2>5, TruthLasts DEF PhaseOK
    <3>2. requests'[q].decision # "none"
      BY <1>0, <2>2, <2>5, SeenLasts DEF RequestOK, Local
    <3>3. RequestOK(q, a)'
      BY <1>0, <1>3, <2>2, <2>3, <2>4, <3>1, <3>2 DEF RequestOK, PastGate, CheckpointType
    <3> QED
      BY <2>2, <2>5, <3>3, MoveKeepsPhase
  <2>6. ASSUME a \in assessments', PhaseOK(a), AloneOK(a) PROVE AloneOK(a)'
    <3>1. Follows(q, a) /\ pending[a] = {}
      BY <1>0, <2>6, AloneOf DEF OpenAt, PastGate
    <3>2. checkpoints[a].next = "gate" /\ gate_writes[a] = "none" /\ requests'[q].at = "gate"
      BY <1>0, <1>3, <2>4, <3>1 DEF Follows
    <3>3. LeavesInOrder(q, a)
      BY <1>0, <2>2, <2>3, <3>1, <3>2
         DEF LeavesInOrder, SameThread, SameTables, Follows, PastGate, RowIsDue, OpenAt
    <3>4. LeavesSealed(q, a)
      BY <1>0, <2>2, <2>6, <3>2, SealedByMove DEF OpenAt, PastGate, SameTables
    <3> QED
      BY <1>0, <2>2, <2>6, <3>3, <3>4, AloneKept DEF OpenAt
  <2> QED
    BY <2>2, <2>5, <2>6
<1> QED
  BY <1>1, <1>2, <1>3

LEMMA ApprovalGateKeeps ==
  ASSUME ServiceInv, [Next]_vars, NEW q \in Callers, NEW a \in Assessments,
         requests[q].assessment = a, ApprovalGate(q)
  PROVE  /\ Local(q, a)
         /\ a \in assessments' /\ PhaseOK(a) => PhaseOK(a)' /\ (AloneOK(a) => AloneOK(a)')
<1>0. /\ requests[q].at = "gate" /\ UNCHANGED <<toolVars, rows, history>>
      /\ TypeOK /\ requests[q].decision \in Decisions
  BY DEF ApprovalGate, At, ServiceInv, TypeOK, RequestType
<1>1. PICK d \in Decisions : d = requests[q].decision
  BY <1>0
<1>2. Checkpoint(q, Decided(d))
  BY <1>1 DEF ApprovalGate
<1>3. /\ Local(q, a) /\ Checkpointed(q, a) /\ SameTables(q, a)
      /\ requests'[q].seen = Decided(d)
  BY <1>0, <1>2, CheckpointIsLocal
<1>4. ASSUME a \in assessments', PhaseOK(a) PROVE d # "none"
  BY <1>0, <1>1, <1>4, SeenLasts DEF RequestOK
<1>5. ASSUME PhaseOK(a), AloneOK(a)
      PROVE  checkpoints[a].next = "gate" /\ gate_writes[a] = "none"
  BY <1>0, <1>5, AloneOf DEF OpenAt, Follows
<1> QED
  BY <1>0, <1>1, <1>3, <1>4, <1>5, DecidedKeeps

LEMMA CallToolKeeps ==
  ASSUME ServiceInv, [Next]_vars, NEW q \in Callers, NEW a \in Assessments,
         requests[q].assessment = a, CallTool(q)
  PROVE  /\ Local(q, a)
         /\ a \in assessments' /\ PhaseOK(a) => PhaseOK(a)' /\ (AloneOK(a) => AloneOK(a)')
<1>1. /\ requests[q].at = "ticket" /\ Move(q, "tool") /\ Call(q, a)
      /\ requests[q].seen.decision = "approved"
      /\ UNCHANGED <<thread, rows, history>>
  BY DEF CallTool, At
<1>2. /\ requests \in [Callers -> RequestType] /\ calls \in [Callers -> CallType]
  BY DEF ServiceInv, TypeOK, ToolTypeOK
<1>3. /\ requests'[q].at = "tool" /\ requests'[q].seen = requests[q].seen
      /\ requests'[q].assessment = a /\ requests'[q].decision = requests[q].decision
      /\ \A p \in Callers : p # q => requests'[p] = requests[p] /\ calls'[p] = calls[p]
      /\ UNCHANGED <<assessments, ticket_number>>
  BY <1>1, <1>2, MoveMoves DEF Call
<1>4. Local(q, a) /\ SameThread(a) /\ rows' = rows
  BY <1>1, <1>3 DEF Local, SameThread, thread, history
<1>5. checkpoints' = checkpoints
  BY <1>4 DEF Local
<1>6. ASSUME a \in assessments', PhaseOK(a) PROVE PhaseOK(a)'
  <2>1. RequestOK(q, a) /\ StateIsTrue(requests[q].seen, ticket_number'[a])
    BY <1>6, SeenLasts
  <2>2. Unsaved(q, a)' <=> Unsaved(q, a)
    BY <1>4 DEF SameThread, Unsaved
  <2>3. RequestOK(q, a)'
    BY <1>1, <1>3, <1>5, <2>1, <2>2 DEF RequestOK, PastGate
  <2> QED
    BY <1>4, <1>6, <2>3, MoveKeepsPhase
<1>7. ASSUME a \in assessments', PhaseOK(a), AloneOK(a) PROVE AloneOK(a)'
  <2>1. /\ Follows(q, a) /\ RequestOK(q, a)
        /\ \A c \in pending[a] : c.by = q
        /\ gate_writes[a] # "none" => checkpoints[a].next = "gate"
    BY <1>1, <1>7, AloneOf DEF OpenAt
  <2>2. Follows(q, a)'
    BY <1>1, <1>3, <1>4, <1>5, <2>1, CutOffLasts
       DEF Follows, SameThread, PastGate, Honest
  <2>3. LeavesInOrder(q, a)
    BY <1>3, <1>4, <1>5, <2>1, <2>2 DEF LeavesInOrder, SameThread, PastGate, RowIsDue
  <2>4. pending[a] = {} => checkpoints[a].next # "gate"
    BY <1>1, <2>1 DEF RequestOK, Unsaved, PastGate
  <2>5. LeavesSealed(q, a)
    BY <1>1, <1>3, <1>4, <1>5, <2>1, <2>4 DEF LeavesSealed, SameThread, Follows, PastGate
  <2> QED
    BY <1>1, <1>4, <1>7, <2>3, <2>5, AloneKept DEF OpenAt
<1> QED
  BY <1>4, <1>6, <1>7

(* The tool writes a ticket only for an open call. *)
LEMMA ToolRunsKeeps ==
  ASSUME ServiceInv, [Next]_vars, NEW q \in Callers, NEW a \in Assessments,
         requests[q].assessment = a, ToolRuns(q)
  PROVE  /\ Local(q, a)
         /\ a \in assessments' /\ PhaseOK(a) => PhaseOK(a)' /\ (AloneOK(a) => AloneOK(a)')
<1> USE DEF Lookup, Count, Commit, Refresh, IntegrityError, Reread, DatabaseError
<1>1. ToolStep(q) /\ UNCHANGED serviceVars
  BY DEF ToolRuns, ToolStep
<1>2. OpenCall(q)
  BY <1>1 DEF ToolStep, OpenCall, OpenStates
<1>3. /\ calls \in [Callers -> CallType] /\ ticket_number \in [Assessments -> Nat]
      /\ calls[q].assessment = a
  BY <1>2 DEF ServiceInv, TypeOK, ToolTypeOK, DecisionsAreTraced, OpenCall, OpenStates
<1>4. /\ \A p \in Callers : p # q => calls'[p] = calls[p]
      /\ \A b \in Assessments : b # a => ticket_number'[b] = ticket_number[b]
      /\ UNCHANGED assessments
  BY <1>1, <1>3 DEF ToolStep, Goto, Return
<1>5. Local(q, a) /\ SameThread(a) /\ UNCHANGED <<requests, rows, thread, rolled_back, resumed>>
  BY <1>1, <1>4 DEF Local, SameThread, serviceVars, thread, history
<1>6. ASSUME a \in assessments', PhaseOK(a) PROVE PhaseOK(a)'
  <2>1. RequestOK(q, a) /\ StateIsTrue(requests[q].seen, ticket_number'[a])
    BY <1>6, SeenLasts
  <2>2. RequestOK(q, a)'
    BY <1>5, <2>1 DEF RequestOK, Unsaved, thread
  <2> QED
    BY <1>5, <1>6, <2>2, MoveKeepsPhase
<1>7. MayBeTicketed(a)' => MayBeTicketed(a)
  <2>1. MayBeTicketed(a)
    BY <1>2 DEF MayBeTicketed, RequestsFor
  <2> QED
    BY <2>1
<1>8. ASSUME AloneOK(a) PROVE AloneOK(a)'
  <2>1. /\ RequestsOn(a)' = RequestsOn(a) /\ RequestsFor(a)' = RequestsFor(a)
        /\ DecisionsCutOff(a)' = DecisionsCutOff(a)
    BY <1>5 DEF RequestsOn, RequestsFor, OpenRequest, DecisionsCutOff, CutOff
  <2>2. \A p : Follows(p, a) => Follows(p, a)'
    BY <1>5, <2>1 DEF Follows, Honest, thread
  <2>3. (WritesOK(a) => WritesOK(a)') /\ (RowOK(a) => RowOK(a)') /\ (Sealed(a) => Sealed(a)')
    BY <1>5, <2>1 DEF WritesOK, RowOK, Sealed, thread
  <2> QED
    BY <1>5, <1>7, <1>8, <2>1, <2>2, <2>3 DEF AloneOK, thread
<1> QED
  BY <1>5, <1>6, <1>8

(* A later node of a run checkpoints the decision it has. *)
LEMMA LaterNodeKeeps ==
  ASSUME ServiceInv, [Next]_vars, NEW q \in Callers, NEW a \in assessments',
         Local(q, a), SameTables(q, a), Checkpointed(q, a), PhaseOK(a),
         requests[q].at \in {"tool", "report"}, requests'[q].seen.next \in {"report", "end"},
         requests'[q].seen.decision = requests[q].seen.decision,
         StateIsTrue(requests'[q].seen, ticket_number'[a])
  PROVE  PhaseOK(a)' /\ (AloneOK(a) => AloneOK(a)')
<1> DEFINE s == requests'[q].seen
<1>0. /\ a \in Assessments /\ requests[q].assessment = a /\ checkpoints' = checkpoints
      /\ gate_writes'[a] = gate_writes[a]
      /\ requests'[q].decision = requests[q].decision
  BY DEF Local, Checkpointed
<1>1. PhaseOK(a)'
  BY CheckpointKeepsPhase
<1>2. requests'[q].at = IF s.next = "end" THEN "flush" ELSE "report"
  BY DEF Checkpointed, Continuation
<1>3. ASSUME AloneOK(a) PROVE AloneOK(a)'
  <2>1. /\ Follows(q, a)
        /\ \A c \in pending[a] : c.by = q
        /\ gate_writes[a] # "none" => checkpoints[a].next = "gate"
    BY <1>0, <1>3, AloneOf DEF OpenAt
  <2>2. PICK c : Newest(c, q, a)
    BY DEF Checkpointed
  <2>3. /\ c \in pending'[a] /\ \A d \in pending'[a] : d = c \/ d \in pending[a]
        /\ c.by = q /\ c.state = s /\ \A d \in pending[a] : d.nth < c.nth
        /\ pending[a] \subseteq pending'[a]
    BY <2>2 DEF Newest
  <2>4. /\ \A d \in pending[a] : d.state.decision = requests[q].seen.decision
        /\ checkpoints[a].next # "gate" => checkpoints[a].decision = requests[q].seen.decision
        /\ gate_writes[a] \in {"none", requests[q].seen.decision}
        /\ Honest(q, a, requests[q].seen.decision)
    BY <2>1 DEF Follows, PastGate
  <2>5. PICK d : d = s.decision
    OBVIOUS
  <2>6. \/ d = requests'[q].decision
        \/ a \in rolled_back' /\ d \in DecisionsCutOff(a)'
    BY <1>0, <2>4, <2>5, CutOffLasts DEF Honest, Checkpointed
  <2>7. \A e \in pending'[a] : (\A f \in pending'[a] : f.nth <= e.nth) => e = c
    <3>1. pending'[a] \subseteq UnsavedType
      BY <1>0, ServiceStepInv DEF ServiceInv, TypeOK
    <3> QED
      BY <2>3, <3>1 DEF UnsavedType
  <2>8. Follows(q, a)'
    <3> HIDE DEF s
    <3>1. /\ \A e \in pending'[a] : e.state.decision = s.decision
          /\ checkpoints'[a].next # "gate" => checkpoints'[a].decision = s.decision
          /\ gate_writes'[a] \in {"none", s.decision}
      BY <1>0, <2>3, <2>4 DEF s
    <3>2. s.next = "end" =>
            /\ pending'[a] # {}
            /\ \A e \in pending'[a] : (\A f \in pending'[a] : f.nth <= e.nth) => e.state.next = "end"
      BY <2>3, <2>7
    <3> QED
      BY <1>2, <2>5, <2>6, <3>1, <3>2 DEF Follows, Honest, PastGate, s
  <2>9. LeavesInOrder(q, a)
    BY <1>0, <1>2, <2>1, <2>3, <2>8 DEF LeavesInOrder, PastGate, RowIsDue
  <2>10. LeavesSealed(q, a)
    BY <1>0, <1>3, SealedByCheckpoint DEF OpenAt, SameTables, PastGate
  <2> QED
    BY <1>0, <1>3, <2>9, <2>10, AloneKept DEF OpenAt
<1> QED
  BY <1>1, <1>3

LEMMA TicketNodeReturnsKeeps ==
  ASSUME ServiceInv, [Next]_vars, NEW q \in Callers, NEW a \in Assessments,
         requests[q].assessment = a, TicketNodeReturns(q)
  PROVE  /\ Local(q, a)
         /\ a \in assessments' /\ PhaseOK(a) => PhaseOK(a)' /\ (AloneOK(a) => AloneOK(a)')
<1> DEFINE s == [next |-> "report", decision |-> requests[q].seen.decision,
                 ticket |-> calls[q].number]
<1>1. /\ requests[q].at = "tool" /\ calls[q].at = "returned" /\ Checkpoint(q, s)
      /\ UNCHANGED <<toolVars, rows, history>>
  BY DEF TicketNodeReturns, At
<1>2. /\ s.next = "report" /\ s.decision = requests[q].seen.decision
      /\ s.ticket = calls[q].number
  OBVIOUS
<1> HIDE DEF s
<1>3. Local(q, a) /\ Checkpointed(q, a) /\ SameTables(q, a) /\ requests'[q].seen = s
  BY <1>1, CheckpointIsLocal DEF ServiceInv
<1>4. ASSUME a \in assessments', PhaseOK(a) PROVE StateIsTrue(s, ticket_number'[a])
  <2>1. RequestOK(q, a)
    BY <1>4, SeenLasts
  <2>2. requests[q].seen.decision = "approved"
    BY <1>1, <2>1 DEF RequestOK, StateIsTrue
  <2>3. calls[q].assessment = a /\ a \in assessments
    BY <1>1, <1>4, TruthLasts DEF ServiceInv, DecisionsAreTraced
  <2>4. calls[q].number # 0 /\ calls[q].number = ticket_number[a]
    BY <1>1, <2>3 DEF ServiceInv, ToolInv, ReturnedTicketIsReal
  <2>5. ticket_number' = ticket_number
    BY <1>1 DEF toolVars
  <2> QED
    BY <1>2, <2>2, <2>4, <2>5 DEF StateIsTrue
<1> QED
  BY <1>1, <1>2, <1>3, <1>4, LaterNodeKeeps

LEMMA ReportNodeKeeps ==
  ASSUME ServiceInv, [Next]_vars, NEW q \in Callers, NEW a \in Assessments,
         requests[q].assessment = a, ReportNode(q)
  PROVE  /\ Local(q, a)
         /\ a \in assessments' /\ PhaseOK(a) => PhaseOK(a)' /\ (AloneOK(a) => AloneOK(a)')
<1> DEFINE s == [next |-> "end", decision |-> requests[q].seen.decision,
                 ticket |-> requests[q].seen.ticket]
<1>1. /\ requests[q].at = "report" /\ Checkpoint(q, s)
      /\ UNCHANGED <<toolVars, rows, history>>
  BY DEF ReportNode, At
<1>2. /\ s.next = "end" /\ s.decision = requests[q].seen.decision
      /\ s.ticket = requests[q].seen.ticket
  OBVIOUS
<1> HIDE DEF s
<1>3. Local(q, a) /\ Checkpointed(q, a) /\ SameTables(q, a) /\ requests'[q].seen = s
  BY <1>1, CheckpointIsLocal DEF ServiceInv
<1>4. ASSUME a \in assessments', PhaseOK(a) PROVE StateIsTrue(s, ticket_number'[a])
  <2>1. RequestOK(q, a) /\ StateIsTrue(requests[q].seen, ticket_number'[a])
    BY <1>4, SeenLasts
  <2> QED
    BY <1>1, <1>2, <2>1 DEF RequestOK, StateIsTrue
<1> QED
  BY <1>1, <1>2, <1>3, <1>4, LaterNodeKeeps

(* The tool has raised: invoke still waits for what there is to save. *)
LEMMA TicketNodeRaisesKeeps ==
  ASSUME ServiceInv, [Next]_vars, NEW q \in Callers, NEW a \in Assessments,
         requests[q].assessment = a, TicketNodeRaises(q)
  PROVE  /\ Local(q, a)
         /\ a \in assessments' /\ PhaseOK(a) => PhaseOK(a)' /\ (AloneOK(a) => AloneOK(a)')
<1>1. /\ requests[q].at = "tool" /\ Move(q, "raising")
      /\ UNCHANGED <<toolVars, thread, rows, history>>
  BY DEF TicketNodeRaises, At
<1>2. /\ Local(q, a) /\ SameThread(a) /\ SameTables(q, a)
      /\ requests'[q].at = "raising" /\ requests'[q].seen = requests[q].seen
  BY <1>1, MoveIsLocal DEF ServiceInv, SameTables, history
<1>3. checkpoints' = checkpoints /\ requests'[q].decision = requests[q].decision
  BY <1>2 DEF Local
<1>4. ASSUME a \in assessments', PhaseOK(a) PROVE PhaseOK(a)'
  <2>1. RequestOK(q, a) /\ StateIsTrue(requests[q].seen, ticket_number'[a])
    BY <1>4, SeenLasts
  <2>2. Unsaved(q, a)' <=> Unsaved(q, a)
    BY <1>2 DEF SameThread, Unsaved
  <2>3. RequestOK(q, a)'
    BY <1>1, <1>2, <1>3, <2>1, <2>2 DEF RequestOK, PastGate
  <2> QED
    BY <1>2, <1>4, <2>3, MoveKeepsPhase
<1>5. ASSUME a \in assessments', PhaseOK(a), AloneOK(a) PROVE AloneOK(a)'
  <2>1. /\ Follows(q, a)
        /\ \A c \in pending[a] : c.by = q
        /\ gate_writes[a] # "none" => checkpoints[a].next = "gate"
    BY <1>1, <1>5, AloneOf DEF OpenAt
  <2>2. Follows(q, a)'
    BY <1>1, <1>2, <1>3, <2>1, CutOffLasts DEF Follows, SameThread, PastGate, Honest
  <2>3. LeavesInOrder(q, a)
    BY <1>2, <1>3, <2>1, <2>2 DEF LeavesInOrder, SameThread, PastGate, RowIsDue
  <2>4. LeavesSealed(q, a)
    BY <1>1, <1>2, <1>5, SealedByMove DEF OpenAt, PastGate, SameTables
  <2> QED
    BY <1>1, <1>2, <1>5, <2>3, <2>4, AloneKept DEF OpenAt
<1> QED
  BY <1>2, <1>4, <1>5

(* invoke ends: nothing of its own is left to save, so the thread is past  *)
(* the gate.                                                               *)
LEMMA EndInvokeKeeps ==
  ASSUME ServiceInv, [Next]_vars, NEW q \in Callers, NEW a \in Assessments,
         requests[q].assessment = a, EndInvoke(q)
  PROVE  /\ Local(q, a)
         /\ a \in assessments' /\ PhaseOK(a) => PhaseOK(a)' /\ (AloneOK(a) => AloneOK(a)')
<1>1. PICK at : /\ \/ requests[q].at = "flush" /\ at = "read"
                   \/ requests[q].at = "raising" /\ at = "failed"
                /\ Move(q, at) /\ ~Unsaved(q, a)
                /\ UNCHANGED <<toolVars, thread, rows, history>>
  BY DEF EndInvoke, At
<1>2. /\ Local(q, a) /\ SameThread(a) /\ SameTables(q, a)
      /\ requests'[q].at = at /\ requests'[q].seen = requests[q].seen
  BY <1>1, MoveIsLocal DEF ServiceInv, SameTables, history
<1>3. checkpoints' = checkpoints /\ requests'[q].decision = requests[q].decision
  BY <1>2 DEF Local
<1>4. ASSUME a \in assessments', PhaseOK(a)
      PROVE  PhaseOK(a)' /\ checkpoints[a].next # "gate"
  <2>1. RequestOK(q, a) /\ StateIsTrue(requests[q].seen, ticket_number'[a])
    BY <1>4, SeenLasts
  <2>2. checkpoints[a].next # "gate"
    BY <1>1, <2>1 DEF RequestOK, PastGate
  <2>3. RequestOK(q, a)'
    BY <1>1, <1>2, <1>3, <2>1, <2>2 DEF RequestOK, PastGate
  <2> QED
    BY <1>2, <1>4, <2>2, <2>3, MoveKeepsPhase
<1>5. ASSUME a \in assessments', PhaseOK(a), AloneOK(a) PROVE AloneOK(a)'
  <2>1. /\ Follows(q, a)
        /\ \A c \in pending[a] : c.by = q
        /\ gate_writes[a] # "none" => checkpoints[a].next = "gate"
    BY <1>1, <1>5, AloneOf DEF OpenAt
  <2>2. pending[a] = {} /\ gate_writes[a] = "none"
    BY <1>1, <1>4, <1>5, <2>1 DEF Unsaved
  <2>3. requests[q].at = "flush" =>
          /\ checkpoints[a].next = "end"
          /\ checkpoints[a].decision = requests[q].seen.decision
          /\ Honest(q, a, requests[q].seen.decision)
    BY <2>1, <2>2 DEF Follows, PastGate
  <2>4. requests'[q].at \in OpenAt => Follows(q, a)'
    BY <1>1, <1>2, <1>3, <2>3, CutOffLasts DEF Follows, SameThread, PastGate, Honest, OpenAt
  <2>5. LeavesInOrder(q, a)
    BY <1>1, <1>2, <1>3, <2>2, <2>4 DEF LeavesInOrder, SameThread, PastGate, RowIsDue
  <2>6. LeavesSealed(q, a)
    BY <1>1, <1>2, <1>5, SealedByMove DEF OpenAt, PastGate, SameTables
  <2> QED
    BY <1>1, <1>2, <1>5, <2>5, <2>6, AloneKept DEF OpenAt
<1> QED
  BY <1>2, <1>4, <1>5


(* A request fails: what it had not saved is lost, and it is cut off.      *)
LEMMA RequestFailsKeeps ==
  ASSUME ServiceInv, [Next]_vars, NEW q \in Callers, NEW a \in Assessments,
         requests[q].assessment = a, RequestFails(q)
  PROVE  /\ Local(q, a)
         /\ a \in assessments' /\ PhaseOK(a) => PhaseOK(a)' /\ (AloneOK(a) => AloneOK(a)')
<1>1. /\ requests[q].at \in {"received", "accepted", "invoke", "flush", "raising",
                             "read", "persist"}
      /\ Abandon(q, "failed") /\ UNCHANGED <<toolVars, rows, resumed, overlapped>>
  BY DEF RequestFails
<1>2. /\ Local(q, a) /\ SameTables(q, a)
      /\ pending'[a] = {c \in pending[a] : c.by # q}
      /\ gate_writes'[a] = gate_writes[a]
      /\ a \in rolled_back' <=> a \in rolled_back \/ Unsaved(q, a)
      /\ requests'[q].at = "failed" /\ requests'[q].seen = requests[q].seen
  BY <1>1, AbandonIsLocal DEF ServiceInv
<1>3. checkpoints' = checkpoints /\ requests'[q].decision = requests[q].decision
  BY <1>2 DEF Local
<1>4. ASSUME a \in assessments', PhaseOK(a) PROVE PhaseOK(a)'
  BY <1>1, <1>2, <1>4, AbandonKeepsPhase
<1>5. ASSUME PhaseOK(a), AloneOK(a) PROVE AloneOK(a)'
  <2>1. requests[q].at \in OpenAt
    BY <1>1 DEF OpenAt
  <2>2. /\ Follows(q, a) /\ RequestOK(q, a)
        /\ \A c \in pending[a] : c.by = q
        /\ gate_writes[a] # "none" =>
             /\ checkpoints[a].next = "gate"
             /\ requests[q].at \notin PastGate =>
                  a \in rolled_back /\ gate_writes[a] \in DecisionsCutOff(a)
    BY <1>5, <2>1, AloneOf
  <2>3. pending'[a] = {} /\ (a \notin rolled_back' => pending[a] = {})
    BY <1>2, <2>2 DEF Unsaved
  <2>4. ASSUME gate_writes[a] # "none", requests[q].at \in PastGate
        PROVE  a \in rolled_back' /\ gate_writes[a] \in DecisionsCutOff(a)'
    <3>1. Unsaved(q, a)
      BY <2>2, <2>4 DEF RequestOK
    <3>2. Honest(q, a, gate_writes[a])
      BY <2>2, <2>4 DEF Follows
    <3>3. q \in CutOff(a)'
      <4>1. q \in resumed
        BY <2>1, <2>4 DEF ServiceInv, DecisionsAreTraced, AtRun, PastGate
      <4> QED
        BY <1>1, <1>2, <4>1 DEF CutOff, Local
    <3>4. requests[q].decision \in DecisionsCutOff(a)'
      BY <1>3, <3>3 DEF DecisionsCutOff
    <3> QED
      BY <1>2, <3>1, <3>2, <3>4, CutOffLasts DEF Honest
  <2>5. LeavesInOrder(q, a)
    BY <1>2, <1>3, <2>2, <2>3, <2>4, CutOffLasts
       DEF LeavesInOrder, PastGate, RowIsDue, OpenAt
  <2>6. MayBeTicketed(a)' => MayBeTicketed(a)
    BY <1>2, SameTickets DEF SameTables
  <2>7. LeavesSealed(q, a)
    BY <1>2, <1>3, <1>5, <2>1, <2>3, <2>6, AloneOf DEF LeavesSealed, PastGate
  <2> QED
    BY <1>2, <1>5, <2>1, <2>5, <2>7, AloneKept
<1> QED
  BY <1>2, <1>4, <1>5

(* What the gate returned is saved. *)
LEMMA PutWritesKeeps ==
  ASSUME ServiceInv, [Next]_vars, NEW q \in Callers, NEW a \in Assessments,
         requests[q].assessment = a, PutWrites(q)
  PROVE  /\ Local(q, a)
         /\ a \in assessments' /\ PhaseOK(a) => PhaseOK(a)' /\ (AloneOK(a) => AloneOK(a)')
<1>1. /\ requests[q].at \in PastGate /\ checkpoints[a].next = "gate"
      /\ gate_writes' = [gate_writes EXCEPT ![a] = requests[q].seen.decision]
      /\ UNCHANGED <<toolVars, checkpoints, pending, requests, rows, history>>
      /\ gate_writes \in [Assessments -> Decisions]
  BY DEF PutWrites, PastGate, ServiceInv, TypeOK
<1>2. /\ gate_writes'[a] = requests[q].seen.decision
      /\ \A b \in Assessments : b # a => gate_writes'[b] = gate_writes[b]
      /\ requests[q].at \in OpenAt
  BY <1>1 DEF PastGate, OpenAt
<1>3. Local(q, a)
  BY <1>1, <1>2 DEF Local, toolVars, history
<1>4. ASSUME a \in assessments', PhaseOK(a) PROVE PhaseOK(a)'
  <2>1. RequestOK(q, a)'
    BY <1>1, <1>4, SeenLasts DEF RequestOK, Unsaved
  <2>2. \A c \in pending'[a] : UnsavedOK(c, ticket_number'[a])
    BY <1>1, <1>4, TruthLasts DEF PhaseOK, UnsavedOK
  <2> QED
    BY <1>1, <1>3, <1>4, <2>1, <2>2, PhaseKept DEF Unsaved
<1>5. ASSUME PhaseOK(a), AloneOK(a) PROVE AloneOK(a)'
  <2>1. Follows(q, a) /\ \A c \in pending[a] : c.by = q
    BY <1>2, <1>5, AloneOf
  <2>2. Follows(q, a)'
    <3>1. requests[q].at \notin {"accepted", "invoke", "gate", "read", "persist"}
      BY <1>1 DEF PastGate
    <3>2. Honest(q, a, requests[q].seen.decision)'
      BY <1>1, <2>1, CutOffLasts DEF Follows, Honest, history
    <3> QED
      BY <1>1, <1>2, <2>1, <3>1, <3>2 DEF Follows
  <2>3. LeavesInOrder(q, a)
    BY <1>1, <2>1, <2>2 DEF LeavesInOrder, PastGate, RowIsDue
  <2>4. MayBeTicketed(a)' => MayBeTicketed(a)
    BY <1>1, <1>3, SameTickets DEF toolVars
  <2>5. LeavesSealed(q, a)
    BY <1>1, <1>2, <1>5, <2>4, AloneOf DEF LeavesSealed, history
  <2> QED
    BY <1>2, <1>3, <1>5, <2>3, <2>5, AloneKept
<1> QED
  BY <1>3, <1>4, <1>5

(* What is read after invoke is the thread at its end. *)
LEMMA ReadStateKeeps ==
  ASSUME ServiceInv, [Next]_vars, NEW q \in Callers, NEW a \in Assessments,
         requests[q].assessment = a, ReadState(q)
  PROVE  /\ Local(q, a)
         /\ a \in assessments' /\ PhaseOK(a) => PhaseOK(a)' /\ (AloneOK(a) => AloneOK(a)')
<1>1. /\ requests[q].at = "read" /\ MoveWith(q, "persist", checkpoints[a])
      /\ UNCHANGED <<toolVars, thread, rows, history>>
  BY DEF ReadState, At
<1>2. /\ Local(q, a) /\ SameThread(a) /\ SameTables(q, a)
      /\ requests'[q].at = "persist" /\ requests'[q].seen = checkpoints[a]
  BY <1>1, MoveWithIsLocal DEF ServiceInv
<1>3. checkpoints' = checkpoints /\ requests'[q].decision = requests[q].decision
  BY <1>2 DEF Local
<1>4. ASSUME a \in assessments', PhaseOK(a) PROVE PhaseOK(a)'
  <2>1. StateIsTrue(checkpoints[a], ticket_number'[a])
    BY <1>4, TruthLasts DEF PhaseOK
  <2>2. RequestOK(q, a)'
    BY <1>1, <1>2, <1>3, <1>4, <2>1, SeenLasts DEF RequestOK, PastGate
  <2> QED
    BY <1>2, <1>4, <2>2, MoveKeepsPhase
<1>5. ASSUME PhaseOK(a), AloneOK(a) PROVE AloneOK(a)'
  <2>1. /\ Follows(q, a) /\ pending[a] = {}
        /\ gate_writes[a] # "none" =>
             /\ checkpoints[a].next = "gate"
             /\ a \in rolled_back /\ gate_writes[a] \in DecisionsCutOff(a)
    BY <1>1, <1>5, AloneOf DEF OpenAt, PastGate
  <2>2. Follows(q, a)'
    BY <1>1, <1>2, <1>3, <2>1, CutOffLasts DEF Follows, Honest, PastGate, SameThread
  <2>3. LeavesInOrder(q, a)
    BY <1>1, <1>2, <1>3, <2>1, <2>2, CutOffLasts
       DEF LeavesInOrder, SameThread, PastGate, RowIsDue
  <2>4. LeavesSealed(q, a)
    BY <1>1, <1>2, <1>5, SealedByMove DEF OpenAt, PastGate, SameTables
  <2> QED
    BY <1>1, <1>2, <1>5, <2>3, <2>4, AloneKept DEF OpenAt
<1> QED
  BY <1>2, <1>4, <1>5

(* The row is written from the state that was read. *)
LEMMA PersistAndRespondKeeps ==
  ASSUME ServiceInv, [Next]_vars, NEW q \in Callers, NEW a \in Assessments,
         requests[q].assessment = a, PersistAndRespond(q)
  PROVE  /\ Local(q, a)
         /\ a \in assessments' /\ PhaseOK(a) => PhaseOK(a)' /\ (AloneOK(a) => AloneOK(a)')
<1>1. /\ requests[q].at = "persist" /\ Move(q, "answered") /\ a \in assessments
      /\ UNCHANGED <<toolVars, thread, overlapped, rolled_back>>
      /\ rows \in [Assessments -> RowType]
      /\ \A b \in Assessments : b # a => rows'[b] = rows[b]
  BY DEF PersistAndRespond, At, history, ServiceInv, TypeOK
<1>2. /\ Local(q, a) /\ SameThread(a)
      /\ calls'[q] = calls[q] /\ ticket_number'[a] = ticket_number[a]
      /\ requests'[q].at = "answered" /\ requests'[q].seen = requests[q].seen
  BY <1>1, MoveIsLocal DEF ServiceInv
<1>3. checkpoints' = checkpoints /\ requests'[q].decision = requests[q].decision
  BY <1>2 DEF Local
<1>4. ASSUME a \in assessments', PhaseOK(a) PROVE PhaseOK(a)'
  <2>1. RequestOK(q, a) /\ StateIsTrue(requests[q].seen, ticket_number'[a])
    BY <1>4, SeenLasts
  <2>2. RequestOK(q, a)'
    BY <1>1, <1>2, <1>3, <2>1 DEF RequestOK, PastGate
  <2> QED
    BY <1>2, <1>4, <2>2, MoveKeepsPhase
<1>5. ASSUME PhaseOK(a), AloneOK(a) PROVE AloneOK(a)'
  <2>1. /\ Follows(q, a) /\ pending[a] = {}
        /\ gate_writes[a] # "none" =>
             /\ checkpoints[a].next = "gate"
             /\ a \in rolled_back /\ gate_writes[a] \in DecisionsCutOff(a)
    BY <1>1, <1>5, AloneOf DEF OpenAt, PastGate
  <2>2. checkpoints[a].next = "end" /\ requests[q].seen = checkpoints[a]
    BY <1>1, <2>1 DEF Follows
  <2>3. RowTells(rows'[a], checkpoints[a])
    <3>1. rows' = [rows EXCEPT ![a] = [status   |-> "completed",
                                       decision |-> checkpoints[a].decision,
                                       ticket   |-> checkpoints[a].ticket]]
      BY <2>2 DEF PersistAndRespond, IsAwaitingApproval, StatusOf
    <3> QED
      BY <1>1, <2>2, <3>1 DEF RowTells
  <2>4. LeavesInOrder(q, a)
    BY <1>1, <1>2, <1>3, <2>1, <2>3, CutOffLasts
       DEF LeavesInOrder, SameThread, PastGate, RowIsDue, OpenAt
  <2>5. LeavesSealed(q, a)
    BY <1>1, <1>2, <1>5, SealedByMove DEF OpenAt, PastGate
  <2> QED
    BY <1>1, <1>2, <1>5, <2>4, <2>5, AloneKept DEF OpenAt
<1> QED
  BY <1>2, <1>4, <1>5

-----------------------------------------------------------------------------
(* Each step of a request leaves every assessment in order.                *)
LEMMA StepKeepsOrder ==
  ASSUME ServiceInv, [Next]_vars, PhaseInv, AloneInv, NEW q \in Callers, Step(q)
  PROVE  PhaseInv' /\ AloneInv'
<1>1. requests[q].at # "ready"
  <2>1. ToolRuns(q) => requests[q].at # "ready"
    BY DEF ToolRuns, At
  <2>2. PutWrites(q) \/ RequestFails(q) \/ EndInvoke(q) => requests[q].at # "ready"
    BY DEF PutWrites, RequestFails, EndInvoke, At
  <2>3. CASE ~(ToolRuns(q) \/ PutWrites(q) \/ RequestFails(q) \/ EndInvoke(q))
    BY <2>3 DEF Step, CheckAwaiting, CheckAgain, Invoke, ApprovalGate, CallTool,
                TicketNodeReturns, TicketNodeRaises, ReportNode, ReadState, PersistAndRespond, At
  <2> QED
    BY <2>1, <2>2, <2>3
<1>2. PICK a \in Assessments : requests[q].assessment = a
  BY <1>1 DEF ServiceInv, TypeOK
<1>3. /\ Local(q, a)
      /\ a \in assessments' /\ PhaseOK(a) => PhaseOK(a)' /\ (AloneOK(a) => AloneOK(a)')
  BY <1>2, CheckAwaitingKeeps, CheckAgainKeeps, InvokeKeeps, ApprovalGateKeeps, CallToolKeeps,
     ToolRunsKeeps, TicketNodeReturnsKeeps, TicketNodeRaisesKeeps, ReportNodeKeeps,
     EndInvokeKeeps, RequestFailsKeeps, PutWritesKeeps, ReadStateKeeps, PersistAndRespondKeeps
     DEF Step
<1>4. assessments' = assessments /\ overlapped' = overlapped
  BY <1>3 DEF Local
<1>5. ASSUME NEW b \in assessments', PhaseOK(b) PROVE PhaseOK(b)'
  <2>1. b \in Assessments
    BY <1>5, TruthLasts
  <2>2. CASE b = a
    BY <1>3, <1>5, <2>2
  <2>3. CASE b # a
    BY <1>3, <1>5, <2>1, <2>3, LocalIsStill, StillKeepsPhase
  <2> QED
    BY <2>2, <2>3
<1>6. ASSUME NEW b \in assessments', PhaseOK(b), AloneOK(b) PROVE AloneOK(b)'
  <2>1. b \in Assessments
    BY <1>6, TruthLasts
  <2>2. CASE b = a
    BY <1>3, <1>6, <2>2
  <2>3. CASE b # a
    BY <1>3, <1>6, <2>1, <2>3, LocalIsStill, StillKeepsAlone
  <2> QED
    BY <2>2, <2>3
<1> QED
  BY <1>4, <1>5, <1>6 DEF PhaseInv, AloneInv

(* A request comes: where one is open already, the two overlap.            *)
LEMMA SubmitKeepsOrder ==
  ASSUME ServiceInv, [Next]_vars, PhaseInv, AloneInv, NEW q \in Callers, NEW a \in Assessments,
         NEW decision \in {"approved", "denied"}, Submit(q, a, decision)
  PROVE  PhaseInv' /\ AloneInv'
<1>1. /\ requests[q].at = "ready" /\ requests \in [Callers -> RequestType]
      /\ overlapped' = IF RequestsOn(a) = {} THEN overlapped ELSE overlapped \cup {a}
      /\ UNCHANGED <<toolVars, thread, rows, rolled_back>>
  BY DEF Submit, At, ServiceInv, TypeOK
<1>2. /\ requests'[q] = [at |-> "received", assessment |-> a, decision |-> decision,
                         seen |-> Paused]
      /\ \A p \in Callers : p # q => requests'[p] = requests[p]
  BY <1>1 DEF Submit
<1>3. ~OpenCall(q)
  BY <1>1 DEF ServiceInv, DecisionsAreTraced, OpenCall, OpenStates
<1>4. ASSUME NEW b \in assessments', PhaseOK(b) PROVE PhaseOK(b)'
  <2>1. UNCHANGED <<ticket_number, checkpoints, pending>>
    BY <1>1 DEF toolVars, thread
  <2>2. ASSUME NEW p \in RequestsFor(b)' PROVE RequestOK(p, b)'
    <3>1. CASE p = q
      BY <1>2, <3>1 DEF RequestOK, StateIsTrue, Paused, PastGate
    <3>2. CASE p # q
      <4>1. requests'[p] = requests[p] /\ RequestOK(p, b)
        BY <1>2, <1>4, <2>2, <3>2 DEF RequestsFor, PhaseOK
      <4> QED
        BY <2>1, <4>1 DEF RequestOK, Unsaved
    <3> QED
      BY <3>1, <3>2
  <2> QED
    BY <1>4, <2>1, <2>2 DEF PhaseOK
<1>5. ASSUME NEW b \in Assessments, AloneOK(b), b \notin overlapped' PROVE AloneOK(b)'
  <2>1. UNCHANGED <<ticket_number, calls, checkpoints, pending, gate_writes>>
    BY <1>1 DEF toolVars, thread
  <2>2. /\ b # a => RequestsOn(b)' = RequestsOn(b)
        /\ b = a => RequestsOn(b) = {} /\ RequestsOn(b)' = {q}
        /\ RequestsOn(b) \subseteq RequestsOn(b)'
    BY <1>1, <1>2, <1>5 DEF RequestsOn, OpenRequest, OpenAt
  <2>3. ASSUME NEW p \in RequestsOn(b)' PROVE Follows(p, b)'
    <3>1. CASE p = q
      BY <1>2, <3>1 DEF Follows, PastGate
    <3>2. CASE p # q
      <4>1. requests'[p] = requests[p] /\ Follows(p, b)
        BY <1>2, <1>5, <2>3, <3>2 DEF RequestsOn, OpenRequest, AloneOK
      <4> QED
        BY <1>1, <2>1, <4>1, CutOffLasts DEF Follows, Honest
    <3> QED
      BY <3>1, <3>2
  <2>4. \A p \in RequestsOn(b) : requests'[p] = requests[p]
    BY <1>1, <1>2 DEF RequestsOn, OpenRequest, OpenAt
  <2>5. \A p \in RequestsOn(b)' : p \in RequestsOn(b) \/ requests'[p].at \notin PastGate
    BY <1>2 DEF RequestsOn, OpenRequest, PastGate
  <2>6. WritesOK(b)'
    BY <1>1, <1>5, <2>1, <2>2, <2>4, CutOffLasts DEF AloneOK, WritesOK
  <2>7. RowOK(b)'
    <3>1. \A p \in RequestsFor(b) : requests[p].at \in RowIsDue =>
            p \in RequestsFor(b)' /\ requests'[p].at \in RowIsDue
      BY <1>1, <1>2 DEF RequestsFor, RowIsDue, PastGate
    <3> QED
      BY <1>1, <1>5, <2>1, <3>1 DEF AloneOK, RowOK
  <2>8. MayBeTicketed(b)' => MayBeTicketed(b)
    BY <1>2, <1>3, <2>1 DEF MayBeTicketed, RequestsFor, Ticketed, OpenCall
  <2>9. Sealed(b) => Sealed(b)'
    BY <2>1, <2>4, <2>5 DEF Sealed
  <2>10. \A p, r \in RequestsOn(b)' : p = r
    BY <1>5, <2>2 DEF AloneOK
  <2>11. \A c \in pending'[b] : c.by \in RequestsOn(b)' /\ requests'[c.by].at \in PastGate
    BY <1>5, <2>1, <2>2, <2>4 DEF AloneOK
  <2> QED
    BY <1>1, <1>5, <2>3, <2>6, <2>7, <2>8, <2>9, <2>10, <2>11 DEF AloneOK
<1>6. assessments' = assessments /\ overlapped \subseteq overlapped'
  BY <1>1 DEF toolVars
<1>7. assessments \subseteq Assessments
  BY DEF ServiceInv, TypeOK, ToolTypeOK
<1> QED
  BY <1>4, <1>5, <1>6, <1>7 DEF PhaseInv, AloneInv

(* A checkpoint is saved: those before it are superseded, those after it   *)
(* keep their order.                                                       *)
LEMMA PutKeepsPhase ==
  ASSUME ServiceInv, [Next]_vars, NEW a \in Assessments, PutCheckpoint(a), PhaseOK(a)
  PROVE  PhaseOK(a)'
<1>0. TypeOK
  BY DEF ServiceInv
<1>1. PICK c \in pending[a] :
        /\ checkpoints'[a] = c.state
        /\ pending'[a] = {Since(c, e) : e \in {e \in pending[a] : e.nth > c.nth}}
  BY <1>0, WhatPutDoes
<1>2. UNCHANGED <<requests, ticket_number>>
  BY <1>0, WhatPutDoes DEF toolVars
<1>3. UnsavedOK(c, ticket_number[a])
  BY DEF PhaseOK
<1>4. \A d \in pending'[a] : UnsavedOK(d, ticket_number'[a])
  BY <1>1, <1>2 DEF PhaseOK, UnsavedOK, Since
<1>5. ASSUME NEW q \in RequestsFor(a)' PROVE RequestOK(q, a)'
  <2>1. RequestOK(q, a)
    BY <1>2, <1>5 DEF RequestsFor, PhaseOK
  <2> QED
    BY <1>1, <1>2, <1>3, <2>1 DEF RequestOK, UnsavedOK
<1> QED
  BY <1>1, <1>2, <1>3, <1>4, <1>5 DEF PhaseOK, UnsavedOK

LEMMA PutKeepsAlone ==
  ASSUME ServiceInv, [Next]_vars, NEW a \in Assessments, PutCheckpoint(a), PhaseOK(a),
         AloneOK(a)
  PROVE  AloneOK(a)'
<1>0. TypeOK
  BY DEF ServiceInv
<1>1. PICK c \in pending[a] :
        /\ checkpoints'[a] = c.state
        /\ pending'[a] = {Since(c, e) : e \in {e \in pending[a] : e.nth > c.nth}}
  BY <1>0, WhatPutDoes
<1>2. /\ gate_writes'[a] = "none"
      /\ UNCHANGED <<requests, ticket_number, calls, rows, rolled_back, resumed>>
  BY <1>0, WhatPutDoes DEF toolVars, history
<1>3. /\ RequestsOn(a)' = RequestsOn(a) /\ RequestsFor(a)' = RequestsFor(a)
      /\ DecisionsCutOff(a)' = DecisionsCutOff(a)
      /\ MayBeTicketed(a)' <=> MayBeTicketed(a)
  BY <1>2 DEF RequestsOn, RequestsFor, OpenRequest, DecisionsCutOff, CutOff, MayBeTicketed,
              Ticketed, OpenCall
<1>4. /\ c.by \in RequestsOn(a) /\ requests[c.by].at \in PastGate
      /\ \A q \in RequestsOn(a) : q = c.by
      /\ c.state.next # "gate"
  BY DEF AloneOK, PhaseOK, UnsavedOK
<1>5. \A d \in pending'[a] : \E e \in pending[a] :
        e.nth > c.nth /\ d = Since(c, e) /\ d.by = e.by /\ d.state = e.state
  BY <1>1 DEF Since
<1>6. pending[a] \subseteq UnsavedType
  BY <1>0 DEF TypeOK
<1>7. ASSUME NEW q \in RequestsOn(a) PROVE Follows(q, a)'
  <2>1. Follows(q, a) /\ requests[q].at \in PastGate
    BY <1>4, <1>7 DEF AloneOK
  <2>2. /\ \A d \in pending'[a] : d.state.decision = requests[q].seen.decision
        /\ checkpoints'[a].decision = requests[q].seen.decision
        /\ Honest(q, a, requests[q].seen.decision)
    BY <1>1, <1>5, <2>1 DEF Follows
  <2>3. ASSUME requests[q].at = "flush"
        PROVE  /\ pending'[a] = {} => checkpoints'[a].next = "end"
               /\ \A d \in pending'[a] :
                    (\A f \in pending'[a] : f.nth <= d.nth) => d.state.next = "end"
    <3>1. \A e \in pending[a] :
            (\A f \in pending[a] : f.nth <= e.nth) => e.state.next = "end"
      BY <2>1, <2>3 DEF Follows
    <3>2. \A e \in pending[a] : e.nth > c.nth => Since(c, e) \in pending'[a]
      BY <1>1
    <3>3. \A e \in pending[a] : e.nth \in Nat
      BY <1>6 DEF UnsavedType
    <3>4. ASSUME pending'[a] = {} PROVE checkpoints'[a].next = "end"
      <4>1. \A f \in pending[a] : f.nth <= c.nth
        <5>1. \A f \in pending[a] : ~(f.nth > c.nth)
          BY <3>2, <3>4
        <5> QED
          BY <3>3, <5>1
      <4> QED
        BY <1>1, <3>1, <4>1
    <3>5. ASSUME NEW d \in pending'[a], \A f \in pending'[a] : f.nth <= d.nth
          PROVE  d.state.next = "end"
      <4>1. PICK e \in pending[a] : e.nth > c.nth /\ d = Since(c, e) /\ d.state = e.state
        BY <1>5
      <4>2. d.nth = e.nth - c.nth
        BY <4>1 DEF Since
      <4>3. ASSUME NEW f \in pending[a] PROVE f.nth <= e.nth
        <5>1. CASE f.nth > c.nth
          <6>1. Since(c, f).nth <= d.nth /\ Since(c, f).nth = f.nth - c.nth
            BY <3>2, <3>5, <5>1 DEF Since
          <6> QED
            BY <3>3, <4>2, <6>1
        <5>2. CASE ~(f.nth > c.nth)
          BY <3>3, <4>1, <5>2
        <5> QED
          BY <5>1, <5>2
      <4> QED
        BY <3>1, <4>1, <4>3
    <3> QED
      BY <3>4, <3>5
  <2> QED
    BY <1>2, <1>3, <2>1, <2>2, <2>3 DEF Follows, Honest, PastGate
<1>8. RowOK(a)'
  <2>1. c.by \in RequestsFor(a) /\ requests[c.by].at \in RowIsDue
    BY <1>4 DEF RowIsDue, RequestsOn, RequestsFor
  <2> QED
    BY <1>2, <1>3, <2>1 DEF RowOK
<1>9. Sealed(a) => Sealed(a)'
  BY <1>1, <1>2, <1>3, <1>4, <1>5 DEF Sealed
<1>10. WritesOK(a)'
  BY <1>2 DEF WritesOK
<1>11. \A d \in pending'[a] : d.by \in RequestsOn(a)' /\ requests'[d.by].at \in PastGate
  BY <1>2, <1>3, <1>5 DEF AloneOK
<1> QED
  BY <1>2, <1>3, <1>7, <1>8, <1>9, <1>10, <1>11 DEF AloneOK

LEMMA PutKeepsOrder ==
  ASSUME ServiceInv, [Next]_vars, PhaseInv, AloneInv, NEW a \in Assessments, PutCheckpoint(a)
  PROVE  PhaseInv' /\ AloneInv'
<1>1. ASSUME NEW b \in Assessments, b # a PROVE Still(b)
  BY <1>1, WhatPutDoes DEF ServiceInv, Still, toolVars, history
<1>2. UNCHANGED <<assessments, overlapped>>
  BY WhatPutDoes DEF ServiceInv, toolVars, history
<1>3. assessments \subseteq Assessments
  BY DEF ServiceInv, TypeOK, ToolTypeOK
<1>4. PhaseInv'
  BY <1>1, <1>2, <1>3, PutKeepsPhase, StillKeepsPhase DEF PhaseInv
<1>5. AloneInv'
  BY <1>1, <1>2, <1>3, PutKeepsAlone, StillKeepsAlone DEF PhaseInv, AloneInv
<1> QED
  BY <1>4, <1>5

(* A deletion takes an assessment away, and leaves the others alone.       *)
LEMMA CleanupKeepsOrder ==
  ASSUME ServiceInv, [Next]_vars, PhaseInv, AloneInv, NEW a \in Assessments, Cleanup(a)
  PROVE  PhaseInv' /\ AloneInv'
<1>1. /\ checkpoints \in [Assessments -> CheckpointType]
      /\ gate_writes \in [Assessments -> Decisions] /\ ticket_number \in [Assessments -> Nat]
      /\ assessments \subseteq Assessments
  BY DEF ServiceInv, TypeOK, ToolTypeOK
<1>2. ASSUME NEW b \in Assessments, b # a PROVE Still(b)
  BY <1>1, <1>2 DEF Cleanup, DeleteAssessment, Still, history
<1>3. assessments' = assessments \ {a} /\ overlapped' = overlapped
  BY DEF Cleanup, DeleteAssessment, history
<1>4. PhaseInv'
  BY <1>1, <1>2, <1>3, StillKeepsPhase DEF PhaseInv
<1>5. AloneInv'
  BY <1>1, <1>2, <1>3, StillKeepsAlone DEF AloneInv
<1> QED
  BY <1>4, <1>5

(* A stop loses the open requests, and what was not saved.                 *)
LEMMA CrashKeepsOrder ==
  ASSUME ServiceInv, [Next]_vars, PhaseInv, AloneInv, Crash
  PROVE  PhaseInv' /\ AloneInv'
<1>1. /\ UNCHANGED <<calls, ticket_number, assessments, checkpoints, gate_writes, rows,
                     resumed, overlapped>>
      /\ \A b \in Assessments : /\ pending'[b] = {}
                                /\ b \in rolled_back' <=> b \in rolled_back \/ pending[b] # {}
      /\ requests \in [Callers -> RequestType]
  BY DEF Crash, toolVars, ServiceInv, TypeOK
<1>2. \A q \in Callers : /\ requests'[q].at = IF OpenRequest(q) THEN "lost" ELSE requests[q].at
                         /\ requests'[q].assessment = requests[q].assessment
                         /\ requests'[q].decision = requests[q].decision
                         /\ requests'[q].seen = requests[q].seen
  BY <1>1 DEF Crash, RequestType
<1>3. \A q \in Callers : requests'[q].at \notin OpenAt
  BY <1>2 DEF OpenRequest, OpenAt
<1>4. assessments \subseteq Assessments
  BY DEF ServiceInv, TypeOK, ToolTypeOK
<1>5. ASSUME NEW b \in assessments, PhaseOK(b) PROVE PhaseOK(b)'
  <2>1. ASSUME NEW q \in RequestsFor(b)' PROVE RequestOK(q, b)'
    <3>1. RequestOK(q, b) /\ q \in Callers
      BY <1>2, <1>5, <2>1 DEF RequestsFor, PhaseOK
    <3>2. requests'[q].at \notin OpenAt
      BY <1>3, <3>1
    <3>3. requests'[q].at # "ready" => requests[q].at # "ready"
      BY <1>2, <3>1 DEF OpenRequest, OpenAt
    <3> QED
      BY <1>1, <1>2, <3>1, <3>2, <3>3 DEF RequestOK, PastGate, OpenAt
  <2> QED
    BY <1>1, <1>4, <1>5, <2>1 DEF PhaseOK
<1>6. ASSUME NEW b \in Assessments, PhaseOK(b), AloneOK(b) PROVE AloneOK(b)'
  <2>1. RequestsOn(b)' = {}
    BY <1>3 DEF RequestsOn, OpenRequest
  <2>2. WritesOK(b)'
    <3>1. SUFFICES ASSUME gate_writes[b] # "none"
                   PROVE  /\ checkpoints[b].next = "gate"
                          /\ b \in rolled_back' /\ gate_writes[b] \in DecisionsCutOff(b)'
      BY <1>1 DEF WritesOK
    <3>2. CASE \A q \in RequestsOn(b) : requests[q].at \notin PastGate
      BY <1>6, <3>1, <3>2, HistoryGrows, CutOffLasts DEF AloneOK, WritesOK
    <3>3. ASSUME NEW q \in RequestsOn(b), requests[q].at \in PastGate
          PROVE  /\ checkpoints[b].next = "gate"
                 /\ b \in rolled_back' /\ gate_writes[b] \in DecisionsCutOff(b)'
      <4>1. /\ q \in Callers /\ requests[q].assessment = b /\ OpenRequest(q)
            /\ checkpoints[b].next = "gate"
        BY <1>6, <3>1, <3>3 DEF RequestsOn, AloneOK, WritesOK
      <4>2. RequestOK(q, b) /\ Follows(q, b)
        BY <1>6, <3>3, <4>1 DEF PhaseOK, AloneOK, RequestsFor
      <4>3. b \in rolled_back'
        BY <1>1, <3>3, <4>1, <4>2 DEF RequestOK, Unsaved
      <4>4. q \in CutOff(b)'
        <5>1. q \in resumed
          BY <3>3, <4>1 DEF ServiceInv, DecisionsAreTraced, AtRun, PastGate, OpenAt
        <5> QED
          BY <1>1, <1>2, <4>1, <5>1 DEF CutOff
      <4>5. requests[q].decision \in DecisionsCutOff(b)'
        BY <1>2, <4>1, <4>4 DEF DecisionsCutOff
      <4>6. Honest(q, b, gate_writes[b])
        BY <3>1, <3>3, <4>2 DEF Follows
      <4> QED
        BY <4>1, <4>3, <4>5, <4>6, CutOffLasts DEF Honest
    <3> QED
      BY <3>2, <3>3
  <2>3. RowOK(b)'
    <3>1. \A q \in RequestsFor(b) : requests[q].at \in RowIsDue =>
            q \in RequestsFor(b)' /\ requests'[q].at \in RowIsDue
      BY <1>2 DEF RequestsFor, RowIsDue, OpenRequest
    <3> QED
      BY <1>1, <1>6, <3>1 DEF AloneOK, RowOK
  <2>4. MayBeTicketed(b)' => MayBeTicketed(b)
    BY <1>1, <1>2 DEF MayBeTicketed, RequestsFor, Ticketed, OpenCall
  <2>5. b \notin rolled_back' /\ Sealed(b) => Sealed(b)'
    BY <1>1, <2>1 DEF Sealed
  <2> QED
    BY <1>1, <1>6, <2>1, <2>2, <2>3, <2>4, <2>5 DEF AloneOK
<1> QED
  BY <1>1, <1>4, <1>5, <1>6 DEF PhaseInv, AloneInv

-----------------------------------------------------------------------------
(* Only PersistAndRespond answers with 200.                                *)
LEMMA OnlyPersistAnswers ==
  ASSUME TypeOK, [Next]_vars, NEW q \in Callers, requests'[q].at = "answered",
         requests[q].at # "answered"
  PROVE  PersistAndRespond(q)
<1>0. requests \in [Callers -> RequestType]
  BY DEF TypeOK
<1>1. ASSUME NEW p \in Callers, NEW at, Move(p, at), at # "answered" PROVE FALSE
  BY <1>0, <1>1, MoveMoves
<1>2. ASSUME NEW p \in Callers, NEW at, NEW state, MoveWith(p, at, state), at # "answered"
      PROVE  FALSE
  BY <1>0, <1>2, MoveWithMoves
<1>3. ASSUME NEW p \in Callers, NEW state, Checkpoint(p, state),
             state.next \in {"ticket", "report", "end"}
      PROVE  FALSE
  BY <1>2, <1>3 DEF Checkpoint, Continuation
<1>4. ASSUME NEW p \in Callers, NEW a \in Assessments,
             NEW decision \in {"approved", "denied"}, Submit(p, a, decision)
      PROVE  FALSE
  BY <1>0, <1>4 DEF Submit
<1>5. ASSUME NEW p \in Callers,
             \/ CheckAwaiting(p) \/ CheckAgain(p) \/ CallTool(p) \/ TicketNodeRaises(p)
             \/ EndInvoke(p) \/ RequestFails(p) \/ ReadState(p)
      PROVE  FALSE
  BY <1>1, <1>2, <1>5 DEF CheckAwaiting, CheckAgain, CallTool, TicketNodeRaises, EndInvoke,
                          RequestFails, Abandon, ReadState
<1>6. ASSUME NEW p \in Callers, ApprovalGate(p) \/ TicketNodeReturns(p) \/ ReportNode(p)
      PROVE  FALSE
  BY <1>3, <1>6 DEF ApprovalGate, TicketNodeReturns, ReportNode, Decided
<1>7. ASSUME NEW p \in Callers, Invoke(p) PROVE FALSE
  <2> DEFINE loaded == checkpoints[requests[p].assessment]
  <2>1. requests[p].assessment \in Assessments
    BY <1>7 DEF Invoke, At, TypeOK
  <2>2. loaded.next \in {"gate", "ticket", "report", "end", "none"}
    BY <2>1 DEF TypeOK, CheckpointType
  <2>3. Continuation(loaded) # "answered"
    BY <2>2 DEF Continuation
  <2>4. \A d : Decided(d).next \in {"ticket", "report", "end"}
    BY DEF Decided
  <2> HIDE DEF loaded
  <2> QED
    BY <1>1, <1>2, <1>3, <1>7, <2>3, <2>4 DEF Invoke, loaded
<1>8. ASSUME NEW p \in Callers, PersistAndRespond(p) PROVE p = q
  BY <1>0, <1>8, MoveMoves DEF PersistAndRespond
<1>9. ASSUME NEW p \in Callers, ToolRuns(p) \/ PutWrites(p) PROVE FALSE
  BY <1>9 DEF ToolRuns, PutWrites, serviceVars
<1>10. ASSUME NEW a \in Assessments, PutCheckpoint(a) \/ Cleanup(a) PROVE FALSE
  BY <1>10 DEF PutCheckpoint, Cleanup
<1>11. CASE Crash
  BY <1>0, <1>11 DEF Crash, RequestType
<1>12. CASE UNCHANGED vars
  BY <1>12 DEF vars, serviceVars
<1> QED
  BY <1>4, <1>5, <1>6, <1>7, <1>8, <1>9, <1>10, <1>11, <1>12 DEF Next, Step

(* An answer that was honest when it was given stays so.                   *)
LEMMA AnswersStep ==
  OutcomeInv /\ ServiceInv /\ [Next]_vars => AnswerHonoursTheRequest'
<1> SUFFICES ASSUME OutcomeInv, ServiceInv, [Next]_vars, NEW q \in Callers,
                    requests'[q].at = "answered", NEW a, a = requests'[q].assessment,
                    NEW d, d = requests'[q].seen.decision
             PROVE  /\ Sent(a, d)'
                    /\ a \notin overlapped' => requests'[q].seen.next = "end" /\ Honest(q, a, d)'
  BY DEF AnswerHonoursTheRequest, Honest, Sent, DecisionsCutOff, CutOff
<1>0. TypeOK /\ DecisionsAreTraced /\ overlapped \subseteq overlapped'
  BY HistoryGrows DEF ServiceInv
<1>1. requests[q].at # "ready" => requests[q].assessment = a
  BY <1>0, RequestsStand
<1>3. ASSUME requests[q].at # "ready", requests'[q].seen = requests[q].seen,
             Sent(a, d), a \notin overlapped => requests[q].seen.next = "end" /\ Honest(q, a, d)
      PROVE  /\ Sent(a, d)'
             /\ a \notin overlapped' => requests'[q].seen.next = "end" /\ Honest(q, a, d)'
  <2>1. requests'[q].decision = requests[q].decision
    BY <1>0, <1>3, RequestsStand
  <2>2. Sent(a, d)'
    BY <1>0, <1>3, SentStands
  <2>3. Honest(q, a, d) => Honest(q, a, d)'
    BY <2>1, HistoryGrows, CutOffLasts DEF Honest
  <2> QED
    BY <1>0, <1>3, <2>1, <2>2, <2>3
<1>4. CASE requests[q].at = "answered"
  <2>1. requests'[q] = requests[q]
    BY <1>0, <1>4, RequestsStand DEF OpenRequest, OpenAt
  <2>2. Sent(a, d) /\ (a \notin overlapped => requests[q].seen.next = "end" /\ Honest(q, a, d))
    BY <1>1, <1>4, <2>1 DEF OutcomeInv, AnswerHonoursTheRequest, Honest
  <2> QED
    BY <1>3, <1>4, <2>1, <2>2
<1>5. CASE requests[q].at # "answered"
  <2>1. PersistAndRespond(q)
    BY <1>0, <1>5, OnlyPersistAnswers
  <2>2. /\ requests[q].at = "persist" /\ Move(q, "answered")
        /\ requests[q].assessment = a /\ a \in assessments
    BY <1>1, <2>1 DEF PersistAndRespond, At
  <2>3. requests'[q].seen = requests[q].seen
    BY <1>0, <2>2, MoveMoves DEF TypeOK
  <2>4. a \in Assessments /\ PhaseOK(a)
    BY <2>2 DEF OutcomeInv, PhaseInv, ServiceInv, TypeOK, ToolTypeOK
  <2>5. RequestOK(q, a) /\ requests[q].seen \in CheckpointType
    BY <1>0, <2>2, <2>4 DEF PhaseOK, RequestsFor, TypeOK, RequestType
  <2>6. d # "none"
    BY <2>2, <2>3, <2>5 DEF RequestOK, StateIsTrue, CheckpointType
  <2>7. Sent(a, d)
    BY <1>0, <2>2, <2>3, <2>6 DEF DecisionsAreTraced
  <2>8. ASSUME a \notin overlapped PROVE requests[q].seen.next = "end" /\ Honest(q, a, d)
    <3>1. AloneOK(a)
      BY <2>2, <2>8 DEF OutcomeInv, AloneInv
    <3>2. Follows(q, a)
      BY <2>2, <2>4, <3>1, AloneOf DEF OpenAt
    <3> QED
      BY <2>2, <2>3, <3>2 DEF Follows
  <2> QED
    BY <1>3, <2>2, <2>3, <2>7, <2>8
<1> QED
  BY <1>4, <1>5

LEMMA OutcomeStepInv == OutcomeInv /\ ServiceInv /\ [Next]_vars => OutcomeInv'
<1> SUFFICES ASSUME OutcomeInv, ServiceInv, [Next]_vars PROVE PhaseInv' /\ AloneInv'
  BY AnswersStep DEF OutcomeInv
<1>1. PhaseInv /\ AloneInv
  BY DEF OutcomeInv
<1>2. CASE UNCHANGED vars
  <2>1. ASSUME NEW b PROVE Still(b)
    BY <1>2 DEF vars, toolVars, serviceVars, thread, history, Still
  <2>2. UNCHANGED <<assessments, overlapped>> /\ assessments \subseteq Assessments
    BY <1>2 DEF vars, toolVars, serviceVars, history, ServiceInv, TypeOK, ToolTypeOK
  <2>3. PhaseInv'
    BY <1>1, <2>1, <2>2, StillKeepsPhase DEF PhaseInv
  <2>4. AloneInv'
    BY <1>1, <2>1, <2>2, StillKeepsAlone DEF AloneInv
  <2> QED
    BY <2>3, <2>4
<1> QED
  BY <1>1, <1>2, StepKeepsOrder, SubmitKeepsOrder, PutKeepsOrder, CleanupKeepsOrder,
     CrashKeepsOrder DEF Next

(* OutcomeInv is inductive, given ServiceInv. *)
THEOREM OutcomeInvariance == Spec => []OutcomeInv
BY OutcomeInitInv, OutcomeStepInv, ServiceInvariance, PTL DEF Spec

(* A finished thread is true to the table (report_node, ticket_node),      *)
(* whoever wrote its checkpoints and whatever was lost on the way.         *)
THEOREM ReportsAreTrue == Spec => []ReportNamesTheTicket
<1>1. OutcomeInv => ReportNamesTheTicket
  <2> SUFFICES ASSUME OutcomeInv, NEW a \in assessments, checkpoints[a].next = "end"
               PROVE  /\ checkpoints[a].decision = "approved" <=> checkpoints[a].ticket # 0
                      /\ checkpoints[a].ticket # 0 => checkpoints[a].ticket = ticket_number[a]
    BY DEF ReportNamesTheTicket
  <2> QED
    BY DEF OutcomeInv, PhaseInv, PhaseOK, StateIsTrue
<1> QED
  BY <1>1, OutcomeInvariance, PTL

(* A denial holds (approval_gate, ticket_node) wherever a stop or a        *)
(* failure struck, unless two requests were open at once or a checkpoint   *)
(* was lost before it was saved.                                           *)
THEOREM DenialHolds == Spec => []DenialHoldsUnlessDisturbed
<1>1. OutcomeInv => DenialHoldsUnlessDisturbed
  <2> SUFFICES ASSUME OutcomeInv, NEW a \in assessments \ (overlapped \cup rolled_back),
                      Denied(a), a \in Ticketed
               PROVE  FALSE
    BY DEF DenialHoldsUnlessDisturbed
  <2>1. Sealed(a)
    BY DEF OutcomeInv, AloneInv, AloneOK, MayBeTicketed
  <2> QED
    BY <2>1 DEF Sealed, Denied
<1> QED
  BY <1>1, OutcomeInvariance, PTL

(* What a 200 of submit_approval says: always a decision that was sent,    *)
(* and, to a request alone on its assessment, its own, or the one of a     *)
(* request that was cut off, where the gate's result outlived it.          *)
THEOREM AnswersAreHonest == Spec => []AnswerHonoursTheRequest
<1>1. OutcomeInv => AnswerHonoursTheRequest
  BY DEF OutcomeInv
<1> QED
  BY <1>1, OutcomeInvariance, PTL

(* The row agrees with the thread (_persist_and_respond) once every        *)
(* request was answered or refused, unless two were open at once.          *)
THEOREM RowsAgree == Spec => []RowAgreesUnlessDisturbed
<1>1. OutcomeInv => RowAgreesUnlessDisturbed
  <2> SUFFICES ASSUME OutcomeInv, NEW a \in assessments \ overlapped,
                      \A q \in Callers : requests[q].assessment = a =>
                        requests[q].at \in {"answered", "conflict"}
               PROVE  RowTells(rows[a], checkpoints[a])
    BY DEF RowAgreesUnlessDisturbed, RowTells, IsAwaitingApproval
  <2>1. RowOK(a)
    BY DEF OutcomeInv, AloneInv, AloneOK
  <2> QED
    BY <2>1 DEF RowOK, RequestsFor, RowIsDue, PastGate
<1> QED
  BY <1>1, OutcomeInvariance, PTL
=============================================================================
