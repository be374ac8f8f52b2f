---------------------------- MODULE ApprovalService ----------------------------
(***************************************************************************)
(* POST /assessments/{id}/approval, many requests at once, on assessments  *)
(* whose run is paused at the approval gate.  FastAPI runs each request on *)
(* a worker thread; nothing locks an assessment between the check that it  *)
(* is paused and the resumed run.                                          *)
(*                                                                         *)
(* Three stores are involved: the LangGraph checkpoints (the thread of an  *)
(* assessment is its newest checkpoint, whoever wrote it), the             *)
(* change_tickets table, reached through ChangeTicketTool, and the         *)
(* assessments row, written last.                                          *)
(*                                                                         *)
(* An invoke works from the checkpoint it loaded (`seen`).  After every    *)
(* node it makes a new one and goes on: the code calls graph.invoke        *)
(* without asking for more, and LangGraph then saves the checkpoints       *)
(* behind the run's back, and separately what a node returned.  The invoke *)
(* waits for them only at its end; what a stop or a failing write finds    *)
(* unsaved is lost, whatever the nodes have done meanwhile.                *)
(*                                                                         *)
(* The callers of the ticket tool are the requests.                        *)
(***************************************************************************)
EXTENDS ChangeTicketTool

CONSTANT MaxCrashes   \* bound: how often the process stops

ASSUME ServiceAssumption == MaxCrashes \in Nat

VARIABLES
  checkpoints,  \* assessment -> the newest saved checkpoint of its thread
  pending,      \* assessment -> newer ones not saved yet: the nth made since, by whom
  gate_writes,  \* assessment -> what a gate run on the saved checkpoint returned, if saved
  requests,     \* request -> where it stands, what it asks, what it has seen
  rows,         \* assessment -> status, and decision and ticket of its report
  resumed,      \* history: requests whose decision was handed to the graph
  overlapped,   \* history: assessments that had two requests open at once
  rolled_back,  \* history: assessments that lost a checkpoint before it was saved
  crashes       \* history: process stops so far

thread == <<checkpoints, pending, gate_writes>>
history == <<resumed, overlapped, rolled_back, crashes>>
serviceVars == <<thread, requests, rows, history>>
vars == <<toolVars, serviceVars>>

(* next: the node the thread runs next.  decision and ticket: the channels *)
(* approval_decision and ticket_record.                                    *)
Paused == [next |-> "gate", decision |-> "none", ticket |-> 0]

\* what is read of a thread whose checkpoints were deleted
Gone == [next |-> "none", decision |-> "none", ticket |-> 0]

Unsent == [at |-> "ready", assessment |-> "none", decision |-> "none", seen |-> Paused]

OpenAt == {"received", "accepted", "invoke", "gate", "ticket", "tool", "report",
           "flush", "raising", "read", "persist"}

OpenRequest(q) == requests[q].at \in OpenAt

RequestsOn(a) == {q \in Callers : OpenRequest(q) /\ requests[q].assessment = a}

\* a variant that asks whether anything is left to run
IsAwaitingApproval_unfinished(a) == checkpoints[a].next # "end"

IsAwaitingApproval(a) == checkpoints[a].next = "gate"

Move(q, at) == requests' = [requests EXCEPT ![q].at = at]

At(q, at) == requests[q].at = at

MoveWith(q, at, state) ==
  requests' = [requests EXCEPT ![q].at = at, ![q].seen = state]

\* a variant that does not see that the run is over
Continuation_endless(state) == state.next

(* What an invoke does with a checkpoint: run its next node, or, when      *)
(* nothing is left, wait until everything is saved.                        *)
Continuation(state) == IF state.next = "end" THEN "flush" ELSE state.next

(* A node has finished: the run goes on from a new checkpoint, newer than  *)
(* all there are.                                                          *)
Checkpoint(q, state) ==
  LET a == requests[q].assessment
  IN  /\ \E n \in {1} \cup {c.nth + 1 : c \in pending[a]} :
           /\ \A c \in pending[a] : c.nth < n
           /\ pending' = [pending EXCEPT
                ![a] = @ \cup {[nth |-> n, by |-> q, state |-> state]}]
      /\ MoveWith(q, Continuation(state), state)
      /\ UNCHANGED <<checkpoints, gate_writes>>

Unsaved(q, a) == \E c \in pending[a] : c.by = q

(* The run is over, or failed: what it could not save is lost. *)
Abandon(q, at) ==
  LET a == requests[q].assessment
  IN  /\ pending' = [pending EXCEPT ![a] = {c \in @ : c.by # q}]
      /\ rolled_back' = IF Unsaved(q, a) THEN rolled_back \cup {a} ELSE rolled_back
      /\ Move(q, at)
      /\ UNCHANGED <<checkpoints, gate_writes>>

-----------------------------------------------------------------------------
Submit(q, a, decision) ==
  /\ At(q, "ready")
  /\ a \in assessments
  /\ requests' = [requests EXCEPT
       ![q] = [at |-> "received", assessment |-> a, decision |-> decision, seen |-> Paused]]
  /\ overlapped' = IF RequestsOn(a) = {} THEN overlapped ELSE overlapped \cup {a}
  /\ UNCHANGED <<toolVars, thread, rows, resumed, rolled_back, crashes>>

(* submit_approval: 409 unless the thread is paused. *)
CheckAwaiting(q) ==
  /\ At(q, "received")
  /\ Move(q, IF IsAwaitingApproval(requests[q].assessment) THEN "accepted" ELSE "conflict")
  /\ UNCHANGED <<toolVars, thread, rows, history>>

(* resume_with_decision checks again; its ValueError becomes a 500. *)
CheckAgain(q) ==
  /\ At(q, "accepted")
  /\ IF IsAwaitingApproval(requests[q].assessment)
     THEN Move(q, "invoke") /\ resumed' = resumed \cup {q}
     ELSE Move(q, "failed") /\ UNCHANGED resumed
  /\ UNCHANGED <<toolVars, thread, rows, overlapped, rolled_back, crashes>>

Decided(decision) ==
  [next     |-> IF decision = "approved" THEN "ticket" ELSE "report",
   decision |-> decision,
   ticket   |-> 0]

(* graph.invoke loads the newest checkpoint and runs whatever comes next   *)
(* there.  When what a gate returned was saved with it, the gate is not    *)
(* run again: that decision is merged, whatever this request says.  A      *)
(* thread that is gone has nothing to resume.                              *)
Invoke(q) ==
  LET a == requests[q].assessment
      loaded == checkpoints[a]
  IN  /\ At(q, "invoke")
      /\ IF loaded.next = "gate" /\ gate_writes[a] # "none"
         THEN Checkpoint(q, Decided(gate_writes[a]))
         ELSE /\ IF loaded.next = "none" THEN Move(q, "failed")
                                         ELSE MoveWith(q, Continuation(loaded), loaded)
              /\ UNCHANGED thread
      /\ UNCHANGED <<toolVars, rows, history>>

\* a variant that takes any answer for a yes
ApprovalGate_truthy(q) ==
  /\ At(q, "gate")
  /\ Checkpoint(q, Decided("approved"))
  /\ UNCHANGED <<toolVars, rows, history>>

ApprovalGate(q) ==
  /\ At(q, "gate")
  /\ Checkpoint(q, Decided(requests[q].decision))
  /\ UNCHANGED <<toolVars, rows, history>>

CallTool(q) ==
  /\ At(q, "ticket")
  /\ requests[q].seen.decision = "approved"
  /\ Call(q, requests[q].assessment)
  /\ Move(q, "tool")
  /\ UNCHANGED <<thread, rows, history>>

(* The tool runs on the request's thread.  Of a thread that is gone the    *)
(* database may still get the commit; otherwise it rolls back.             *)
ToolRuns(q) ==
  /\ \/ At(q, "tool") /\ ToolStep(q)
     \/ At(q, "lost") /\ (Commit(q) \/ DatabaseError(q))
  /\ UNCHANGED serviceVars

\* a variant that leaves the ticket out of what the node returns
TicketNodeReturns_nothing(q) ==
  /\ At(q, "tool")
  /\ calls[q].at = "returned"
  /\ Checkpoint(q, [next |-> "report", decision |-> requests[q].seen.decision, ticket |-> 0])
  /\ UNCHANGED <<toolVars, rows, history>>

TicketNodeReturns(q) ==
  /\ At(q, "tool")
  /\ calls[q].at = "returned"
  /\ Checkpoint(q, [next |-> "report", decision |-> requests[q].seen.decision,
                     ticket |-> calls[q].number])
  /\ UNCHANGED <<toolVars, rows, history>>

\* a variant that pauses the thread again, for the human to have another try
TicketNodeRaises_pausing(q) ==
  LET a == requests[q].assessment
  IN  /\ At(q, "tool")
      /\ calls[q].at = "raised"
      /\ checkpoints' = [checkpoints EXCEPT ![a] = Paused]
      /\ pending' = [pending EXCEPT ![a] = {}]
      /\ Move(q, "failed")
      /\ UNCHANGED <<toolVars, gate_writes, rows, history>>

(* The exception leaves the run where it was and becomes a 500. *)
TicketNodeRaises(q) ==
  /\ At(q, "tool")
  /\ calls[q].at = "raised"
  /\ Move(q, "raising")
  /\ UNCHANGED <<toolVars, thread, rows, history>>

ReportNode(q) ==
  /\ At(q, "report")
  /\ Checkpoint(q, [next |-> "end", decision |-> requests[q].seen.decision,
                     ticket |-> requests[q].seen.ticket])
  /\ UNCHANGED <<toolVars, rows, history>>

(* invoke returns, or raises, once all its checkpoints are saved. *)
EndInvoke(q) ==
  /\ \/ At(q, "flush") /\ Move(q, "read")
     \/ At(q, "raising") /\ Move(q, "failed")
  /\ ~Unsaved(q, requests[q].assessment)
  /\ UNCHANGED <<toolVars, thread, rows, history>>

(* A statement of the request's own fails, or one of those that save its   *)
(* checkpoints, which invoke raises at its end: a 500.                     *)
RequestFails(q) ==
  /\ requests[q].at \in {"received", "accepted", "invoke", "flush", "raising",
                         "read", "persist"}
  /\ Abandon(q, "failed")
  /\ UNCHANGED <<toolVars, rows, resumed, overlapped, crashes>>

(* Behind the runs' backs: a checkpoint is saved and is the newest of its  *)
(* thread; those made before it no longer matter.                          *)
PutCheckpoint(a) ==
  /\ \E c \in pending[a] :
       LET later == {d \in pending[a] : d.nth > c.nth}
       IN  /\ checkpoints' = [checkpoints EXCEPT ![a] = c.state]
           /\ pending' = [pending EXCEPT
                ![a] = {[d EXCEPT !.nth = @ - c.nth] : d \in later}]
  /\ gate_writes' = [gate_writes EXCEPT ![a] = "none"]
  /\ UNCHANGED <<toolVars, requests, rows, history>>

(* What the gate of a run returned is saved beside the checkpoint it ran   *)
(* on, unless another's is there already.                                  *)
PutWrites(q) ==
  LET a == requests[q].assessment
  IN  /\ requests[q].at \in {"ticket", "tool", "report", "flush", "raising"}
      /\ checkpoints[a].next = "gate"
      /\ gate_writes[a] = "none"
      /\ gate_writes' = [gate_writes EXCEPT ![a] = requests[q].seen.decision]
      /\ UNCHANGED <<toolVars, checkpoints, pending, requests, rows, history>>

(* get_assessment_state, after invoke: the newest checkpoint again. *)
ReadState(q) ==
  /\ At(q, "read")
  /\ MoveWith(q, "persist", checkpoints[requests[q].assessment])
  /\ UNCHANGED <<toolVars, thread, rows, history>>

(* state["status"], as the last node to write it left it. *)
StatusOf(state) ==
  CASE state.next = "gate"   -> "reviewing"
    [] state.next = "ticket" -> "approved"
    [] state.next = "report" -> IF state.decision = "approved" THEN "reporting" ELSE "rejected"
    [] state.next \in {"end", "none"} -> "completed"

\* a variant that saves the status without the report
PersistAndRespond_status_only(q) ==
  /\ At(q, "persist")
  /\ rows' = [rows EXCEPT ![requests[q].assessment].status = StatusOf(requests[q].seen)]
  /\ Move(q, "answered")
  /\ UNCHANGED <<toolVars, thread, history>>

(* The row is updated last, with the state that was read; the update of a  *)
(* row that was deleted raises (RequestFails).                             *)
PersistAndRespond(q) ==
  LET a == requests[q].assessment
      state == requests[q].seen
      status == IF IsAwaitingApproval(a) THEN "awaiting_approval" ELSE StatusOf(state)
  IN  /\ At(q, "persist")
      /\ a \in assessments
      /\ rows' = [rows EXCEPT ![a] =
           IF state.next = "end"
           THEN [status |-> status, decision |-> state.decision, ticket |-> state.ticket]
           ELSE [@ EXCEPT !.status = status]]
      /\ Move(q, "answered")
      /\ UNCHANGED <<toolVars, thread, history>>

(* The API process stops and starts again: every open request is gone, and *)
(* every checkpoint that was not saved.                                    *)
Crash ==
  /\ crashes < MaxCrashes
  /\ \E q \in Callers : OpenRequest(q)
  /\ crashes' = crashes + 1
  /\ requests' = [q \in Callers |->
       IF OpenRequest(q) THEN [requests[q] EXCEPT !.at = "lost"] ELSE requests[q]]
  /\ pending' = [a \in Assessments |-> {}]
  /\ rolled_back' = rolled_back \cup {a \in Assessments : pending[a] # {}}
  /\ UNCHANGED <<toolVars, checkpoints, gate_writes, rows, resumed, overlapped>>

(* cleanup() of the evaluation harness deletes assessments, their tickets  *)
(* and their checkpoints, without a look at who works on them.             *)
Cleanup(a) ==
  /\ DeleteAssessment(a)
  /\ checkpoints' = [checkpoints EXCEPT ![a] = Gone]
  /\ gate_writes' = [gate_writes EXCEPT ![a] = "none"]
  /\ UNCHANGED <<pending, requests, rows, history>>

-----------------------------------------------------------------------------
Init ==
  /\ ToolInit
  /\ checkpoints = [a \in Assessments |-> Paused]
  /\ pending = [a \in Assessments |-> {}]
  /\ gate_writes = [a \in Assessments |-> "none"]
  /\ requests = [q \in Callers |-> Unsent]
  /\ rows = [a \in Assessments |->
               [status |-> "awaiting_approval", decision |-> "none", ticket |-> 0]]
  /\ resumed = {}
  /\ overlapped = {}
  /\ rolled_back = {}
  /\ crashes = 0

Step(q) ==
  \/ CheckAwaiting(q) \/ CheckAgain(q) \/ Invoke(q) \/ ApprovalGate(q)
  \/ CallTool(q) \/ ToolRuns(q) \/ TicketNodeReturns(q) \/ TicketNodeRaises(q)
  \/ ReportNode(q) \/ EndInvoke(q) \/ RequestFails(q) \/ PutWrites(q)
  \/ ReadState(q) \/ PersistAndRespond(q)

Next ==
  \/ \E q \in Callers, a \in Assessments, decision \in {"approved", "denied"} :
       Submit(q, a, decision)
  \/ \E q \in Callers : Step(q)
  \/ \E a \in Assessments : PutCheckpoint(a) \/ Cleanup(a)
  \/ Crash

Spec == Init /\ [][Next]_vars
-----------------------------------------------------------------------------
Decisions == {"none", "approved", "denied"}

CheckpointType ==
  [next : {"gate", "ticket", "report", "end", "none"}, decision : Decisions, ticket : Nat]

UnsavedType == [nth : Nat, by : Callers, state : CheckpointType]

RequestType ==
  [at         : OpenAt \cup {"ready", "conflict", "failed", "answered", "lost"},
   assessment : Assessments \cup {"none"},
   decision   : Decisions,
   seen       : CheckpointType]

RowType ==
  [status   : {"awaiting_approval", "reviewing", "approved", "rejected", "reporting",
               "completed"},
   decision : Decisions,
   ticket   : Nat]

(* Every variable keeps its shape, and a request that was sent names an    *)
(* assessment.                                                             *)
TypeOK ==
  /\ ToolTypeOK
  /\ checkpoints \in [Assessments -> CheckpointType]
  /\ pending \in [Assessments -> SUBSET UnsavedType]
  /\ gate_writes \in [Assessments -> Decisions]
  /\ requests \in [Callers -> RequestType]
  /\ \A q \in Callers : requests[q].at # "ready" => requests[q].assessment \in Assessments
  /\ rows \in [Assessments -> RowType]
  /\ resumed \subseteq Callers
  /\ overlapped \subseteq Assessments
  /\ rolled_back \subseteq Assessments
  /\ crashes \in 0..MaxCrashes

(* A request that sent this decision got as far as resuming the assessment. *)
Sent(a, decision) ==
  \E q \in resumed : requests[q].assessment = a /\ requests[q].decision = decision

Approved(a) == Sent(a, "approved")

(* The safety property the code guards twice: whatever requests, crashes,  *)
(* refused inserts and resumed threads have come together, an assessment   *)
(* with a ticket is one that some request approved.                        *)
NoTicketWithoutApproval == \A a \in Ticketed : Approved(a)

(* What makes it inductive: a decision in a checkpoint, in what a gate     *)
(* returned, or in what a request works from, and a call of the ticket     *)
(* tool, all go back to a request that was let through.                    *)
AtRun == OpenAt \ {"received", "accepted"}

DecisionsAreTraced ==
  /\ \A q \in resumed : requests[q].at # "ready"
  /\ \A q \in Callers : requests[q].at \in AtRun => q \in resumed
  /\ \A a \in Assessments :
       /\ checkpoints[a].decision # "none" => Sent(a, checkpoints[a].decision)
       /\ gate_writes[a] # "none" => Sent(a, gate_writes[a])
       /\ \A c \in pending[a] : c.state.decision # "none" => Sent(a, c.state.decision)
  /\ \A q \in Callers : requests[q].seen.decision # "none" =>
       Sent(requests[q].assessment, requests[q].seen.decision)
  /\ \A q \in Callers : calls[q].at # "ready" =>
       /\ requests[q].at # "ready"
       /\ calls[q].assessment = requests[q].assessment
       /\ Approved(requests[q].assessment)

ServiceInv == TypeOK /\ ToolInv /\ DecisionsAreTraced /\ NoTicketWithoutApproval

(* A finished thread is true to the table, even when two requests wrote    *)
(* its checkpoints in turn: its report says approved exactly when it names *)
(* a ticket, and then that is the ticket the assessment has.               *)
ReportNamesTheTicket ==
  \A a \in assessments : checkpoints[a].next = "end" =>
    /\ checkpoints[a].decision = "approved" <=> checkpoints[a].ticket # 0
    /\ checkpoints[a].ticket # 0 => checkpoints[a].ticket = ticket_number[a]

Denied(a) == checkpoints[a].next = "end" /\ checkpoints[a].decision = "denied"

(* As long as requests come one at a time and no checkpoint was lost, a    *)
(* denied assessment has no ticket: not after a stop that found everything *)
(* saved, nor after a ticket that was committed by a call that raised.     *)
DenialHoldsUnlessDisturbed ==
  \A a \in assessments \ (overlapped \cup rolled_back) : Denied(a) => a \notin Ticketed

(* A request answered with 200 is answered with a decision that a request  *)
(* let through has sent.  Alone on its assessment, it is answered with a   *)
(* finished run, and with its own decision, unless that run merged what    *)
(* the gate had returned to an earlier request, one that was cut off       *)
(* before its checkpoint was saved.                                        *)
CutOff(a) ==
  {q \in resumed : requests[q].assessment = a /\ requests[q].at \in {"lost", "failed"}}

DecisionsCutOff(a) == {requests[q].decision : q \in CutOff(a)}

AnswerHonoursTheRequest ==
  \A q \in Callers : requests[q].at = "answered" =>
    LET a == requests[q].assessment
        decision == requests[q].seen.decision
    IN  /\ Sent(a, decision)
        /\ a \notin overlapped =>
             /\ requests[q].seen.next = "end"
             /\ \/ decision = requests[q].decision
                \/ a \in rolled_back /\ decision \in DecisionsCutOff(a)

(* When nobody is working on an assessment, no two requests overlapped on  *)
(* it, and none was lost or failed: the row tells what the thread tells.   *)
RowAgreesUnlessDisturbed ==
  \A a \in assessments \ overlapped :
    (\A q \in Callers : requests[q].assessment = a =>
        requests[q].at \in {"answered", "conflict"}) =>
      /\ rows[a].status = IF IsAwaitingApproval(a) THEN "awaiting_approval" ELSE "completed"
      /\ rows[a].decision = checkpoints[a].decision
      /\ rows[a].ticket = checkpoints[a].ticket

-----------------------------------------------------------------------------
(* "Human approval was required and not granted, so no change ticket was   *)
(* created", says the report of a denied assessment.                       *)
DenialHasNoTicket == \A a \in assessments : Denied(a) => a \notin Ticketed
=============================================================================
