----------------------- MODULE AssessmentWorkflowProofs -----------------------
(***************************************************************************)
(* One assessment, for any drafts, any revision budget and any number of   *)
(* process stops: the channels keep their types through every superstep,   *)
(* and a ticket rests on a request, a human's yes, and a run that still    *)
(* stands by it, unless a stop or a failed save took the decision back.    *)
(*                                                                         *)
(* A run that fails or is stopped is again what was saved of it, so every  *)
(* invariant of the run has a counterpart for what is saved (SavedInv,     *)
(* SavedContent, SavedCount).                                              *)
(*                                                                         *)
(* What the report says is grounded in what was retrieved, its approval    *)
(* block is true of its own content, and what was decided on is what was   *)
(* shown.  Each is true of the report because it is true, from some        *)
(* superstep on, of the channels the report is made of, and before that of *)
(* what the node that establishes it has returned and EndOfStep has yet to *)
(* merge (ContentInv).                                                     *)
(*                                                                         *)
(* Then how often the planner has run, from the audit trail (CountInv),    *)
(* and that the row keeps up with the thread (RowInv).                     *)
(***************************************************************************)
EXTENDS AssessmentWorkflow, TLAPS

Channels == DOMAIN InitialState

Supersteps ==
  {{}, {"retrieve"}, {"architecture", "security"}, {"planner"}, {"reviewer"},
   {"approval_gate"}, {"ticket"}, {"report"}}

(* The channels a node returns. *)
Channel ==
  [retrieve      |-> {"retrieved_evidence", "status"},
   architecture  |-> {"architecture_findings"},
   security      |-> {"risk_findings"},
   planner       |-> {"modernization_plan", "status"},
   reviewer      |-> {"review_decision", "modernization_plan", "architecture_findings",
                      "risk_findings", "revision_count", "will_revise"},
   approval_gate |-> {"approval_request", "approval_decision", "status"},
   ticket        |-> {"ticket_record", "status"},
   report        |-> {"final_report", "status"}]

Returns(n) == Channel[n]

(* An update that node n may return, sent being the decisions so far. *)
UpdateOK(n, update, sent) ==
  /\ DOMAIN update = Returns(n)
  /\ "status" \in Returns(n) => update["status"] \in Statuses
  /\ "revision_count" \in Returns(n) => update["revision_count"] \in 0..max_revisions
  /\ "approval_decision" \in Returns(n) =>
       /\ update["approval_decision"] \in Decisions \cup {None}
       /\ update["approval_decision"] = "approved" =>
            "approved" \in sent /\ update["approval_request"] # NoRequest

StateOK(s, sent) ==
  /\ DOMAIN s = Channels
  /\ s["status"] \in Statuses
  /\ s["revision_count"] \in 0..max_revisions
  /\ s["approval_decision"] \in Decisions \cup {None}
  /\ s["approval_decision"] = "approved" =>
       "approved" \in sent /\ s["approval_request"] # NoRequest

LEMMA ChannelsAre ==
  Channels = {"status", "retrieved_evidence", "architecture_findings", "risk_findings",
              "modernization_plan", "review_decision", "revision_count", "will_revise",
              "approval_request", "approval_decision", "ticket_record", "final_report"}
BY DEF Channels, InitialState

LEMMA ReturnsAre ==
  /\ Returns("retrieve") = {"retrieved_evidence", "status"}
  /\ Returns("architecture") = {"architecture_findings"}
  /\ Returns("security") = {"risk_findings"}
  /\ Returns("planner") = {"modernization_plan", "status"}
  /\ Returns("reviewer") = {"review_decision", "modernization_plan",
                            "architecture_findings", "risk_findings",
                            "revision_count", "will_revise"}
  /\ Returns("approval_gate") = {"approval_request", "approval_decision", "status"}
  /\ Returns("ticket") = {"ticket_record", "status"}
  /\ Returns("report") = {"final_report", "status"}
BY DEF Returns, Channel

LEMMA ReturnsAreChannels == \A n \in Nodes : Returns(n) \subseteq Channels
BY ChannelsAre, ReturnsAre DEF Nodes

(* No two nodes of one superstep write the same channel. *)
LEMMA WritersAreDistinct ==
  ASSUME NEW T \in Supersteps, NEW m \in T, NEW n \in T, NEW c \in Returns(m) \cap Returns(n)
  PROVE  m = n
BY ReturnsAre DEF Supersteps

LEMMA SupersteppedNodes == \A T \in Supersteps : T \subseteq Nodes
BY DEF Supersteps, Nodes

(* Where the graph goes from a superstep that has ended in state s. *)
NextNodes(T, s) == UNION {Successors(n, s) : n \in T}

LEMMA NextSuperstep ==
  ASSUME NEW T \in Supersteps, NEW s, NEW U, U = NextNodes(T, s)
  PROVE  /\ U \in Supersteps
         /\ U = {"ticket"} => T = {"approval_gate"} /\ s.approval_decision = "approved"
         /\ T = {"ticket"} => U = {"report"}
         /\ T = {"report"} => U = {}
<1>1. CASE T = {}
  <2>1. U = {}
    BY <1>1 DEF NextNodes
  <2> QED
    BY <1>1, <2>1 DEF Supersteps
<1>2. CASE T = {"retrieve"}
  <2>1. U = {"architecture", "security"}
    BY <1>2 DEF NextNodes, Successors
  <2> QED
    BY <1>2, <2>1 DEF Supersteps
<1>3. CASE T = {"architecture", "security"}
  <2>1. U = {"planner"}
    BY <1>3 DEF NextNodes, Successors
  <2> QED
    BY <1>3, <2>1 DEF Supersteps
<1>4. CASE T = {"planner"}
  <2>1. U = {"reviewer"}
    BY <1>4 DEF NextNodes, Successors
  <2> QED
    BY <1>4, <2>1 DEF Supersteps
<1>5. CASE T = {"reviewer"}
  <2>1. U = {"planner"} \/ U = {"approval_gate"}
    <3>1. U = ShouldRevise(s)
      BY <1>5 DEF NextNodes, Successors
    <3> QED
      BY <3>1 DEF ShouldRevise
  <2> QED
    BY <1>5, <2>1 DEF Supersteps
<1>6. CASE T = {"approval_gate"}
  <2>1. U = AfterApproval(s)
    BY <1>6 DEF NextNodes, Successors
  <2> QED
    BY <1>6, <2>1 DEF AfterApproval, Supersteps
<1>7. CASE T = {"ticket"}
  <2>1. U = {"report"}
    BY <1>7 DEF NextNodes, Successors
  <2> QED
    BY <1>7, <2>1 DEF Supersteps
<1>8. CASE T = {"report"}
  <2>1. U = {}
    BY <1>8 DEF NextNodes, Successors
  <2> QED
    BY <1>8, <2>1 DEF Supersteps
<1> QED
  BY <1>1, <1>2, <1>3, <1>4, <1>5, <1>6, <1>7, <1>8 DEF Supersteps

(* A channel of the merged state comes from the node that wrote it. *)
LEMMA MergedChannel ==
  ASSUME tasks \in Supersteps, DOMAIN writes = tasks,
         \A n \in tasks : DOMAIN writes[n] = Returns(n),
         DOMAIN state = Channels,
         NEW c \in Channels
  PROVE  \/ \E n \in tasks : c \in Returns(n) /\ Merged[c] = writes[n][c]
         \/ (\A n \in tasks : c \notin Returns(n)) /\ Merged[c] = state[c]
<1>1. CASE \E n \in tasks : c \in DOMAIN writes[n]
  <2> DEFINE writer == CHOOSE n \in tasks : c \in DOMAIN writes[n]
  <2>1. writer \in tasks /\ c \in DOMAIN writes[writer]
    BY <1>1
  <2>2. Merged[c] = writes[writer][c]
    BY <1>1 DEF Merged
  <2> HIDE DEF writer
  <2> QED
    BY <2>1, <2>2
<1>2. CASE ~\E n \in tasks : c \in DOMAIN writes[n]
  <2>1. Merged[c] = state[c]
    BY <1>2 DEF Merged
  <2> QED
    BY <1>2, <2>1
<1> QED
  BY <1>1, <1>2

-----------------------------------------------------------------------------
(* The inductive invariant.  Its parts are operators of the values they    *)
(* relate, so that a step that changes none of them need not open them.    *)

WritesOK(T, W, R, sent) ==
  /\ T \in Supersteps
  /\ DOMAIN W \subseteq T
  /\ \A n \in DOMAIN W : UpdateOK(n, W[n], sent)
  /\ R \subseteq T \ DOMAIN W

(* What a resumed call carries is a decision somebody sent. *)
ResumeOK(r, sent) ==
  /\ r \in [approved : BOOLEAN] \cup {None}
  /\ r # None => CoerceDecision(r) \in sent

(* Once approved, the run is past the gate, and it is so on its way to the *)
(* ticket: nothing is left that could change the decision.                 *)
DecidedOK(s, T) ==
  /\ T = {"ticket"} => s["approval_decision"] = "approved"
  /\ s["approval_decision"] = "approved" => T \in {{"ticket"}, {"report"}, {}}

PausedOK(T, I) == I # NoRequest => T = {"approval_gate"}

\* A ticket goes back to a yes, which the run has unless it was taken back.
TicketOK(t, s, sent, back) ==
  /\ t \in {None, "CHG-DEMO"}
  /\ t # None => "approved" \in sent
  /\ t # None => back \/ s["approval_decision"] = "approved"

RowStatuses == {"absent", "pending", "failed", "awaiting_approval"} \cup Statuses

(* Without a row nothing has run yet. *)
RowOK(r, T, t, c, s) ==
  /\ "status" \in DOMAIN r
  /\ r["status"] \in RowStatuses
  /\ r["status"] = "absent" => /\ T = {} /\ t = None /\ c = "idle"
                               /\ s["approval_decision"] # "approved"

TraceOK(tr) == tr \in [Events -> Nat] /\ \A e \in Events : tr[e] <= TraceCap[e]

WorkflowInv ==
  /\ WritesOK(tasks, writes, raised, submitted)
  /\ StateOK(state, submitted)
  /\ ResumeOK(resume, submitted)
  /\ DecidedOK(state, tasks)
  /\ PausedOK(tasks, interrupts)
  /\ TicketOK(ticket, state, submitted, undone)
  /\ RowOK(row, tasks, ticket, call, state)
  /\ call \in {"idle", "create", "approval"}
  /\ TraceOK(trace)
  /\ crashes \in 0..MaxCrashes
  /\ submitted \subseteq Decisions
  /\ undone \in BOOLEAN /\ persisted \in BOOLEAN

SavedOK(c, sent) ==
  /\ WritesOK(c.tasks, c.writes, {}, sent)
  /\ StateOK(c.state, sent)
  /\ DecidedOK(c.state, c.tasks)
  /\ PausedOK(c.tasks, c.interrupts)

SavedInv == SavedOK(saved, submitted)

LEMMA InitEstablishesInv == ASSUME Init PROVE WorkflowInv
<1>1. WritesOK(tasks, writes, raised, submitted)
  BY DEF Init, WritesOK, NoWrites, Supersteps
<1>2. StateOK(state, submitted)
  BY WorkflowAssumption
     DEF Init, StateOK, Channels, InitialState, Statuses, Decisions, WorkflowAssumption
<1>3. ResumeOK(resume, submitted)
  BY DEF Init, ResumeOK
<1>4. /\ TicketOK(ticket, state, submitted, undone)
      /\ DecidedOK(state, tasks) /\ PausedOK(tasks, interrupts)
  BY WorkflowAssumption
     DEF Init, TicketOK, DecidedOK, PausedOK, InitialState, WorkflowAssumption
<1>5. RowOK(row, tasks, ticket, call, state)
  BY WorkflowAssumption DEF Init, RowOK, RowStatuses, InitialState, WorkflowAssumption
<1>6. TraceOK(trace) /\ crashes \in 0..MaxCrashes
  BY WorkflowAssumption, TraceAssumption
     DEF Init, TraceOK, WorkflowAssumption, TraceAssumption
<1> QED
  BY <1>1, <1>2, <1>3, <1>4, <1>5, <1>6 DEF WorkflowInv, Init

LEMMA InitEstablishesSaved == ASSUME Init, WorkflowInv PROVE SavedInv
<1>1. /\ saved.state = state /\ saved.tasks = tasks /\ saved.writes = writes
      /\ saved.interrupts = interrupts /\ raised = {}
  BY DEF Init, Checkpoint
<1> QED
  BY <1>1 DEF WorkflowInv, SavedInv, SavedOK

(* A counter goes up by one, to its cap. *)
LEMMA OneMoreCounts ==
  ASSUME NEW f, TraceOK(f), NEW x \in Events
  PROVE  /\ TraceOK(OneMore(f, x))
         /\ \A y \in Events : y # x => OneMore(f, x)[y] = f[y]
         /\ f[x] < TraceCap[x] => OneMore(f, x)[x] = f[x] + 1
<1> DEFINE g == OneMore(f, x)
<1>1. f \in [Events -> Nat] /\ f[x] \in Nat /\ TraceCap[x] \in Nat
  BY TraceAssumption DEF TraceOK, TraceAssumption
<1>2. g = [f EXCEPT ![x] = IF f[x] < TraceCap[x] THEN f[x] + 1 ELSE f[x]]
  BY DEF OneMore
<1>3. /\ g[x] = IF f[x] < TraceCap[x] THEN f[x] + 1 ELSE f[x]
      /\ \A y \in Events : y # x => g[y] = f[y]
  BY <1>1, <1>2
<1>4. g[x] \in Nat /\ g[x] <= TraceCap[x]
  BY <1>1, <1>3 DEF TraceOK
<1>5. g = [y \in Events |-> g[y]]
  BY <1>1, <1>2
<1> HIDE DEF g
<1>6. \A y \in Events : g[y] \in Nat /\ g[y] <= TraceCap[y]
  BY <1>3, <1>4 DEF TraceOK
<1>7. TraceOK(g)
  BY <1>5, <1>6 DEF TraceOK
<1> QED
  BY <1>1, <1>3, <1>7 DEF g

LEMMA EventsAre ==
  /\ \A n \in Nodes : <<n, "node_completed">> \in Events /\ <<n, "node_failed">> \in Events
  /\ <<"approval_gate", "approval_requested">> \in Events
BY DEF Events

LEMMA EmitKeepsType ==
  ASSUME TraceOK(trace), NEW n, NEW e, <<n, e>> \in Events, Emit(n, e)
  PROVE  TraceOK(trace')
BY OneMoreCounts DEF Emit

(* A decision sent stays sent: what was justified stays justified. *)
LEMMA MoreIsSent ==
  ASSUME NEW sent, NEW more, sent \subseteq more
  PROVE  /\ \A n, u : UpdateOK(n, u, sent) => UpdateOK(n, u, more)
         /\ \A s : StateOK(s, sent) => StateOK(s, more)
         /\ \A T, W, R : WritesOK(T, W, R, sent) => WritesOK(T, W, R, more)
<1>1. \A n, u : UpdateOK(n, u, sent) => UpdateOK(n, u, more)
  BY DEF UpdateOK
<1>2. \A s : StateOK(s, sent) => StateOK(s, more)
  BY DEF StateOK
<1>3. \A T, W, R : WritesOK(T, W, R, sent) => WritesOK(T, W, R, more)
  BY <1>1 DEF WritesOK
<1> QED
  BY <1>1, <1>2, <1>3

(* A node that finishes with an update it may return. *)
LEMMA FinishKeepsInv ==
  ASSUME WorkflowInv, NEW node, Runnable(node), NEW update,
         UpdateOK(node, update, submitted), Finish(node, update),
         TicketOK(ticket', state, submitted, undone),
         UNCHANGED <<state, tasks, raised, interrupts, call, resume, row, crashes,
                     submitted, undone, persisted>>
  PROVE  WorkflowInv'
<1>1. node \in tasks /\ node \notin raised /\ call # "idle"
  BY DEF Runnable
<1>2. WritesOK(tasks, writes', raised, submitted)
  <2>1. writes' = [n \in DOMAIN writes \cup {node} |->
                     IF n = node THEN update ELSE writes[n]]
    BY DEF Finish
  <2> QED
    BY <1>1, <2>1 DEF WorkflowInv, WritesOK
<1>3. node \in Nodes
  BY <1>1, SupersteppedNodes DEF WorkflowInv, WritesOK
<1>4. TraceOK(trace')
  BY <1>3, EmitKeepsType, EventsAre DEF Finish, WorkflowInv
<1>5. RowOK(row, tasks, ticket', call, state)
  BY <1>1 DEF WorkflowInv, RowOK
<1> QED
  BY <1>2, <1>4, <1>5 DEF WorkflowInv

LEMMA RetrieveKeepsInv == ASSUME WorkflowInv, Retrieve PROVE WorkflowInv'
<1> PICK evidence \in Retrievals :
      Finish("retrieve", [retrieved_evidence |-> evidence, status |-> "analyzing"])
  BY DEF Retrieve
<1>1. UpdateOK("retrieve", [retrieved_evidence |-> evidence, status |-> "analyzing"], submitted)
  BY ReturnsAre DEF UpdateOK, Statuses
<1> QED
  BY <1>1, FinishKeepsInv DEF Retrieve, rest, WorkflowInv

LEMMA ArchitectureKeepsInv == ASSUME WorkflowInv, ArchitectureAnalyst PROVE WorkflowInv'
<1> PICK findings \in ArchDrafts :
      Finish("architecture", [architecture_findings |-> findings])
  BY DEF ArchitectureAnalyst
<1>1. UpdateOK("architecture", [architecture_findings |-> findings], submitted)
  BY ReturnsAre DEF UpdateOK
<1> QED
  BY <1>1, FinishKeepsInv DEF ArchitectureAnalyst, rest, WorkflowInv

LEMMA SecurityKeepsInv == ASSUME WorkflowInv, SecurityAnalyst PROVE WorkflowInv'
<1> PICK findings \in RiskDrafts : Finish("security", [risk_findings |-> findings])
  BY DEF SecurityAnalyst
<1>1. UpdateOK("security", [risk_findings |-> findings], submitted)
  BY ReturnsAre DEF UpdateOK
<1> QED
  BY <1>1, FinishKeepsInv DEF SecurityAnalyst, rest, WorkflowInv

LEMMA PlannerKeepsInv == ASSUME WorkflowInv, Planner PROVE WorkflowInv'
<1> PICK plan \in PlanDrafts :
      Finish("planner", [modernization_plan |-> plan, status |-> "reviewing"])
  BY DEF Planner
<1>1. UpdateOK("planner", [modernization_plan |-> plan, status |-> "reviewing"], submitted)
  BY ReturnsAre DEF UpdateOK, Statuses
<1> QED
  BY <1>1, FinishKeepsInv DEF Planner, rest, WorkflowInv

(* The review may count one revision more, and only below the budget. *)
LEMMA ReviewerKeepsInv == ASSUME WorkflowInv, Reviewer PROVE WorkflowInv'
<1> DEFINE ids      == state.retrieved_evidence
           decision == ReviewDecision(ids, state.architecture_findings,
                                      state.risk_findings, state.modernization_plan)
           again    == WillRevise(decision, state.revision_count)
           count    == state.revision_count + (IF again THEN 1 ELSE 0)
           update   ==
             [review_decision       |-> decision,
              modernization_plan    |-> CleanedPlan(state.modernization_plan, ids),
              architecture_findings |-> KeptFindings(state.architecture_findings, ids),
              risk_findings         |-> KeptFindings(state.risk_findings, ids),
              revision_count        |-> count,
              will_revise           |-> again]
<1>1. Finish("reviewer", update)
  BY DEF Reviewer
<1>2. count \in 0..max_revisions
  BY WorkflowAssumption DEF WorkflowInv, StateOK, WillRevise, WorkflowAssumption
<1>3. update["revision_count"] = count /\ DOMAIN update = Returns("reviewer")
  <2> HIDE DEF decision, again, count, ids
  <2> QED
    BY ReturnsAre
<1>4. UpdateOK("reviewer", update, submitted)
  <2> HIDE DEF update, count
  <2> QED
    BY <1>2, <1>3, ReturnsAre DEF UpdateOK
<1> HIDE DEF update
<1> QED
  BY <1>1, <1>4, FinishKeepsInv DEF Reviewer, rest, WorkflowInv

LEMMA GateNotRequiredKeepsInv == ASSUME WorkflowInv, GateNotRequired PROVE WorkflowInv'
<1> DEFINE update == [approval_request  |-> NoRequest,
                      approval_decision |-> None,
                      status            |-> "reporting"]
<1>1. UpdateOK("approval_gate", update, submitted)
  BY ReturnsAre, WorkflowAssumption DEF UpdateOK, Statuses, WorkflowAssumption
<1>2. Finish("approval_gate", update)
  BY DEF GateNotRequired
<1> HIDE DEF update
<1> QED
  BY <1>1, <1>2, FinishKeepsInv DEF GateNotRequired, rest, WorkflowInv

LEMMA GatePauseKeepsInv == ASSUME WorkflowInv, GatePause PROVE WorkflowInv'
<1>1. "approval_gate" \in tasks /\ UNCHANGED tasks
  BY DEF GatePause, Runnable
<1>2. PausedOK(tasks, interrupts')
  BY <1>1 DEF WorkflowInv, WritesOK, Supersteps, PausedOK
<1>3. TraceOK(trace')
  BY EmitKeepsType, EventsAre DEF GatePause, WorkflowInv
<1> QED
  BY <1>2, <1>3 DEF GatePause, WorkflowInv, history

(* The gate, run again, decides what was sent, on a request there is. *)
LEMMA GateReenterKeepsInv == ASSUME WorkflowInv, GateReenter PROVE WorkflowInv'
<1> DEFINE decision == CoerceDecision(resume)
           update   == Decided(decision)
<1>1. GateRequest # NoRequest /\ resume # None /\ "approval_gate" \in tasks \ raised
  BY DEF GateReenter, Runnable
<1>2. decision \in submitted /\ decision \in Decisions
  BY <1>1 DEF WorkflowInv, ResumeOK
<1>3. UpdateOK("approval_gate", update, submitted)
  <2>1. /\ DOMAIN update = Returns("approval_gate")
        /\ update["status"] \in Statuses
        /\ update["approval_decision"] = decision
        /\ update["approval_request"] = GateRequest
    <3> HIDE DEF decision
    <3> QED
      BY ReturnsAre DEF Decided, Statuses
  <2> HIDE DEF update, decision
  <2> QED
    BY <1>1, <1>2, <2>1, ReturnsAre DEF UpdateOK
<1>4. writes' = [n \in {"approval_gate"} |-> update]
  BY DEF GateReenter
<1>5. WritesOK(tasks, writes', raised, submitted)
  <2> HIDE DEF update
  <2> QED
    BY <1>1, <1>3, <1>4 DEF WorkflowInv, WritesOK, Supersteps
<1>6. TraceOK(trace')
  <2> DEFINE once == OneMore(trace, <<"approval_gate", "approval_requested">>)
  <2>1. TraceOK(once)
    BY OneMoreCounts, EventsAre DEF WorkflowInv
  <2>2. trace' = OneMore(once, <<"approval_gate", "node_completed">>)
    BY DEF GateReenter
  <2> HIDE DEF once
  <2> QED
    BY <2>1, <2>2, OneMoreCounts, EventsAre DEF Nodes
<1> QED
  BY <1>5, <1>6 DEF GateReenter, rest, WorkflowInv

LEMMA TicketKeepsInv == ASSUME WorkflowInv, Ticket PROVE WorkflowInv'
<1> DEFINE update == [ticket_record |-> "CHG-DEMO", status |-> "reporting"]
<1>1. UpdateOK("ticket", update, submitted)
  BY ReturnsAre DEF UpdateOK, Statuses
<1>2. Finish("ticket", update)
  BY DEF Ticket
<1>3. TicketOK(ticket', state, submitted, undone)
  BY DEF Ticket, TicketOK, WorkflowInv, StateOK
<1> HIDE DEF update
<1> QED
  BY <1>1, <1>2, <1>3, FinishKeepsInv DEF Ticket, rest, WorkflowInv

LEMMA ReportKeepsInv == ASSUME WorkflowInv, Report PROVE WorkflowInv'
<1> DEFINE update == [final_report |-> FinalReport, status |-> "completed"]
<1>1. UpdateOK("report", update, submitted)
  BY ReturnsAre DEF UpdateOK, Statuses
<1>2. Finish("report", update)
  BY DEF Report
<1> HIDE DEF update
<1> QED
  BY <1>1, <1>2, FinishKeepsInv DEF Report, rest, WorkflowInv

(* The superstep ends: what its nodes returned becomes the state.  Only    *)
(* the gate writes the decision, so a run with its ticket keeps it.        *)
LEMMA MergeKeepsState ==
  ASSUME WorkflowInv, DOMAIN writes = tasks
  PROVE  /\ StateOK(Merged, submitted)
         /\ "approval_gate" \notin tasks =>
              Merged["approval_decision"] = state["approval_decision"]
<1>1. /\ tasks \in Supersteps /\ DOMAIN state = Channels
      /\ \A n \in tasks : UpdateOK(n, writes[n], submitted)
  BY DEF WorkflowInv, WritesOK, StateOK
<1>2. \A n \in tasks : DOMAIN writes[n] = Returns(n)
  BY <1>1 DEF UpdateOK
<1>3. DOMAIN Merged = Channels
  BY <1>1 DEF Merged
<1>4. Merged["status"] \in Statuses
  <2>1. "status" \in Channels
    BY ChannelsAre
  <2> QED
    BY <1>1, <1>2, <2>1, MergedChannel DEF UpdateOK, StateOK, WorkflowInv
<1>5. Merged["revision_count"] \in 0..max_revisions
  <2>1. "revision_count" \in Channels
    BY ChannelsAre
  <2> QED
    BY <1>1, <1>2, <2>1, MergedChannel DEF UpdateOK, StateOK, WorkflowInv
<1>6. \A n \in tasks : ("approval_decision" \in Returns(n) \/ "approval_request" \in Returns(n))
                         => n = "approval_gate"
  BY <1>1, ReturnsAre DEF Supersteps
<1>7. "approval_decision" \in Channels /\ "approval_request" \in Channels
  BY ChannelsAre
<1>8. CASE "approval_gate" \in tasks
  <2>1. /\ "approval_decision" \in Returns("approval_gate")
        /\ "approval_request" \in Returns("approval_gate")
    BY ReturnsAre
  <2>2. Merged["approval_decision"] = writes["approval_gate"]["approval_decision"]
    BY <1>1, <1>2, <1>6, <1>7, <1>8, <2>1, MergedChannel
  <2>3. Merged["approval_request"] = writes["approval_gate"]["approval_request"]
    BY <1>1, <1>2, <1>6, <1>7, <1>8, <2>1, MergedChannel
  <2>4. UpdateOK("approval_gate", writes["approval_gate"], submitted)
    BY <1>1, <1>8
  <2> QED
    BY <1>3, <1>4, <1>5, <1>8, <2>1, <2>2, <2>3, <2>4 DEF UpdateOK, StateOK
<1>9. CASE "approval_gate" \notin tasks
  <2>1. Merged["approval_decision"] = state["approval_decision"]
    BY <1>1, <1>2, <1>6, <1>7, <1>9, MergedChannel
  <2>2. Merged["approval_request"] = state["approval_request"]
    BY <1>1, <1>2, <1>6, <1>7, <1>9, MergedChannel
  <2> QED
    BY <1>3, <1>4, <1>5, <2>1, <2>2 DEF StateOK, WorkflowInv
<1> QED
  BY <1>8, <1>9

LEMMA EndOfStepKeepsInv == ASSUME WorkflowInv, EndOfStep PROVE WorkflowInv'
<1>1. DOMAIN writes = tasks /\ tasks # {} /\ state' = Merged
  BY DEF EndOfStep
<1>2. StateOK(state', submitted)
  BY <1>1, MergeKeepsState
<1>3. /\ tasks' \in Supersteps
      /\ tasks' = {"ticket"} => tasks = {"approval_gate"} /\ state'.approval_decision = "approved"
      /\ tasks = {"ticket"} => tasks' = {"report"}
      /\ tasks = {"report"} => tasks' = {}
  <2>1. tasks' = NextNodes(tasks, state')
    BY DEF EndOfStep, NextNodes
  <2>2. tasks \in Supersteps
    BY DEF WorkflowInv, WritesOK
  <2> QED
    BY <2>1, <2>2, NextSuperstep
<1>4. WritesOK(tasks', writes', raised', submitted)
  <2>1. writes' = NoWrites /\ raised' = raised /\ raised = {}
    BY <1>1 DEF EndOfStep, WorkflowInv, WritesOK
  <2> QED
    BY <1>3, <2>1 DEF WritesOK, NoWrites
<1>5. state["approval_decision"] = "approved" =>
        /\ state'["approval_decision"] = "approved"
        /\ tasks' \in {{"ticket"}, {"report"}, {}}
  <2> SUFFICES ASSUME state["approval_decision"] = "approved"
               PROVE  /\ state'["approval_decision"] = "approved"
                      /\ tasks' \in {{"ticket"}, {"report"}, {}}
    OBVIOUS
  <2>1. tasks \in {{"ticket"}, {"report"}}
    BY <1>1 DEF WorkflowInv, DecidedOK
  <2>2. state'["approval_decision"] = state["approval_decision"]
    BY <1>1, <2>1, MergeKeepsState
  <2> QED
    BY <1>3, <2>1, <2>2
<1>6. DecidedOK(state', tasks')
  <2>1. "approval_gate" \notin tasks =>
          state'["approval_decision"] = state["approval_decision"]
    BY <1>1, MergeKeepsState
  <2>2. tasks = {"approval_gate"} /\ state'["approval_decision"] = "approved"
          => tasks' = {"ticket"}
    <3>1. tasks' = UNION {Successors(n, state') : n \in tasks}
      BY DEF EndOfStep
    <3> QED
      BY <3>1 DEF Successors, AfterApproval
  <2>3. tasks \in Supersteps
    BY DEF WorkflowInv, WritesOK
  <2>4. CASE "approval_gate" \in tasks
    <3>1. tasks = {"approval_gate"}
      BY <2>3, <2>4 DEF Supersteps
    <3> QED
      BY <1>3, <2>2, <3>1 DEF DecidedOK
  <2>5. CASE "approval_gate" \notin tasks
    BY <1>3, <1>5, <2>1, <2>5 DEF DecidedOK
  <2> QED
    BY <2>4, <2>5
<1>7. TicketOK(ticket', state', submitted, undone)
  BY <1>5 DEF EndOfStep, WorkflowInv, TicketOK
<1>8. RowOK(row', tasks', ticket', call', state') /\ PausedOK(tasks', interrupts')
  BY <1>1 DEF EndOfStep, WorkflowInv, RowOK, PausedOK
<1> QED
  BY <1>2, <1>4, <1>6, <1>7, <1>8 DEF EndOfStep, WorkflowInv, history

LEMMA RaiseKeepsInv ==
  ASSUME WorkflowInv, NEW node \in MayRaise, Raise(node) PROVE WorkflowInv'
<1>1. WritesOK(tasks, writes, raised', submitted) /\ call # "idle"
  BY DEF Raise, Runnable, WorkflowInv, WritesOK
<1>2. TraceOK(trace')
  BY EmitKeepsType, EventsAre DEF Raise, WorkflowInv, MayRaise, Nodes
<1>3. TicketOK(ticket', state, submitted, undone)
  BY DEF Raise, WorkflowInv, TicketOK, StateOK
<1>4. RowOK(row, tasks, ticket', call, state)
  BY <1>1 DEF WorkflowInv, RowOK
<1> QED
  BY <1>1, <1>2, <1>3, <1>4 DEF Raise, WorkflowInv, history

LEMMA CreateKeepsInv == ASSUME WorkflowInv, CreateAssessment PROVE WorkflowInv'
<1>1. row["status"] = "absent" /\ "status" \in DOMAIN row
  BY DEF CreateAssessment, WorkflowInv, RowOK
<1>2. /\ tasks = {} /\ ticket = None /\ DOMAIN writes = {} /\ raised = {}
      /\ state["approval_decision"] # "approved"
  BY <1>1 DEF WorkflowInv, RowOK, WritesOK
<1>3. WritesOK({"retrieve"}, writes, raised, submitted)
  BY <1>2 DEF WritesOK, Supersteps
<1>4. DecidedOK(state, {"retrieve"}) /\ PausedOK({"retrieve"}, interrupts)
  BY <1>2 DEF DecidedOK, PausedOK, WorkflowInv
<1>5. RowOK(row', {"retrieve"}, ticket, "create", state)
  BY <1>1 DEF CreateAssessment, RowOK, RowStatuses
<1> QED
  BY <1>3, <1>4, <1>5 DEF CreateAssessment, WorkflowInv, history

LEMMA SubmitKeepsInv ==
  ASSUME WorkflowInv, NEW approved \in BOOLEAN, SubmitApproval(approved)
  PROVE  WorkflowInv'
<1> DEFINE decision == IF approved THEN "approved" ELSE "denied"
<1>1. submitted' = submitted \cup {decision} /\ resume' = [approved |-> approved]
  BY DEF SubmitApproval
<1>2. decision \in Decisions
  BY DEF Decisions
<1>3. ResumeOK(resume', submitted')
  <2>1. CoerceDecision(resume') = decision
    BY <1>1 DEF CoerceDecision
  <2>2. resume' \in [approved : BOOLEAN]
    BY <1>1
  <2> HIDE DEF decision
  <2> QED
    BY <1>1, <2>1, <2>2 DEF ResumeOK
<1> HIDE DEF decision
<1>4. StateOK(state, submitted') /\ WritesOK(tasks, writes, raised, submitted')
  BY <1>1, MoreIsSent DEF WorkflowInv
<1>5. submitted' \subseteq Decisions
  BY <1>1, <1>2 DEF WorkflowInv
<1>6. TicketOK(ticket, state, submitted', undone)
  BY <1>1 DEF WorkflowInv, TicketOK
<1>7. RowOK(row, tasks, ticket, "approval", state)
  <2>1. tasks # {}
    BY DEF SubmitApproval, IsAwaitingApproval, WorkflowInv, PausedOK
  <2> QED
    BY <2>1 DEF WorkflowInv, RowOK
<1> QED
  BY <1>3, <1>4, <1>5, <1>6, <1>7 DEF SubmitApproval, WorkflowInv, graph

LEMMA SaveKeepsInv == ASSUME WorkflowInv, Save PROVE WorkflowInv'
BY DEF Save, WorkflowInv, history

(* invoke() has returned; the row now has a status the run ended in. *)
LEMMA PersistKeepsInv == ASSUME WorkflowInv, PersistAndRespond PROVE WorkflowInv'
<1>1. RowOK(row', tasks, ticket, "idle", state)
  <2> DEFINE status == IF IsAwaitingApproval THEN "awaiting_approval" ELSE state.status
             told   == IF state.final_report # NoReport THEN state.final_report ELSE row.state
  <2>1. row' = [status |-> status, state |-> told]
    BY DEF PersistAndRespond
  <2>2. status \in RowStatuses \ {"absent"}
    BY DEF RowStatuses, Statuses, WorkflowInv, StateOK
  <2> HIDE DEF status, told
  <2> QED
    BY <2>1, <2>2 DEF RowOK
<1>2. ResumeOK(None, submitted)
  BY DEF ResumeOK
<1> QED
  BY <1>1, <1>2 DEF PersistAndRespond, WorkflowInv, graph

(* A call that fails, or is stopped, leaves what had been saved. *)
LEMMA BackKeepsInv ==
  ASSUME WorkflowInv, SavedInv, BackToSaved, call # "idle",
         row' = row \/ row' = [row EXCEPT !.status = "failed"],
         crashes' \in 0..MaxCrashes
  PROVE  WorkflowInv'
<1>1. /\ state' = saved.state /\ tasks' = saved.tasks /\ writes' = saved.writes
      /\ interrupts' = saved.interrupts /\ raised' = {} /\ call' = "idle"
      /\ resume' = None /\ UNCHANGED <<ticket, trace, submitted>>
      /\ undone' \in BOOLEAN /\ persisted' \in BOOLEAN
  BY DEF BackToSaved
<1>2. /\ WritesOK(tasks', writes', raised', submitted)
      /\ StateOK(state', submitted)
      /\ DecidedOK(state', tasks') /\ PausedOK(tasks', interrupts')
  BY <1>1 DEF SavedInv, SavedOK
<1>3. ResumeOK(None, submitted)
  BY DEF ResumeOK
<1>4. TicketOK(ticket, state', submitted, undone')
  <2>1. undone \/ state'["approval_decision"] # state["approval_decision"] => undone'
    BY <1>1 DEF BackToSaved
  <2> QED
    BY <2>1 DEF WorkflowInv, TicketOK
<1>5. RowOK(row', tasks', ticket, "idle", state')
  <2>1. "status" \in DOMAIN row /\ row["status"] \in RowStatuses \ {"absent"}
    BY DEF WorkflowInv, RowOK
  <2>2. "status" \in DOMAIN row' /\ row'["status"] \in RowStatuses \ {"absent"}
    BY <2>1 DEF RowStatuses
  <2> QED
    BY <2>2 DEF RowOK
<1> QED
  BY <1>1, <1>2, <1>3, <1>4, <1>5 DEF WorkflowInv

LEMMA CallFailsKeepsInv == ASSUME WorkflowInv, SavedInv, CallFails PROVE WorkflowInv'
BY BackKeepsInv DEF CallFails, WorkflowInv

LEMMA CrashKeepsInv == ASSUME WorkflowInv, SavedInv, Crash PROVE WorkflowInv'
<1>1. crashes' \in 0..MaxCrashes
  BY WorkflowAssumption DEF Crash, WorkflowInv, WorkflowAssumption
<1> QED
  BY <1>1, BackKeepsInv DEF Crash

(* What is saved is what the run was at some moment, and no less sure now. *)
LEMMA NextKeepsSaved == ASSUME WorkflowInv, SavedInv, [Next]_vars PROVE SavedInv'
<1>1. CASE Save
  <2>1. /\ saved'.state = state /\ saved'.tasks = tasks /\ saved'.writes = writes
        /\ saved'.interrupts = interrupts /\ submitted' = submitted
    BY <1>1 DEF Save, Checkpoint, history
  <2>2. WritesOK(tasks, writes, {}, submitted)
    BY DEF WorkflowInv, WritesOK
  <2> QED
    BY <2>1, <2>2 DEF WorkflowInv, SavedInv, SavedOK
<1>2. CASE \E approved \in BOOLEAN : SubmitApproval(approved)
  <2>1. saved' = saved /\ submitted \subseteq submitted'
    BY <1>2 DEF SubmitApproval, graph
  <2> QED
    BY <2>1, MoreIsSent DEF SavedInv, SavedOK
<1>3. CASE ~Save /\ ~\E approved \in BOOLEAN : SubmitApproval(approved)
  <2>1. saved' = saved /\ submitted' = submitted
    BY <1>3 DEF Next, ServerStep, NodeStep, CreateAssessment, Retrieve,
         ArchitectureAnalyst, SecurityAnalyst, Planner, Reviewer, GateNotRequired,
         GatePause, GateReenter, Ticket, Report, Raise, PersistAndRespond, EndOfStep,
         CallFails, Crash, BackToSaved, vars, graph, history, rest
  <2> QED
    BY <2>1 DEF SavedInv
<1> QED
  BY <1>1, <1>2, <1>3

LEMMA NodeStepKeepsInv == ASSUME WorkflowInv, NodeStep PROVE WorkflowInv'
BY RetrieveKeepsInv, ArchitectureKeepsInv, SecurityKeepsInv, PlannerKeepsInv,
   ReviewerKeepsInv, GateNotRequiredKeepsInv, GatePauseKeepsInv,
   GateReenterKeepsInv, TicketKeepsInv, ReportKeepsInv DEF NodeStep

LEMMA NextKeepsInv == ASSUME WorkflowInv, SavedInv, [Next]_vars PROVE WorkflowInv'
<1>1. CASE CreateAssessment
  BY <1>1, CreateKeepsInv
<1>2. CASE \E approved \in BOOLEAN : SubmitApproval(approved)
  BY <1>2, SubmitKeepsInv
<1>3. CASE NodeStep
  BY <1>3, NodeStepKeepsInv
<1>4. CASE EndOfStep
  BY <1>4, EndOfStepKeepsInv
<1>5. CASE \E node \in MayRaise : Raise(node)
  BY <1>5, RaiseKeepsInv
<1>6. CASE PersistAndRespond
  BY <1>6, PersistKeepsInv
<1>7. CASE CallFails
  BY <1>7, CallFailsKeepsInv
<1>8. CASE Crash
  BY <1>8, CrashKeepsInv
<1>9. CASE Save
  BY <1>9, SaveKeepsInv
<1>10. CASE UNCHANGED vars
  BY <1>10 DEF vars, graph, history, WorkflowInv
<1> QED
  BY <1>1, <1>2, <1>3, <1>4, <1>5, <1>6, <1>7, <1>8, <1>9, <1>10 DEF Next, ServerStep

(* The invariant holds for any drafts, budget and number of process stops. *)
THEOREM WorkflowInvariance == Spec => [](WorkflowInv /\ SavedInv)
<1>1. Init => WorkflowInv /\ SavedInv
  BY InitEstablishesInv, InitEstablishesSaved
<1>2. WorkflowInv /\ SavedInv /\ [Next]_vars => WorkflowInv' /\ SavedInv'
  BY NextKeepsInv, NextKeepsSaved
<1> QED
  BY <1>1, <1>2, PTL DEF Spec

LEMMA StatesKeepTheirShape ==
  ASSUME NEW s, NEW sent, StateOK(s, sent)
  PROVE  /\ DOMAIN s = DOMAIN InitialState
         /\ s.status \in Statuses
         /\ s.revision_count \in 0..max_revisions
         /\ s.approval_decision \in Decisions \cup {None}
BY DEF StateOK, Channels

LEMMA WritesKeepTheirShape ==
  ASSUME NEW T, NEW W, NEW R, NEW sent, NEW s, WritesOK(T, W, R, sent), StateOK(s, sent)
  PROVE  /\ T \subseteq Nodes /\ DOMAIN W \subseteq T
         /\ \A n \in DOMAIN W : DOMAIN W[n] \subseteq DOMAIN s
<1>1. T \subseteq Nodes /\ DOMAIN W \subseteq T
  BY SupersteppedNodes DEF WritesOK
<1> QED
  BY <1>1, ReturnsAreChannels DEF WritesOK, UpdateOK, StateOK

(* Every variable keeps its shape, whatever the agents return. *)
THEOREM WorkflowTypeCorrect == Spec => []TypeOK
<1>1. WorkflowInv /\ SavedInv => TypeOK
  <2> SUFFICES ASSUME WorkflowInv, SavedInv PROVE TypeOK
    OBVIOUS
  <2>1. \A s \in {state, saved.state} :
          /\ DOMAIN s = DOMAIN InitialState
          /\ s.status \in Statuses
          /\ s.revision_count \in 0..max_revisions
          /\ s.approval_decision \in Decisions \cup {None}
    BY StatesKeepTheirShape DEF WorkflowInv, SavedInv, SavedOK
  <2>2. /\ tasks \subseteq Nodes /\ DOMAIN writes \subseteq tasks
        /\ \A n \in DOMAIN writes : DOMAIN writes[n] \subseteq DOMAIN state
    BY WritesKeepTheirShape DEF WorkflowInv
  <2>3. /\ saved.tasks \subseteq Nodes /\ DOMAIN saved.writes \subseteq saved.tasks
        /\ \A n \in DOMAIN saved.writes : DOMAIN saved.writes[n] \subseteq DOMAIN saved.state
    BY WritesKeepTheirShape DEF SavedInv, SavedOK
  <2>4. \A c \in {saved, Checkpoint} :
          /\ c.tasks \subseteq Nodes
          /\ DOMAIN c.writes \subseteq c.tasks
          /\ \A n \in DOMAIN c.writes : DOMAIN c.writes[n] \subseteq DOMAIN c.state
    <3>1. Checkpoint.tasks = tasks /\ Checkpoint.writes = writes /\ Checkpoint.state = state
      BY DEF Checkpoint
    <3> QED
      BY <2>2, <2>3, <3>1
  <2>5. resume \in [approved : BOOLEAN] \cup {None}
    BY DEF WorkflowInv, ResumeOK
  <2>6. /\ raised \subseteq tasks \ DOMAIN writes
        /\ row.status \in RowStatuses
    BY DEF WorkflowInv, WritesOK, RowOK
  <2> QED
    BY <2>1, <2>4, <2>5, <2>6 DEF WorkflowInv, TypeOK, TraceOK, RowStatuses
<1> QED
  BY <1>1, WorkflowInvariance, PTL

(* A ticket exists only if a human said yes, to a request there was, and   *)
(* the run stands by that yes: no failed call, retry or second answer      *)
(* undoes it.  Only a stop or a failed save may take it back, and that is  *)
(* said to have happened.                                                  *)
THEOREM TicketStandsOnApproval == Spec => []TicketWasApproved
<1>1. WorkflowInv => TicketWasApproved
  BY DEF WorkflowInv, StateOK, TicketOK, TicketWasApproved
<1> QED
  BY <1>1, WorkflowInvariance, PTL

-----------------------------------------------------------------------------
(* What is established, as operators of the values it is about. *)

PlanLike(p) == p # NoPlan /\ {"options", "evidence", "recommended_option"} \subseteq DOMAIN p

GroundedPlan(p, ids) ==
  /\ \A r \in p.evidence : r.chunk \in ids
  /\ \A o \in p.options : \A r \in o.evidence : r.chunk \in ids

GroundedFindings(findings, ids) == \A f \in findings : Supported(f.evidence, ids)

\* by the reviewer, of its update, and then of the state
Grounded(c, ids) ==
  /\ GroundedFindings(c["architecture_findings"], ids)
  /\ GroundedFindings(c["risk_findings"], ids)
  /\ GroundedPlan(c["modernization_plan"], ids)

\* by the gate
Judged(request, decision, risks, plan, sent) ==
  /\ request = EvaluateApprovalPolicy(risks, plan)
  /\ request # NoRequest <=> decision # None
  /\ decision \in sent \cup {None}

\* by the ticket node, or by its absence
Named(record, decision, t) ==
  /\ record = IF decision = "approved" THEN t ELSE None
  /\ decision = "approved" => t # None

ReportOK(r, ids, t, sent) ==
  /\ GroundedFindings(r.architecture_findings, ids)
  /\ GroundedFindings(r.risk_findings, ids)
  /\ GroundedPlan(r.plan, ids)
  /\ r.approval_required <=> EvaluateApprovalPolicy(r.risk_findings, r.plan) # NoRequest
  /\ r.approval_required <=> r.approved # None
  /\ r.approved \in sent \cup {None}
  /\ Named(r.ticket_number, r.approved, t)

-----------------------------------------------------------------------------
(* The invariant. *)

\* What node n has returned, for the state s it has read and the pause I.
UpdateHolds(n, u, s, t, I, sent) ==
  /\ n = "planner" => PlanLike(u["modernization_plan"])
  /\ n = "reviewer" => Grounded(u, s["retrieved_evidence"])
  /\ n = "approval_gate" =>
       /\ Judged(u["approval_request"], u["approval_decision"],
                 s["risk_findings"], s["modernization_plan"], sent)
       /\ u["approval_decision"] # None => u["approval_request"] = I
  /\ n = "ticket" => u["ticket_record"] = t /\ t # None
  /\ n = "report" => ReportOK(u["final_report"], s["retrieved_evidence"], t, sent)

PendingOK(W, s, t, I, sent) == \A n \in DOMAIN W : UpdateHolds(n, W[n], s, t, I, sent)

\* What the state has reached when superstep T is next.
StageOK(T, s, t, sent) ==
  /\ T = {"reviewer"} => PlanLike(s["modernization_plan"])
  /\ T \in {{"approval_gate"}, {"ticket"}, {"report"}} => Grounded(s, s["retrieved_evidence"])
  /\ T \in {{"ticket"}, {"report"}} =>
       Judged(s["approval_request"], s["approval_decision"],
              s["risk_findings"], s["modernization_plan"], sent)
  /\ T \notin {{"ticket"}, {"report"}, {}} => s["approval_decision"] = None
  /\ T \notin {{"report"}, {}} => s["ticket_record"] = None
  /\ T = {"report"} => Named(s["ticket_record"], s["approval_decision"], t)

\* Without a row nothing has been decided.
FreshOK(r, s, res) ==
  r["status"] = "absent" => /\ s["approval_decision"] = None
                            /\ s["ticket_record"] = None
                            /\ s["final_report"] = NoReport
                            /\ res = None

\* A report is the last thing a run makes.
ReportedOK(T, s, t, sent) ==
  s["final_report"] # NoReport =>
    T = {} /\ ReportOK(s["final_report"], s["retrieved_evidence"], t, sent)

\* A pause is on the request the gate would make again, and it is what a decision answers.
PauseOK(T, s, I, res) ==
  /\ I # NoRequest =>
       T = {"approval_gate"} /\ I = EvaluateApprovalPolicy(s["risk_findings"], s["modernization_plan"])
  /\ res # None => /\ T \in {{"approval_gate"}, {"ticket"}, {"report"}, {}}
                   /\ T = {"approval_gate"} => I # NoRequest

ContentInv ==
  /\ PendingOK(writes, state, ticket, interrupts, submitted)
  /\ StageOK(tasks, state, ticket, submitted)
  /\ FreshOK(row, state, resume)
  /\ ReportedOK(tasks, state, ticket, submitted)
  /\ PauseOK(tasks, state, interrupts, resume)

(* The same of what is saved; and only the gate's superstep, which has not *)
(* been merged yet, can separate its decision from the run's.              *)
ContentOfSaved(c, t, sent) ==
  /\ PendingOK(c.writes, c.state, t, c.interrupts, sent)
  /\ StageOK(c.tasks, c.state, t, sent)
  /\ ReportedOK(c.tasks, c.state, t, sent)
  /\ PauseOK(c.tasks, c.state, c.interrupts, None)

SavedContent ==
  /\ ContentOfSaved(saved, ticket, submitted)
  /\ saved.state["approval_decision"] \in {None, state["approval_decision"]}
-----------------------------------------------------------------------------
(* What the nodes compute. *)

LEMMA KeptAreGrounded ==
  ASSUME NEW findings, NEW ids
  PROVE  GroundedFindings(KeptFindings(findings, ids), ids)
BY DEF GroundedFindings, KeptFindings

LEMMA CleanedIsGrounded ==
  ASSUME NEW p, NEW ids, PlanLike(p)
  PROVE  GroundedPlan(CleanedPlan(p, ids), ids)
<1> DEFINE best == IF MustFallBack(p, ids)
                   THEN FirstOption(KeptOptions(p, ids)).name
                   ELSE p.recommended_option
           q    == [p EXCEPT !.evidence = KeptPlanRefs(p, ids),
                             !.options  = KeptOptions(p, ids),
                             !.recommended_option = best]
<1>1. CleanedPlan(p, ids) = q
  BY DEF CleanedPlan, PlanLike
<1>2. q.evidence = KeptPlanRefs(p, ids) /\ q.options = KeptOptions(p, ids)
  <2> HIDE DEF best
  <2> QED
    BY DEF PlanLike
<1> HIDE DEF q
<1> QED
  BY <1>1, <1>2 DEF GroundedPlan, KeptPlanRefs, KeptOptions

(* More answers do not unsay what was established on fewer. *)
LEMMA MoreIsStillEnough ==
  ASSUME NEW sent, NEW more, sent \subseteq more
  PROVE  /\ \A r, d, k, p : Judged(r, d, k, p, sent) => Judged(r, d, k, p, more)
         /\ \A r, ids, t : ReportOK(r, ids, t, sent) => ReportOK(r, ids, t, more)
         /\ \A W, s, t, I : PendingOK(W, s, t, I, sent) => PendingOK(W, s, t, I, more)
         /\ \A T, s, t : StageOK(T, s, t, sent) => StageOK(T, s, t, more)
         /\ \A T, s, t : ReportedOK(T, s, t, sent) => ReportedOK(T, s, t, more)
<1>1. \A r, d, k, p : Judged(r, d, k, p, sent) => Judged(r, d, k, p, more)
  BY DEF Judged
<1>2. \A r, ids, t : ReportOK(r, ids, t, sent) => ReportOK(r, ids, t, more)
  BY DEF ReportOK
<1>3. \A W, s, t, I : PendingOK(W, s, t, I, sent) => PendingOK(W, s, t, I, more)
  BY <1>1, <1>2 DEF PendingOK, UpdateHolds
<1>4. \A T, s, t : StageOK(T, s, t, sent) => StageOK(T, s, t, more)
  BY <1>1 DEF StageOK
<1>5. \A T, s, t : ReportedOK(T, s, t, sent) => ReportedOK(T, s, t, more)
  BY <1>2 DEF ReportedOK
<1> QED
  BY <1>1, <1>2, <1>3, <1>4, <1>5

(* A ticket opened later does not unsay what needed none, or this one. *)
LEMMA TicketIsStillEnough ==
  ASSUME NEW t, NEW u, t = None \/ u = t
  PROVE  /\ \A rec, d : Named(rec, d, t) => Named(rec, d, u)
         /\ \A r, ids, sent : ReportOK(r, ids, t, sent) => ReportOK(r, ids, u, sent)
         /\ \A W, s, I, sent : PendingOK(W, s, t, I, sent) => PendingOK(W, s, u, I, sent)
         /\ \A T, s, sent : StageOK(T, s, t, sent) => StageOK(T, s, u, sent)
         /\ \A T, s, sent : ReportedOK(T, s, t, sent) => ReportedOK(T, s, u, sent)
<1>1. \A rec, d : Named(rec, d, t) => Named(rec, d, u)
  BY DEF Named
<1>2. \A r, ids, sent : ReportOK(r, ids, t, sent) => ReportOK(r, ids, u, sent)
  BY <1>1 DEF ReportOK
<1>3. \A W, s, I, sent : PendingOK(W, s, t, I, sent) => PendingOK(W, s, u, I, sent)
  BY <1>2 DEF PendingOK, UpdateHolds
<1>4. \A T, s, sent : StageOK(T, s, t, sent) => StageOK(T, s, u, sent)
  BY <1>1 DEF StageOK
<1>5. \A T, s, sent : ReportedOK(T, s, t, sent) => ReportedOK(T, s, u, sent)
  BY <1>2 DEF ReportedOK
<1> QED
  BY <1>1, <1>2, <1>3, <1>4, <1>5

LEMMA RunningIsTheSuperstep ==
  ASSUME WorkflowInv, NEW n \in tasks
  PROVE  /\ n \notin {"architecture", "security"} => tasks = {n}
         /\ n \in {"architecture", "security"} => tasks = {"architecture", "security"}
BY DEF WorkflowInv, WritesOK, Supersteps

-----------------------------------------------------------------------------
(* The nodes keep the invariant. *)

LEMMA FinishKeepsContent ==
  ASSUME ContentInv, NEW node, Runnable(node), NEW update,
         UpdateHolds(node, update, state, ticket, interrupts, submitted),
         Finish(node, update),
         UNCHANGED <<state, tasks, interrupts, resume, row, ticket, submitted>>
  PROVE  ContentInv'
<1>1. PendingOK(writes', state, ticket, interrupts, submitted)
  <2>1. writes' = [n \in DOMAIN writes \cup {node} |->
                     IF n = node THEN update ELSE writes[n]]
    BY DEF Finish
  <2> QED
    BY <2>1 DEF PendingOK, ContentInv
<1> QED
  BY <1>1 DEF ContentInv

LEMMA RetrieveKeepsContent == ASSUME ContentInv, Retrieve PROVE ContentInv'
<1> PICK evidence \in Retrievals :
      Finish("retrieve", [retrieved_evidence |-> evidence, status |-> "analyzing"])
  BY DEF Retrieve
<1>1. \A u : UpdateHolds("retrieve", u, state, ticket, interrupts, submitted)
  BY DEF UpdateHolds
<1> QED
  BY <1>1, FinishKeepsContent DEF Retrieve, rest

LEMMA ArchitectureKeepsContent == ASSUME ContentInv, ArchitectureAnalyst PROVE ContentInv'
<1> PICK findings \in ArchDrafts :
      Finish("architecture", [architecture_findings |-> findings])
  BY DEF ArchitectureAnalyst
<1>1. \A u : UpdateHolds("architecture", u, state, ticket, interrupts, submitted)
  BY DEF UpdateHolds
<1> QED
  BY <1>1, FinishKeepsContent DEF ArchitectureAnalyst, rest

LEMMA SecurityKeepsContent == ASSUME ContentInv, SecurityAnalyst PROVE ContentInv'
<1> PICK findings \in RiskDrafts : Finish("security", [risk_findings |-> findings])
  BY DEF SecurityAnalyst
<1>1. \A u : UpdateHolds("security", u, state, ticket, interrupts, submitted)
  BY DEF UpdateHolds
<1> QED
  BY <1>1, FinishKeepsContent DEF SecurityAnalyst, rest

LEMMA PlannerKeepsContent == ASSUME ContentInv, Planner PROVE ContentInv'
<1> PICK plan \in PlanDrafts :
      Finish("planner", [modernization_plan |-> plan, status |-> "reviewing"])
  BY DEF Planner
<1> DEFINE update == [modernization_plan |-> plan, status |-> "reviewing"]
<1>1. update["modernization_plan"] = plan /\ PlanLike(plan)
  BY SchemaAssumption DEF PlanLike, SchemaAssumption
<1> HIDE DEF update
<1>2. UpdateHolds("planner", update, state, ticket, interrupts, submitted)
  BY <1>1 DEF UpdateHolds
<1>3. Finish("planner", update)
  BY DEF update
<1> QED
  BY <1>2, <1>3, FinishKeepsContent DEF Planner, rest

(* What the reviewer returns resolves, in full. *)
LEMMA ReviewerKeepsContent == ASSUME WorkflowInv, ContentInv, Reviewer PROVE ContentInv'
<1> DEFINE ids      == state.retrieved_evidence
           decision == ReviewDecision(ids, state.architecture_findings,
                                      state.risk_findings, state.modernization_plan)
           again    == WillRevise(decision, state.revision_count)
           plan     == CleanedPlan(state.modernization_plan, ids)
           arch     == KeptFindings(state.architecture_findings, ids)
           risks    == KeptFindings(state.risk_findings, ids)
           count    == state.revision_count + (IF again THEN 1 ELSE 0)
           update   == [review_decision       |-> decision,
                        modernization_plan    |-> plan,
                        architecture_findings |-> arch,
                        risk_findings         |-> risks,
                        revision_count        |-> count,
                        will_revise           |-> again]
<1>1. Finish("reviewer", update)
  BY DEF Reviewer
<1>2. PlanLike(state["modernization_plan"])
  BY RunningIsTheSuperstep DEF Reviewer, Runnable, ContentInv, StageOK
<1>3. /\ GroundedFindings(arch, ids) /\ GroundedFindings(risks, ids)
      /\ GroundedPlan(plan, ids)
  BY <1>2, KeptAreGrounded, CleanedIsGrounded
<1>4. /\ update["architecture_findings"] = arch
      /\ update["risk_findings"] = risks
      /\ update["modernization_plan"] = plan
  <2> HIDE DEF decision, again, count, plan, arch, risks
  <2> QED
    OBVIOUS
<1>5. UpdateHolds("reviewer", update, state, ticket, interrupts, submitted)
  <2> HIDE DEF update, plan, arch, risks
  <2> QED
    BY <1>3, <1>4 DEF UpdateHolds, Grounded
<1> HIDE DEF update
<1> QED
  BY <1>1, <1>5, FinishKeepsContent DEF Reviewer, rest

LEMMA GateNotRequiredKeepsContent ==
  ASSUME ContentInv, GateNotRequired PROVE ContentInv'
<1> DEFINE update == [approval_request  |-> NoRequest,
                      approval_decision |-> None,
                      status            |-> "reporting"]
<1>1. Finish("approval_gate", update) /\ GateRequest = NoRequest
  BY DEF GateNotRequired
<1>2. update["approval_request"] = NoRequest /\ update["approval_decision"] = None
  OBVIOUS
<1> HIDE DEF update
<1>3. UpdateHolds("approval_gate", update, state, ticket, interrupts, submitted)
  BY <1>1, <1>2 DEF UpdateHolds, Judged, GateRequest
<1> QED
  BY <1>1, <1>3, FinishKeepsContent DEF GateNotRequired, rest

LEMMA GatePauseKeepsContent ==
  ASSUME WorkflowInv, ContentInv, GatePause PROVE ContentInv'
<1>1. tasks = {"approval_gate"} /\ DOMAIN writes = {}
  BY RunningIsTheSuperstep DEF GatePause, Runnable, WorkflowInv, WritesOK
<1>2. PendingOK(writes, state, ticket, interrupts', submitted)
  BY <1>1 DEF PendingOK
<1>3. PauseOK(tasks, state, interrupts', resume)
  BY <1>1 DEF GatePause, PauseOK, GateRequest
<1> QED
  BY <1>2, <1>3 DEF GatePause, ContentInv, history

(* The gate, run again, comes to the request it had paused on. *)
LEMMA GateReenterKeepsContent ==
  ASSUME WorkflowInv, ContentInv, GateReenter PROVE ContentInv'
<1> DEFINE decision == CoerceDecision(resume)
           update   == Decided(decision)
<1>1. GateRequest # NoRequest /\ resume # None /\ "approval_gate" \in tasks
  BY DEF GateReenter, Runnable
<1>2. tasks = {"approval_gate"}
  BY <1>1, RunningIsTheSuperstep
<1>3. interrupts = GateRequest
  BY <1>1, <1>2 DEF ContentInv, PauseOK, GateRequest
<1>4. decision \in submitted /\ decision # None
  BY <1>1, WorkflowAssumption DEF WorkflowInv, ResumeOK, Decisions, WorkflowAssumption
<1>5. update["approval_request"] = GateRequest /\ update["approval_decision"] = decision
  <2> HIDE DEF decision
  <2> QED
    BY DEF Decided
<1>6. writes' = [n \in {"approval_gate"} |-> update]
  BY DEF GateReenter
<1> HIDE DEF update, decision
<1>7. UpdateHolds("approval_gate", update, state, ticket, interrupts, submitted)
  BY <1>1, <1>3, <1>4, <1>5 DEF UpdateHolds, Judged, GateRequest
<1>8. PendingOK(writes', state, ticket, interrupts, submitted)
  BY <1>6, <1>7 DEF PendingOK
<1> QED
  BY <1>8 DEF GateReenter, rest, ContentInv

LEMMA TicketKeepsContent == ASSUME WorkflowInv, ContentInv, Ticket PROVE ContentInv'
<1> DEFINE update == [ticket_record |-> "CHG-DEMO", status |-> "reporting"]
<1>1. /\ ticket' = "CHG-DEMO" /\ ticket' # None
      /\ Finish("ticket", update)
      /\ UNCHANGED <<state, tasks, interrupts, resume, row, submitted>>
  BY SchemaAssumption DEF Ticket, rest, SchemaAssumption
<1>2. tasks = {"ticket"} /\ DOMAIN writes = {}
  BY RunningIsTheSuperstep DEF Ticket, Runnable, WorkflowInv, WritesOK
<1>3. update["ticket_record"] = "CHG-DEMO"
  OBVIOUS
<1> HIDE DEF update
<1>4. UpdateHolds("ticket", update, state, ticket', interrupts, submitted)
  BY <1>1, <1>3 DEF UpdateHolds
<1>5. PendingOK(writes', state, ticket', interrupts, submitted)
  BY <1>1, <1>2, <1>4 DEF Finish, PendingOK
<1>6. StageOK(tasks, state, ticket', submitted)
  BY <1>2 DEF ContentInv, StageOK
<1>7. ReportedOK(tasks, state, ticket', submitted)
  BY <1>2 DEF ContentInv, ReportedOK
<1> QED
  BY <1>1, <1>5, <1>6, <1>7 DEF ContentInv

(* The report is made of channels that have been judged and grounded. *)
LEMMA ReportKeepsContent == ASSUME WorkflowInv, ContentInv, Report PROVE ContentInv'
<1> DEFINE r      == FinalReport
           update == [final_report |-> r, status |-> "completed"]
<1>1. Finish("report", update)
  BY DEF Report
<1>2. tasks = {"report"}
  BY RunningIsTheSuperstep DEF Report, Runnable
<1>3. /\ Grounded(state, state["retrieved_evidence"])
      /\ Judged(state["approval_request"], state["approval_decision"],
                state["risk_findings"], state["modernization_plan"], submitted)
      /\ Named(state["ticket_record"], state["approval_decision"], ticket)
  BY <1>2 DEF ContentInv, StageOK
<1>4. /\ r.architecture_findings = state["architecture_findings"]
      /\ r.risk_findings = state["risk_findings"]
      /\ r.plan = state["modernization_plan"]
      /\ r.approved = state["approval_decision"]
      /\ r.ticket_number = state["ticket_record"]
  BY DEF FinalReport
<1>5. r.approval_required <=> state["approval_request"] # NoRequest
  BY DEF FinalReport
<1> HIDE DEF r
<1>6. ReportOK(r, state["retrieved_evidence"], ticket, submitted)
  BY <1>3, <1>4, <1>5 DEF ReportOK, Grounded, Judged
<1>7. update["final_report"] = r
  OBVIOUS
<1> HIDE DEF update
<1>8. UpdateHolds("report", update, state, ticket, interrupts, submitted)
  BY <1>6, <1>7 DEF UpdateHolds
<1> QED
  BY <1>1, <1>8, FinishKeepsContent DEF Report, rest
-----------------------------------------------------------------------------
(* The superstep ends. *)

(* A channel takes the value its writer returned, and otherwise keeps its own. *)
LEMMA MergedValue ==
  ASSUME WorkflowInv, DOMAIN writes = tasks, NEW c \in Channels
  PROVE  /\ \A n \in tasks : c \in Returns(n) => Merged[c] = writes[n][c]
         /\ (\A n \in tasks : c \notin Returns(n)) => Merged[c] = state[c]
<1>1. /\ tasks \in Supersteps /\ DOMAIN state = Channels
      /\ \A n \in tasks : DOMAIN writes[n] = Returns(n)
  BY DEF WorkflowInv, WritesOK, StateOK, UpdateOK
<1>2. \/ \E n \in tasks : c \in Returns(n) /\ Merged[c] = writes[n][c]
      \/ (\A n \in tasks : c \notin Returns(n)) /\ Merged[c] = state[c]
  BY <1>1, MergedChannel
<1>3. ASSUME NEW m \in tasks, NEW n \in tasks, c \in Returns(m), c \in Returns(n)
      PROVE  m = n
  BY <1>1, <1>3, WritersAreDistinct
<1> QED
  BY <1>2, <1>3

LEMMA WhatFollows ==
  ASSUME NEW T, NEW s, NEW U, U = NextNodes(T, s)
  PROVE  /\ T = {"retrieve"} => U = {"architecture", "security"}
         /\ T = {"architecture", "security"} => U = {"planner"}
         /\ T = {"planner"} => U = {"reviewer"}
         /\ T = {"reviewer"} => U \in {{"planner"}, {"approval_gate"}}
         /\ T = {"approval_gate"} =>
              U = IF s["approval_decision"] = "approved" THEN {"ticket"} ELSE {"report"}
         /\ T = {"ticket"} => U = {"report"}
         /\ T = {"report"} => U = {}
<1>1. T = {"retrieve"} => U = {"architecture", "security"}
  BY DEF NextNodes, Successors
<1>2. T = {"architecture", "security"} => U = {"planner"}
  BY DEF NextNodes, Successors
<1>3. T = {"planner"} => U = {"reviewer"}
  BY DEF NextNodes, Successors
<1>4. ASSUME T = {"reviewer"} PROVE U \in {{"planner"}, {"approval_gate"}}
  <2>1. U = ShouldRevise(s)
    BY <1>4 DEF NextNodes, Successors
  <2> QED
    BY <2>1 DEF ShouldRevise
<1>5. ASSUME T = {"approval_gate"}
      PROVE  U = IF s["approval_decision"] = "approved" THEN {"ticket"} ELSE {"report"}
  <2>1. U = AfterApproval(s)
    BY <1>5 DEF NextNodes, Successors
  <2> QED
    BY <2>1 DEF AfterApproval
<1>6. T = {"ticket"} => U = {"report"}
  BY DEF NextNodes, Successors
<1>7. T = {"report"} => U = {}
  BY DEF NextNodes, Successors
<1> QED
  BY <1>1, <1>2, <1>3, <1>4, <1>5, <1>6, <1>7

(* The channels a superstep leaves alone, and those it sets. *)
LEMMA MergedChannels ==
  ASSUME WorkflowInv, DOMAIN writes = tasks, tasks # {}
  PROVE  /\ tasks # {"retrieve"} =>
              Merged["retrieved_evidence"] = state["retrieved_evidence"]
         /\ tasks \in {{"planner"}, {"approval_gate"}, {"ticket"}, {"report"}} =>
              /\ Merged["architecture_findings"] = state["architecture_findings"]
              /\ Merged["risk_findings"] = state["risk_findings"]
         /\ tasks \in {{"approval_gate"}, {"ticket"}, {"report"}} =>
              Merged["modernization_plan"] = state["modernization_plan"]
         /\ tasks # {"approval_gate"} =>
              /\ Merged["approval_request"] = state["approval_request"]
              /\ Merged["approval_decision"] = state["approval_decision"]
         /\ tasks # {"ticket"} => Merged["ticket_record"] = state["ticket_record"]
         /\ tasks # {"report"} => Merged["final_report"] = state["final_report"]
         /\ tasks = {"planner"} =>
              Merged["modernization_plan"] = writes["planner"]["modernization_plan"]
         /\ tasks = {"reviewer"} =>
              \A c \in {"modernization_plan", "architecture_findings", "risk_findings"} :
                Merged[c] = writes["reviewer"][c]
         /\ tasks = {"approval_gate"} =>
              \A c \in {"approval_request", "approval_decision"} :
                Merged[c] = writes["approval_gate"][c]
         /\ tasks = {"ticket"} => Merged["ticket_record"] = writes["ticket"]["ticket_record"]
         /\ tasks = {"report"} => Merged["final_report"] = writes["report"]["final_report"]
<1>1. tasks \in Supersteps
  BY DEF WorkflowInv, WritesOK
<1>2. {"retrieved_evidence", "architecture_findings", "risk_findings", "modernization_plan",
       "approval_request", "approval_decision", "ticket_record", "final_report"}
        \subseteq Channels
  BY ChannelsAre
<1>3. \A c \in Channels :
        /\ \A n \in tasks : c \in Returns(n) => Merged[c] = writes[n][c]
        /\ (\A n \in tasks : c \notin Returns(n)) => Merged[c] = state[c]
  BY MergedValue
<1>4. tasks # {"retrieve"} => Merged["retrieved_evidence"] = state["retrieved_evidence"]
  BY <1>1, <1>2, <1>3, ReturnsAre DEF Supersteps
<1>5. ASSUME tasks \in {{"planner"}, {"approval_gate"}, {"ticket"}, {"report"}}
      PROVE  /\ Merged["architecture_findings"] = state["architecture_findings"]
             /\ Merged["risk_findings"] = state["risk_findings"]
  BY <1>2, <1>3, <1>5, ReturnsAre
<1>6. ASSUME tasks \in {{"approval_gate"}, {"ticket"}, {"report"}}
      PROVE  Merged["modernization_plan"] = state["modernization_plan"]
  BY <1>2, <1>3, <1>6, ReturnsAre
<1>7. tasks # {"approval_gate"} =>
        /\ Merged["approval_request"] = state["approval_request"]
        /\ Merged["approval_decision"] = state["approval_decision"]
  BY <1>1, <1>2, <1>3, ReturnsAre DEF Supersteps
<1>8. tasks # {"ticket"} => Merged["ticket_record"] = state["ticket_record"]
  BY <1>1, <1>2, <1>3, ReturnsAre DEF Supersteps
<1>9. tasks # {"report"} => Merged["final_report"] = state["final_report"]
  BY <1>1, <1>2, <1>3, ReturnsAre DEF Supersteps
<1>10. tasks = {"planner"} =>
         Merged["modernization_plan"] = writes["planner"]["modernization_plan"]
  BY <1>2, <1>3, ReturnsAre
<1>11. tasks = {"reviewer"} =>
         \A c \in {"modernization_plan", "architecture_findings", "risk_findings"} :
           Merged[c] = writes["reviewer"][c]
  BY <1>2, <1>3, ReturnsAre
<1>12. tasks = {"approval_gate"} =>
         \A c \in {"approval_request", "approval_decision"} :
           Merged[c] = writes["approval_gate"][c]
  BY <1>2, <1>3, ReturnsAre
<1>13. tasks = {"ticket"} => Merged["ticket_record"] = writes["ticket"]["ticket_record"]
  BY <1>2, <1>3, ReturnsAre
<1>14. tasks = {"report"} => Merged["final_report"] = writes["report"]["final_report"]
  BY <1>2, <1>3, ReturnsAre
<1> QED
  BY <1>4, <1>5, <1>6, <1>7, <1>8, <1>9, <1>10, <1>11, <1>12, <1>13, <1>14

(* What the superstep returned is what the next one, if any, relies on. *)
LEMMA MergeReachesStage ==
  ASSUME WorkflowInv, ContentInv, DOMAIN writes = tasks, tasks # {}, NEW T,
         T = NextNodes(tasks, Merged)
  PROVE  StageOK(T, Merged, ticket, submitted)
<1>1. tasks \in Supersteps \ {{}}
  BY DEF WorkflowInv, WritesOK
<1>2. \A n \in tasks : UpdateHolds(n, writes[n], state, ticket, interrupts, submitted)
  BY DEF ContentInv, PendingOK
<1>3. StageOK(tasks, state, ticket, submitted)
  BY DEF ContentInv
<1>4. CASE tasks \in {{"retrieve"}, {"architecture", "security"}}
  <2>1. T \in {{"architecture", "security"}, {"planner"}}
    BY <1>4, WhatFollows
  <2>2. /\ Merged["approval_decision"] = state["approval_decision"]
        /\ Merged["ticket_record"] = state["ticket_record"]
    BY <1>4, MergedChannels
  <2> QED
    BY <1>3, <1>4, <2>1, <2>2 DEF StageOK
<1>5. CASE tasks = {"planner"}
  <2>1. T = {"reviewer"}
    BY <1>5, WhatFollows
  <2>2. /\ Merged["approval_decision"] = state["approval_decision"]
        /\ Merged["ticket_record"] = state["ticket_record"]
        /\ Merged["modernization_plan"] = writes["planner"]["modernization_plan"]
    BY <1>5, MergedChannels
  <2>3. PlanLike(writes["planner"]["modernization_plan"])
    BY <1>2, <1>5 DEF UpdateHolds
  <2> QED
    BY <1>3, <1>5, <2>1, <2>2, <2>3 DEF StageOK
<1>6. CASE tasks = {"reviewer"}
  <2>1. T \in {{"planner"}, {"approval_gate"}}
    BY <1>6, WhatFollows
  <2>2. /\ Merged["approval_decision"] = state["approval_decision"]
        /\ Merged["ticket_record"] = state["ticket_record"]
        /\ Merged["retrieved_evidence"] = state["retrieved_evidence"]
        /\ Merged["modernization_plan"] = writes["reviewer"]["modernization_plan"]
        /\ Merged["architecture_findings"] = writes["reviewer"]["architecture_findings"]
        /\ Merged["risk_findings"] = writes["reviewer"]["risk_findings"]
    BY <1>6, MergedChannels
  <2>3. Grounded(writes["reviewer"], state["retrieved_evidence"])
    BY <1>2, <1>6 DEF UpdateHolds
  <2>4. Grounded(Merged, Merged["retrieved_evidence"])
    BY <2>2, <2>3 DEF Grounded
  <2> QED
    BY <1>3, <1>6, <2>1, <2>2, <2>4 DEF StageOK
<1>7. CASE tasks = {"approval_gate"}
  <2>1. T = IF Merged["approval_decision"] = "approved" THEN {"ticket"} ELSE {"report"}
    BY <1>7, WhatFollows
  <2>2. /\ Merged["ticket_record"] = state["ticket_record"]
        /\ Merged["retrieved_evidence"] = state["retrieved_evidence"]
        /\ Merged["modernization_plan"] = state["modernization_plan"]
        /\ Merged["architecture_findings"] = state["architecture_findings"]
        /\ Merged["risk_findings"] = state["risk_findings"]
        /\ Merged["approval_request"] = writes["approval_gate"]["approval_request"]
        /\ Merged["approval_decision"] = writes["approval_gate"]["approval_decision"]
    BY <1>7, MergedChannels
  <2>3. /\ Grounded(state, state["retrieved_evidence"])
        /\ state["ticket_record"] = None
    BY <1>3, <1>7 DEF StageOK
  <2>4. Judged(writes["approval_gate"]["approval_request"],
               writes["approval_gate"]["approval_decision"],
               state["risk_findings"], state["modernization_plan"], submitted)
    BY <1>2, <1>7 DEF UpdateHolds
  <2>5. Grounded(Merged, Merged["retrieved_evidence"])
    BY <2>2, <2>3 DEF Grounded
  <2>6. Judged(Merged["approval_request"], Merged["approval_decision"],
               Merged["risk_findings"], Merged["modernization_plan"], submitted)
    BY <2>2, <2>4
  <2>7. T = {"report"} => Named(Merged["ticket_record"], Merged["approval_decision"], ticket)
    BY <2>1, <2>2, <2>3 DEF Named
  <2>8. Merged["ticket_record"] = None
    BY <2>2, <2>3
  <2> QED
    BY <2>1, <2>5, <2>6, <2>7, <2>8 DEF StageOK
<1>8. CASE tasks = {"ticket"}
  <2>1. T = {"report"}
    BY <1>8, WhatFollows
  <2>2. /\ Merged["retrieved_evidence"] = state["retrieved_evidence"]
        /\ Merged["modernization_plan"] = state["modernization_plan"]
        /\ Merged["architecture_findings"] = state["architecture_findings"]
        /\ Merged["risk_findings"] = state["risk_findings"]
        /\ Merged["approval_request"] = state["approval_request"]
        /\ Merged["approval_decision"] = state["approval_decision"]
        /\ Merged["ticket_record"] = writes["ticket"]["ticket_record"]
    BY <1>8, MergedChannels
  <2>3. /\ Grounded(state, state["retrieved_evidence"])
        /\ Judged(state["approval_request"], state["approval_decision"],
                  state["risk_findings"], state["modernization_plan"], submitted)
    BY <1>3, <1>8 DEF StageOK
  <2>4. Grounded(Merged, Merged["retrieved_evidence"])
    BY <2>2, <2>3 DEF Grounded
  <2>5. Judged(Merged["approval_request"], Merged["approval_decision"],
               Merged["risk_findings"], Merged["modernization_plan"], submitted)
    BY <2>2, <2>3
  <2>6. writes["ticket"]["ticket_record"] = ticket /\ ticket # None
    BY <1>2, <1>8 DEF UpdateHolds
  <2>7. state["approval_decision"] = "approved"
    BY <1>8 DEF WorkflowInv, DecidedOK
  <2>8. Named(Merged["ticket_record"], Merged["approval_decision"], ticket)
    BY <2>2, <2>6, <2>7 DEF Named
  <2> QED
    BY <2>1, <2>4, <2>5, <2>8 DEF StageOK
<1>9. CASE tasks = {"report"}
  <2>1. T = {}
    BY <1>9, WhatFollows
  <2> QED
    BY <2>1 DEF StageOK
<1> QED
  BY <1>1, <1>4, <1>5, <1>6, <1>7, <1>8, <1>9 DEF Supersteps

LEMMA EndOfStepKeepsContent ==
  ASSUME WorkflowInv, ContentInv, EndOfStep PROVE ContentInv'
<1>1. /\ DOMAIN writes = tasks /\ tasks # {} /\ state' = Merged
      /\ tasks' = NextNodes(tasks, Merged)
      /\ writes' = NoWrites /\ interrupts' = NoRequest
      /\ UNCHANGED <<ticket, submitted, row, resume>>
  BY DEF EndOfStep, NextNodes, history
<1>2. tasks \in Supersteps
  BY DEF WorkflowInv, WritesOK
<1>3. StageOK(tasks', state', ticket, submitted)
  BY <1>1, MergeReachesStage
<1>4. PendingOK(writes', state', ticket, interrupts', submitted)
  BY <1>1 DEF PendingOK, NoWrites
<1>5. FreshOK(row, state', resume)
  BY <1>1 DEF WorkflowInv, RowOK, FreshOK
<1>6. ReportedOK(tasks', state', ticket, submitted)
  <2>1. CASE tasks = {"report"}
    <3>1. tasks' = {}
      BY <1>1, <2>1, WhatFollows
    <3>2. /\ Merged["final_report"] = writes["report"]["final_report"]
          /\ Merged["retrieved_evidence"] = state["retrieved_evidence"]
      BY <1>1, <2>1, MergedChannels
    <3>3. ReportOK(writes["report"]["final_report"], state["retrieved_evidence"],
                   ticket, submitted)
      BY <1>1, <2>1 DEF ContentInv, PendingOK, UpdateHolds
    <3> QED
      BY <1>1, <3>1, <3>2, <3>3 DEF ReportedOK
  <2>2. CASE tasks # {"report"}
    <3>1. Merged["final_report"] = state["final_report"]
      BY <1>1, <2>2, MergedChannels
    <3> QED
      BY <1>1, <3>1 DEF ContentInv, ReportedOK
  <2> QED
    BY <2>1, <2>2
<1>7. PauseOK(tasks', state', interrupts', resume)
  <2>1. ASSUME resume # None
        PROVE  tasks' \in {{"ticket"}, {"report"}, {}}
    <3>1. tasks \in {{"approval_gate"}, {"ticket"}, {"report"}}
      BY <1>1, <2>1 DEF ContentInv, PauseOK
    <3>2. CASE tasks = {"approval_gate"}
      BY <1>1, <3>2, WhatFollows
    <3>3. CASE tasks = {"ticket"}
      BY <1>1, <3>3, WhatFollows
    <3>4. CASE tasks = {"report"}
      BY <1>1, <3>4, WhatFollows
    <3> QED
      BY <3>1, <3>2, <3>3, <3>4
  <2> QED
    BY <1>1, <2>1 DEF PauseOK
<1> QED
  BY <1>1, <1>3, <1>4, <1>5, <1>6, <1>7 DEF ContentInv

-----------------------------------------------------------------------------
(* The calls, and their end. *)

LEMMA InitEstablishesContent == ASSUME Init PROVE ContentInv
<1>1. PendingOK(writes, state, ticket, interrupts, submitted)
  BY DEF Init, PendingOK, NoWrites
<1>2. /\ state["approval_decision"] = None /\ state["ticket_record"] = None
      /\ state["final_report"] = NoReport
  BY DEF Init, InitialState
<1>3. tasks = {} /\ interrupts = NoRequest /\ resume = None
  BY DEF Init
<1> QED
  BY <1>1, <1>2, <1>3 DEF ContentInv, StageOK, FreshOK, ReportedOK, PauseOK

(* The ticket node may raise with its ticket there; no other node opens one. *)
LEMMA TicketsStay ==
  ASSUME WorkflowInv, [Next]_vars
  PROVE  ticket = None \/ ticket' = ticket
<1>1. ticket \in {None, "CHG-DEMO"}
  BY DEF WorkflowInv, TicketOK
<1>2. ticket' \in {ticket, "CHG-DEMO"}
  BY DEF Next, ServerStep, NodeStep, CreateAssessment, Retrieve, SubmitApproval,
       ArchitectureAnalyst, SecurityAnalyst, Planner, Reviewer, GateNotRequired,
       GatePause, GateReenter, Ticket, Report, Raise, PersistAndRespond, EndOfStep,
       Save, CallFails, Crash, BackToSaved, vars
<1> QED
  BY <1>1, <1>2

LEMMA RaiseKeepsContent ==
  ASSUME WorkflowInv, ContentInv, NEW node, Raise(node) PROVE ContentInv'
<1>1. UNCHANGED <<state, tasks, writes, interrupts, resume, row, submitted>>
  BY DEF Raise, history
<1>2. ticket = None \/ ticket' = ticket
  BY DEF Raise, WorkflowInv, TicketOK
<1>3. /\ PendingOK(writes, state, ticket', interrupts, submitted)
      /\ StageOK(tasks, state, ticket', submitted)
      /\ ReportedOK(tasks, state, ticket', submitted)
  BY <1>2, TicketIsStillEnough DEF ContentInv
<1> QED
  BY <1>1, <1>3 DEF ContentInv

(* A run starts from channels nothing has been decided in. *)
LEMMA CreateKeepsContent ==
  ASSUME WorkflowInv, ContentInv, CreateAssessment PROVE ContentInv'
<1>1. row["status"] = "absent" /\ "status" \in DOMAIN row
  BY DEF CreateAssessment, WorkflowInv, RowOK
<1>2. tasks = {} /\ DOMAIN writes = {}
  BY <1>1 DEF WorkflowInv, RowOK, WritesOK
<1>3. /\ state["approval_decision"] = None /\ state["ticket_record"] = None
      /\ state["final_report"] = NoReport /\ resume = None
  BY <1>1 DEF ContentInv, FreshOK
<1>4. interrupts = NoRequest
  BY <1>2 DEF ContentInv, PauseOK
<1>5. /\ row'["status"] = "pending" /\ tasks' = {"retrieve"}
      /\ UNCHANGED <<state, writes, interrupts, resume, ticket, submitted>>
  BY <1>1 DEF CreateAssessment, history
<1>6. PendingOK(writes, state, ticket, interrupts, submitted)
  BY DEF ContentInv
<1>7. StageOK({"retrieve"}, state, ticket, submitted)
  BY <1>3 DEF StageOK
<1>8. ReportedOK({"retrieve"}, state, ticket, submitted)
  BY <1>3 DEF ReportedOK
<1>9. PauseOK({"retrieve"}, state, interrupts, resume)
  BY <1>3, <1>4 DEF PauseOK
<1> QED
  BY <1>5, <1>6, <1>7, <1>8, <1>9 DEF ContentInv, FreshOK

LEMMA SubmitKeepsContent ==
  ASSUME WorkflowInv, ContentInv, NEW approved \in BOOLEAN, SubmitApproval(approved)
  PROVE  ContentInv'
<1>1. /\ submitted \subseteq submitted'
      /\ UNCHANGED <<state, tasks, writes, interrupts, row, ticket>>
  BY DEF SubmitApproval, graph
<1>2. interrupts # NoRequest
  BY DEF SubmitApproval, IsAwaitingApproval
<1>3. tasks = {"approval_gate"}
  BY <1>2 DEF ContentInv, PauseOK
<1>4. /\ PendingOK(writes, state, ticket, interrupts, submitted')
      /\ StageOK(tasks, state, ticket, submitted')
      /\ ReportedOK(tasks, state, ticket, submitted')
  BY <1>1, MoreIsStillEnough DEF ContentInv
<1>5. FreshOK(row, state, resume')
  BY <1>3 DEF FreshOK, WorkflowInv, RowOK
<1>6. PauseOK(tasks, state, interrupts, resume')
  BY <1>2, <1>3 DEF ContentInv, PauseOK
<1> QED
  BY <1>1, <1>4, <1>5, <1>6 DEF ContentInv

LEMMA PersistKeepsContent ==
  ASSUME WorkflowInv, ContentInv, PersistAndRespond PROVE ContentInv'
<1> DEFINE status == IF IsAwaitingApproval THEN "awaiting_approval" ELSE state.status
           told   == IF state.final_report # NoReport THEN state.final_report ELSE row.state
<1>1. row' = [status |-> status, state |-> told]
  BY DEF PersistAndRespond
<1>2. status # "absent"
  BY DEF Statuses, WorkflowInv, StateOK
<1> HIDE DEF status, told
<1>3. row'["status"] # "absent"
  BY <1>1, <1>2
<1>4. FreshOK(row', state, None) /\ PauseOK(tasks, state, interrupts, None)
  BY <1>3 DEF FreshOK, ContentInv, PauseOK
<1> QED
  BY <1>4 DEF PersistAndRespond, ContentInv, graph

LEMMA SaveKeepsContent == ASSUME ContentInv, Save PROVE ContentInv'
BY DEF Save, ContentInv, history

(* What is left is a run that was saved, with no decision under way. *)
LEMMA BackKeepsContent ==
  ASSUME WorkflowInv, SavedContent, CallFails \/ Crash PROVE ContentInv'
<1>1. /\ state' = saved.state /\ tasks' = saved.tasks /\ writes' = saved.writes
      /\ interrupts' = saved.interrupts /\ resume' = None
      /\ UNCHANGED <<ticket, submitted>>
      /\ call # "idle"
  BY DEF CallFails, Crash, BackToSaved
<1>2. row["status"] # "absent" /\ "status" \in DOMAIN row
  BY <1>1 DEF WorkflowInv, RowOK
<1>3. row' = row \/ row' = [row EXCEPT !.status = "failed"]
  BY DEF CallFails, Crash
<1>4. row'["status"] # "absent"
  BY <1>2, <1>3
<1>5. FreshOK(row', state', resume')
  BY <1>4 DEF FreshOK
<1> QED
  BY <1>1, <1>5 DEF SavedContent, ContentOfSaved, ContentInv

LEMMA NextKeepsSavedContent ==
  ASSUME WorkflowInv, ContentInv, SavedContent, [Next]_vars PROVE SavedContent'
<1>1. CASE Save
  <2>1. /\ saved'.state = state /\ saved'.tasks = tasks /\ saved'.writes = writes
        /\ saved'.interrupts = interrupts
        /\ UNCHANGED <<state, ticket, submitted>>
    BY <1>1 DEF Save, Checkpoint, history
  <2>2. PauseOK(tasks, state, interrupts, None)
    BY DEF ContentInv, PauseOK
  <2> QED
    BY <2>1, <2>2 DEF ContentInv, SavedContent, ContentOfSaved
<1>2. CASE ~Save
  <2>1. saved' = saved /\ submitted \subseteq submitted'
    BY <1>2 DEF Next, ServerStep, NodeStep, CreateAssessment, Retrieve, SubmitApproval,
         ArchitectureAnalyst, SecurityAnalyst, Planner, Reviewer, GateNotRequired,
         GatePause, GateReenter, Ticket, Report, Raise, PersistAndRespond, EndOfStep,
         CallFails, Crash, BackToSaved, vars, graph, history, rest
  <2>2. ticket = None \/ ticket' = ticket
    BY TicketsStay
  <2>3. ContentOfSaved(saved, ticket', submitted)
    BY <2>2, TicketIsStillEnough DEF SavedContent, ContentOfSaved
  <2>4. ContentOfSaved(saved, ticket', submitted')
    BY <2>1, <2>3, MoreIsStillEnough DEF ContentOfSaved
  <2>5. saved.state["approval_decision"] \in {None, state'["approval_decision"]}
    <3>1. CASE EndOfStep
      <4>1. DOMAIN writes = tasks /\ tasks # {} /\ state' = Merged
        BY <3>1 DEF EndOfStep
      <4>2. CASE tasks = {"approval_gate"}
        <5>1. state["approval_decision"] = None
          BY <4>2 DEF ContentInv, StageOK
        <5> QED
          BY <5>1 DEF SavedContent
      <4>3. CASE tasks # {"approval_gate"}
        <5>1. state'["approval_decision"] = state["approval_decision"]
          BY <4>1, <4>3, MergedChannels
        <5> QED
          BY <5>1 DEF SavedContent
      <4> QED
        BY <4>2, <4>3
    <3>2. CASE CallFails \/ Crash
      <4>1. state' = saved.state
        BY <3>2 DEF CallFails, Crash, BackToSaved
      <4> QED
        BY <4>1
    <3>3. CASE ~EndOfStep /\ ~CallFails /\ ~Crash
      <4>1. state' = state
        BY <1>2, <3>3 DEF Next, ServerStep, NodeStep, CreateAssessment, Retrieve,
             SubmitApproval, ArchitectureAnalyst, SecurityAnalyst, Planner, Reviewer,
             GateNotRequired, GatePause, GateReenter, Ticket, Report, Raise,
             PersistAndRespond, vars, graph, rest
      <4> QED
        BY <4>1 DEF SavedContent
    <3> QED
      BY <3>1, <3>2, <3>3
  <2> QED
    BY <2>1, <2>4, <2>5 DEF SavedContent
<1> QED
  BY <1>1, <1>2

LEMMA NextKeepsContent ==
  ASSUME WorkflowInv, ContentInv, SavedContent, [Next]_vars PROVE ContentInv'
<1>1. CASE CreateAssessment
  BY <1>1, CreateKeepsContent
<1>2. CASE \E approved \in BOOLEAN : SubmitApproval(approved)
  BY <1>2, SubmitKeepsContent
<1>3. CASE NodeStep
  BY <1>3, RetrieveKeepsContent, ArchitectureKeepsContent, SecurityKeepsContent,
     PlannerKeepsContent, ReviewerKeepsContent, GateNotRequiredKeepsContent,
     GatePauseKeepsContent, GateReenterKeepsContent, TicketKeepsContent,
     ReportKeepsContent DEF NodeStep
<1>4. CASE EndOfStep
  BY <1>4, EndOfStepKeepsContent
<1>5. CASE \E node \in MayRaise : Raise(node)
  BY <1>5, RaiseKeepsContent
<1>6. CASE PersistAndRespond
  BY <1>6, PersistKeepsContent
<1>7. CASE Save
  BY <1>7, SaveKeepsContent
<1>8. CASE CallFails \/ Crash
  BY <1>8, BackKeepsContent
<1>9. CASE UNCHANGED vars
  BY <1>9 DEF vars, graph, history, ContentInv
<1> QED
  BY <1>1, <1>2, <1>3, <1>4, <1>5, <1>6, <1>7, <1>8, <1>9 DEF Next, ServerStep

-----------------------------------------------------------------------------
(* The content of every superstep is what the next one relies on. *)
THEOREM ContentInvariance == Spec => [](ContentInv /\ SavedContent)
<1>1. Init => ContentInv /\ SavedContent
  <2> SUFFICES ASSUME Init PROVE ContentInv /\ SavedContent
    OBVIOUS
  <2>1. ContentInv
    BY InitEstablishesContent
  <2>2. /\ saved.state = state /\ saved.tasks = tasks /\ saved.writes = writes
        /\ saved.interrupts = interrupts /\ resume = None
    BY DEF Init, Checkpoint
  <2> QED
    BY <2>1, <2>2 DEF ContentInv, SavedContent, ContentOfSaved
<1>2. WorkflowInv /\ ContentInv /\ SavedContent /\ [Next]_vars
        => ContentInv' /\ SavedContent'
  BY NextKeepsContent, NextKeepsSavedContent
<1> QED
  BY <1>1, <1>2, WorkflowInvariance, PTL DEF Spec

(* Whatever the agents wrote, a report makes no finding without support    *)
(* and carries no citation that was not retrieved.                         *)
THEOREM ReportsAreGrounded == Spec => []ReportIsGrounded
<1>1. ContentInv => ReportIsGrounded
  BY DEF ContentInv, ReportedOK, ReportOK, GroundedFindings, GroundedPlan,
         ReportIsGrounded, report
<1> QED
  BY <1>1, ContentInvariance, PTL

(* The approval block of a report is true of the report's own findings and *)
(* plan, of the answers that were sent, and of the ticket there is.        *)
THEOREM ApprovalsMatchReports == Spec => []ApprovalMatchesReport
<1>1. ContentInv => ApprovalMatchesReport
  BY DEF ContentInv, ReportedOK, ReportOK, Named, ApprovalMatchesReport, report
<1> QED
  BY <1>1, ContentInvariance, PTL

(* A decision is recorded with the very request that was shown.  It reaches *)
(* the state where the gate's superstep ends, and the gate, run again, had  *)
(* come to the request the checkpoint was paused on.                        *)
THEOREM DecisionsAreOnWhatWasShown == Spec => DecidedOnWhatWasShown
<1>1. ASSUME WorkflowInv, ContentInv, SavedContent, [Next]_vars,
             state'.approval_decision \notin {None, state.approval_decision}
      PROVE  state'.approval_request = interrupts
  <2>1. EndOfStep
    <3>1. state' # state
      BY <1>1
    <3>2. ~CallFails /\ ~Crash
      <4>1. state' # saved.state
        BY <1>1 DEF SavedContent
      <4> QED
        BY <4>1 DEF CallFails, Crash, BackToSaved
    <3> QED
      BY <1>1, <3>1, <3>2
         DEF Next, ServerStep, NodeStep, CreateAssessment, SubmitApproval, Retrieve,
             ArchitectureAnalyst, SecurityAnalyst, Planner, Reviewer, GateNotRequired,
             GatePause, GateReenter, Ticket, Report, Raise, PersistAndRespond,
             Save, vars, graph, rest
  <2>2. DOMAIN writes = tasks /\ tasks # {} /\ state' = Merged
    BY <2>1 DEF EndOfStep
  <2>3. tasks = {"approval_gate"}
    BY <1>1, <2>2, MergedChannels
  <2>4. /\ state'["approval_request"] = writes["approval_gate"]["approval_request"]
        /\ state'["approval_decision"] = writes["approval_gate"]["approval_decision"]
    BY <1>1, <2>2, <2>3, MergedChannels
  <2>5. writes["approval_gate"]["approval_decision"] # None
          => writes["approval_gate"]["approval_request"] = interrupts
    BY <1>1, <2>2, <2>3 DEF ContentInv, PendingOK, UpdateHolds
  <2> QED
    BY <1>1, <2>4, <2>5
<1>2. WorkflowInv /\ ContentInv /\ SavedContent /\ [Next]_vars
        => [state'.approval_decision \notin {None, state.approval_decision} =>
              state'.approval_request = interrupts]_vars
  BY <1>1
<1> QED
  BY <1>2, WorkflowInvariance, ContentInvariance, PTL DEF Spec, DecidedOnWhatWasShown

-----------------------------------------------------------------------------
(* How often the planner has run.  A run that can go on, in a call or from *)
(* a pause, has counted each node as its superstep says; a run that cannot *)
(* may have lost what a node returned, but has still counted within bounds.*)

Times(tr, node) == tr[<<node, "node_completed">>]

Again(c) == c["will_revise"]

\* The reviewer counts a revision when it asks for one.
RevisionCounted(u, rc) ==
  /\ Again(u) => u["revision_count"] = rc + 1
  /\ ~Again(u) => u["revision_count"] = rc

\* A node of the superstep has been counted once it has returned.
Returned(W, node) == IF node \in DOMAIN W THEN 1 ELSE 0

RunCounted(T, W, tr, rc) ==
  /\ T = {"retrieve"} =>
       /\ rc = 0 /\ Times(tr, "planner") = 0
       /\ Times(tr, "architecture") = 0 /\ Times(tr, "security") = 0
  /\ T = {"architecture", "security"} =>
       /\ rc = 0 /\ Times(tr, "planner") = 0
       /\ Times(tr, "architecture") = Returned(W, "architecture")
       /\ Times(tr, "security") = Returned(W, "security")
  /\ T \notin {{"retrieve"}, {"architecture", "security"}} =>
       Times(tr, "architecture") = 1 /\ Times(tr, "security") = 1
  /\ T = {"planner"} => Times(tr, "planner") = rc + Returned(W, "planner")
  /\ T \notin {{"retrieve"}, {"architecture", "security"}, {"planner"}} =>
       Times(tr, "planner") = 1 + rc
  /\ "reviewer" \in DOMAIN W => RevisionCounted(W["reviewer"], rc)

RunBounded(tr, s) ==
  /\ Times(tr, "planner") <= 1 + max_revisions
  /\ Times(tr, "planner") > 0 =>
       Times(tr, "architecture") = 1 /\ Times(tr, "security") = 1
  /\ s["final_report"] # NoReport => Times(tr, "planner") = 1 + s["revision_count"]

Uncounted(tr, s) ==
  /\ s["revision_count"] = 0 /\ Times(tr, "planner") = 0
  /\ Times(tr, "architecture") = 0 /\ Times(tr, "security") = 0

CountInv ==
  /\ call # "idle" \/ interrupts # NoRequest =>
       RunCounted(tasks, writes, trace, state["revision_count"])
  /\ RunBounded(trace, state)
  /\ row["status"] = "absent" => Uncounted(trace, state) /\ call = "idle"

(* What is saved of a pause or of a report was counted to its end, and the *)
(* run has not gone back behind the gate since.                            *)
Counted(tr, rc) ==
  /\ Times(tr, "architecture") = 1 /\ Times(tr, "security") = 1
  /\ Times(tr, "planner") = 1 + rc

SavedCount ==
  saved.interrupts # NoRequest \/ saved.state["final_report"] # NoReport =>
    /\ tasks \in {{"approval_gate"}, {"ticket"}, {"report"}, {}}
    /\ Counted(trace, saved.state["revision_count"])

-----------------------------------------------------------------------------
LEMMA EmitCounts ==
  ASSUME TraceOK(trace), NEW node \in Nodes, Emit(node, "node_completed")
  PROVE  /\ \A m \in Nodes : m # node => Times(trace', m) = Times(trace, m)
         /\ Times(trace, node) < TraceCap[<<node, "node_completed">>]
              => Times(trace', node) = Times(trace, node) + 1
<1>1. <<node, "node_completed">> \in Events
  BY EventsAre
<1>2. \A m \in Nodes : m # node =>
        /\ <<m, "node_completed">> \in Events
        /\ <<m, "node_completed">> # <<node, "node_completed">>
  BY EventsAre
<1>3. trace' = OneMore(trace, <<node, "node_completed">>)
  BY DEF Emit
<1> QED
  BY <1>1, <1>2, <1>3, OneMoreCounts DEF Times

LEMMA EmitCountsNothing ==
  ASSUME TraceOK(trace), NEW node, NEW event, <<node, event>> \in Events,
         Emit(node, event), event # "node_completed"
  PROVE  \A m \in Nodes : Times(trace', m) = Times(trace, m)
<1>1. \A m \in Nodes : /\ <<m, "node_completed">> \in Events
                       /\ <<m, "node_completed">> # <<node, event>>
  BY EventsAre
<1>2. trace' = OneMore(trace, <<node, event>>)
  BY DEF Emit
<1> QED
  BY <1>1, <1>2, OneMoreCounts DEF Times

LEMMA TimesAreNatural ==
  ASSUME WorkflowInv
  PROVE  /\ \A m \in Nodes : Times(trace, m) \in Nat
         /\ state["revision_count"] \in 0..max_revisions
         /\ max_revisions \in Nat
<1>1. trace \in [Events -> Nat]
  BY DEF WorkflowInv, TraceOK
<1> QED
  BY <1>1, EventsAre, WorkflowAssumption DEF WorkflowInv, StateOK, Times, WorkflowAssumption

LEMMA CapsSuffice ==
  /\ TraceCap[<<"planner", "node_completed">>] \in Nat
  /\ max_revisions < TraceCap[<<"planner", "node_completed">>]
  /\ TraceCap[<<"architecture", "node_completed">>] \in Nat \ {0}
  /\ TraceCap[<<"security", "node_completed">>] \in Nat \ {0}
<1>1. {"planner", "architecture", "security"} \subseteq Nodes
  BY DEF Nodes
<1> QED
  BY <1>1, EventsAre, TraceAssumption DEF TraceAssumption

(* No report is there before the run has ended. *)
LEMMA NoReportYet ==
  ASSUME ContentInv, tasks # {} PROVE state["final_report"] = NoReport
BY DEF ContentInv, ReportedOK

LEMMA FinishKeepsCount ==
  ASSUME WorkflowInv, ContentInv, CountInv, NEW node, Runnable(node), NEW update,
         node = "reviewer" => RevisionCounted(update, state["revision_count"]),
         Finish(node, update),
         UNCHANGED <<state, tasks, interrupts, call, row>>
  PROVE  CountInv'
<1> DEFINE rc == state["revision_count"]
           P  == Times(trace, "planner")
           A  == Times(trace, "architecture")
           S  == Times(trace, "security")
<1>1. /\ call # "idle" /\ node \in tasks /\ node \notin DOMAIN writes
      /\ tasks \in Supersteps /\ node \in Nodes
  BY SupersteppedNodes DEF Runnable, WorkflowInv, WritesOK
<1>2. /\ RunCounted(tasks, writes, trace, rc)
      /\ row["status"] # "absent"
      /\ state["final_report"] = NoReport
  BY <1>1, NoReportYet DEF CountInv
<1>3. /\ \A m \in Nodes : m # node => Times(trace', m) = Times(trace, m)
      /\ Times(trace, node) < TraceCap[<<node, "node_completed">>]
           => Times(trace', node) = Times(trace, node) + 1
  BY <1>1, EmitCounts DEF Finish, WorkflowInv
<1>4. /\ DOMAIN writes' = DOMAIN writes \cup {node} /\ writes'[node] = update
      /\ \A n \in DOMAIN writes : writes'[n] = writes[n]
  BY <1>1 DEF Finish
<1>5. /\ P \in Nat /\ A \in Nat /\ S \in Nat /\ rc \in Nat /\ rc <= max_revisions
      /\ max_revisions \in Nat
  BY TimesAreNatural DEF Nodes
<1>6. {"planner", "architecture", "security"} \subseteq Nodes
  BY DEF Nodes
<1>7. \A m : Returned(writes', m) = IF m = node THEN 1 ELSE Returned(writes, m)
  BY <1>4 DEF Returned
<1>8. Returned(writes, node) = 0
  BY <1>1 DEF Returned
<1>9. "reviewer" \in DOMAIN writes' => RevisionCounted(writes'["reviewer"], rc)
  BY <1>2, <1>4 DEF RunCounted
<1> HIDE DEF rc
<1>10. CASE node \in {"architecture", "security"}
  <2>1. tasks = {"architecture", "security"}
    BY <1>1, <1>10, RunningIsTheSuperstep
  <2>2. rc = 0 /\ P = 0 /\ A = Returned(writes, "architecture")
        /\ S = Returned(writes, "security")
    BY <1>2, <2>1 DEF RunCounted
  <2>3. /\ Times(trace', "planner") = 0
        /\ Times(trace', "architecture") = Returned(writes', "architecture")
        /\ Times(trace', "security") = Returned(writes', "security")
    <3>1. CASE node = "architecture"
      BY <1>3, <1>5, <1>6, <1>7, <1>8, <2>2, <3>1, CapsSuffice
    <3>2. CASE node = "security"
      BY <1>3, <1>5, <1>6, <1>7, <1>8, <2>2, <3>2, CapsSuffice
    <3> QED
      BY <1>10, <3>1, <3>2
  <2>4. RunCounted(tasks, writes', trace', rc)
    BY <1>9, <2>1, <2>2, <2>3 DEF RunCounted
  <2>5. RunBounded(trace', state)
    BY <1>2, <1>5, <2>3 DEF RunBounded
  <2> QED
    BY <1>2, <2>4, <2>5 DEF CountInv, rc
<1>11. CASE node = "planner"
  <2>1. tasks = {"planner"}
    BY <1>1, <1>11, RunningIsTheSuperstep
  <2>2. P = rc /\ A = 1 /\ S = 1
    BY <1>2, <1>5, <1>8, <1>11, <2>1 DEF RunCounted
  <2>3. /\ Times(trace', "planner") = rc + Returned(writes', "planner")
        /\ Times(trace', "planner") <= 1 + max_revisions
        /\ Times(trace', "architecture") = 1 /\ Times(trace', "security") = 1
    BY <1>3, <1>5, <1>6, <1>7, <1>11, <2>2, CapsSuffice
  <2>4. RunCounted(tasks, writes', trace', rc)
    BY <1>9, <2>1, <2>3 DEF RunCounted
  <2>5. RunBounded(trace', state)
    BY <1>2, <2>3 DEF RunBounded
  <2> QED
    BY <1>2, <2>4, <2>5 DEF CountInv, rc
<1>12. CASE node \notin {"architecture", "security", "planner"}
  <2>1. tasks = {node}
    BY <1>1, <1>12, RunningIsTheSuperstep
  <2>2. /\ Times(trace', "planner") = P /\ Times(trace', "architecture") = A
        /\ Times(trace', "security") = S
    BY <1>3, <1>6, <1>12
  <2>3. RunCounted(tasks, writes', trace', rc)
    BY <1>2, <1>9, <1>12, <2>1, <2>2 DEF RunCounted
  <2>4. RunBounded(trace', state)
    BY <2>2 DEF CountInv, RunBounded
  <2> QED
    BY <1>2, <2>3, <2>4 DEF CountInv, rc
<1> QED
  BY <1>10, <1>11, <1>12

LEMMA AnalystsKeepCount ==
  ASSUME WorkflowInv, ContentInv, CountInv,
         Retrieve \/ ArchitectureAnalyst \/ SecurityAnalyst \/ Planner
  PROVE  CountInv'
<1>1. PICK node \in {"retrieve", "architecture", "security", "planner"} :
        Runnable(node) /\ \E update : Finish(node, update)
  BY DEF Retrieve, ArchitectureAnalyst, SecurityAnalyst, Planner
<1>2. UNCHANGED <<state, tasks, interrupts, call, row>>
  BY DEF Retrieve, ArchitectureAnalyst, SecurityAnalyst, Planner, rest
<1> QED
  BY <1>1, <1>2, FinishKeepsCount

LEMMA LateNodesKeepCount ==
  ASSUME WorkflowInv, ContentInv, CountInv, GateNotRequired \/ Ticket \/ Report
  PROVE  CountInv'
<1>1. PICK node \in {"approval_gate", "ticket", "report"} :
        Runnable(node) /\ \E update : Finish(node, update)
  BY DEF GateNotRequired, Ticket, Report
<1>2. UNCHANGED <<state, tasks, interrupts, call, row>>
  BY DEF GateNotRequired, Ticket, Report, rest
<1> QED
  BY <1>1, <1>2, FinishKeepsCount

(* The reviewer counts the revision it asks for, before the planner runs. *)
LEMMA ReviewerKeepsCount ==
  ASSUME WorkflowInv, ContentInv, CountInv, Reviewer PROVE CountInv'
<1> DEFINE ids      == state.retrieved_evidence
           decision == ReviewDecision(ids, state.architecture_findings,
                                      state.risk_findings, state.modernization_plan)
           again    == WillRevise(decision, state.revision_count)
           count    == state.revision_count + (IF again THEN 1 ELSE 0)
           update   == [review_decision       |-> decision,
                        modernization_plan    |-> CleanedPlan(state.modernization_plan, ids),
                        architecture_findings |-> KeptFindings(state.architecture_findings, ids),
                        risk_findings         |-> KeptFindings(state.risk_findings, ids),
                        revision_count        |-> count,
                        will_revise           |-> again]
<1>1. Finish("reviewer", update) /\ Runnable("reviewer")
  BY DEF Reviewer
<1>2. UNCHANGED <<state, tasks, interrupts, call, row>>
  BY DEF Reviewer, rest
<1>3. update["revision_count"] = count
  <2> HIDE DEF ids, decision, again, count
  <2> QED
    OBVIOUS
<1>4. Again(update) <=> again
  <2> HIDE DEF ids, decision, again, count
  <2> QED
    BY DEF Again
<1>5. /\ again => count = state["revision_count"] + 1
      /\ ~again => count = state["revision_count"]
  <2> HIDE DEF again
  <2> QED
    BY TimesAreNatural
<1> HIDE DEF update, again, count
<1>6. RevisionCounted(update, state["revision_count"])
  BY <1>3, <1>4, <1>5 DEF RevisionCounted
<1> QED
  BY <1>1, <1>2, <1>6, FinishKeepsCount

(* The gate traces its pause, and its own end, but no other node's. *)
LEMMA GateKeepsCount ==
  ASSUME WorkflowInv, ContentInv, CountInv, GatePause \/ GateReenter PROVE CountInv'
<1>1. /\ call # "idle" /\ tasks = {"approval_gate"}
      /\ UNCHANGED <<state, tasks, call, row>>
  BY RunningIsTheSuperstep DEF GatePause, GateReenter, Runnable, rest, history
<1>2. \A m \in Nodes \ {"approval_gate"} : Times(trace', m) = Times(trace, m)
  <2>1. CASE GatePause
    BY <2>1, EmitCountsNothing, EventsAre DEF GatePause, WorkflowInv
  <2>2. CASE GateReenter
    <3> DEFINE once == OneMore(trace, <<"approval_gate", "approval_requested">>)
    <3>1. \A m \in Nodes \ {"approval_gate"} :
            /\ <<m, "node_completed">> \in Events
            /\ <<m, "node_completed">> # <<"approval_gate", "approval_requested">>
            /\ <<m, "node_completed">> # <<"approval_gate", "node_completed">>
      BY EventsAre
    <3>2. <<"approval_gate", "node_completed">> \in Events
      BY EventsAre DEF Nodes
    <3>3. /\ TraceOK(once)
          /\ \A m \in Nodes \ {"approval_gate"} :
               once[<<m, "node_completed">>] = trace[<<m, "node_completed">>]
      BY <3>1, OneMoreCounts, EventsAre DEF WorkflowInv
    <3>4. trace' = OneMore(once, <<"approval_gate", "node_completed">>)
      BY <2>2 DEF GateReenter
    <3> HIDE DEF once
    <3>5. \A m \in Nodes \ {"approval_gate"} :
            trace'[<<m, "node_completed">>] = once[<<m, "node_completed">>]
      BY <3>1, <3>2, <3>3, <3>4, OneMoreCounts
    <3> QED
      BY <3>3, <3>5 DEF Times
  <2> QED
    BY <2>1, <2>2
<1>3. /\ Times(trace', "planner") = Times(trace, "planner")
      /\ Times(trace', "architecture") = Times(trace, "architecture")
      /\ Times(trace', "security") = Times(trace, "security")
  BY <1>2 DEF Nodes
<1>4. "reviewer" \notin DOMAIN writes'
  <2>1. "reviewer" \notin DOMAIN writes
    BY <1>1 DEF WorkflowInv, WritesOK
  <2> QED
    BY <2>1 DEF GatePause, GateReenter
<1>5. RunCounted(tasks, writes', trace', state["revision_count"])
  BY <1>1, <1>3, <1>4 DEF CountInv, RunCounted
<1>6. RunBounded(trace', state)
  BY <1>3 DEF CountInv, RunBounded
<1> QED
  BY <1>1, <1>5, <1>6 DEF CountInv

(* The superstep ends: the revisions counted in the state, and the next    *)
(* superstep, are those the reviewer asked for.                            *)
LEMMA EndOfStepKeepsCount ==
  ASSUME WorkflowInv, ContentInv, CountInv, EndOfStep PROVE CountInv'
<1> DEFINE rc == state["revision_count"]
<1>1. /\ call # "idle" /\ DOMAIN writes = tasks /\ tasks # {} /\ state' = Merged
      /\ tasks' = NextNodes(tasks, Merged)
      /\ writes' = NoWrites /\ interrupts' = NoRequest
      /\ UNCHANGED <<call, row, trace>>
  BY DEF EndOfStep, NextNodes
<1>2. tasks \in Supersteps
  BY DEF WorkflowInv, WritesOK
<1>3. RunCounted(tasks, writes, trace, rc) /\ row["status"] # "absent"
  BY <1>1 DEF CountInv
<1>4. rc \in Nat /\ rc <= max_revisions /\ max_revisions \in Nat
  BY TimesAreNatural
<1>5. "revision_count" \in Channels /\ "will_revise" \in Channels
      /\ "final_report" \in Channels
  BY ChannelsAre
<1>6. tasks # {"reviewer"} => Merged["revision_count"] = rc
  BY <1>1, <1>2, <1>5, MergedValue, ReturnsAre DEF Supersteps
<1>7. tasks = {"reviewer"} =>
        /\ Merged["revision_count"] = writes["reviewer"]["revision_count"]
        /\ Merged["will_revise"] = writes["reviewer"]["will_revise"]
  BY <1>1, <1>5, MergedValue, ReturnsAre
<1>8. \A n : Returned(NoWrites, n) = 0
  BY DEF Returned, NoWrites
<1>9. "reviewer" \notin DOMAIN NoWrites
  BY DEF NoWrites
<1>10. Merged["revision_count"] \in 0..max_revisions
  BY <1>1, MergeKeepsState DEF StateOK
<1> HIDE DEF rc
<1>11. /\ RunCounted(tasks', NoWrites, trace, Merged["revision_count"])
       /\ Times(trace, "planner") <= 1 + max_revisions
       /\ tasks' = {} => Times(trace, "planner") = 1 + Merged["revision_count"]
  <2>1. CASE tasks = {"retrieve"}
    <3>1. tasks' = {"architecture", "security"}
      BY <1>1, <2>1, WhatFollows
    <3> QED
      BY <1>3, <1>4, <1>6, <1>8, <1>9, <2>1, <3>1 DEF RunCounted
  <2>2. CASE tasks = {"architecture", "security"}
    <3>1. tasks' = {"planner"}
      BY <1>1, <2>2, WhatFollows
    <3>2. /\ Times(trace, "architecture") = 1 /\ Times(trace, "security") = 1
          /\ Times(trace, "planner") = 0 /\ rc = 0
      BY <1>1, <1>3, <2>2 DEF RunCounted, Returned
    <3> QED
      BY <1>4, <1>6, <1>8, <1>9, <2>2, <3>1, <3>2 DEF RunCounted
  <2>3. CASE tasks = {"planner"}
    <3>1. tasks' = {"reviewer"}
      BY <1>1, <2>3, WhatFollows
    <3>2. /\ Times(trace, "architecture") = 1 /\ Times(trace, "security") = 1
          /\ Times(trace, "planner") = 1 + rc
      BY <1>1, <1>3, <1>4, <2>3 DEF RunCounted, Returned
    <3> QED
      BY <1>4, <1>6, <1>8, <1>9, <2>3, <3>1, <3>2 DEF RunCounted
  <2>4. CASE tasks = {"reviewer"}
    <3>1. /\ Again(Merged) => tasks' = {"planner"}
          /\ ~Again(Merged) => tasks' = {"approval_gate"}
      <4>1. tasks' = ShouldRevise(Merged)
        BY <1>1, <2>4 DEF NextNodes, Successors
      <4> QED
        BY <4>1 DEF ShouldRevise, Again
    <3>2. /\ Again(Merged) => Merged["revision_count"] = rc + 1
          /\ ~Again(Merged) => Merged["revision_count"] = rc
      <4>1. RevisionCounted(writes["reviewer"], rc)
        BY <1>1, <1>3, <2>4 DEF RunCounted
      <4>2. Again(Merged) <=> Again(writes["reviewer"])
        BY <1>7, <2>4 DEF Again
      <4> QED
        BY <1>7, <2>4, <4>1, <4>2 DEF RevisionCounted
    <3>3. /\ Times(trace, "architecture") = 1 /\ Times(trace, "security") = 1
          /\ Times(trace, "planner") = 1 + rc
      BY <1>3, <2>4 DEF RunCounted
    <3>4. CASE Again(Merged)
      <4>1. tasks' = {"planner"} /\ Merged["revision_count"] = rc + 1
        BY <3>1, <3>2, <3>4
      <4> QED
        BY <1>4, <1>8, <1>9, <3>3, <4>1 DEF RunCounted
    <3>5. CASE ~Again(Merged)
      <4>1. tasks' = {"approval_gate"} /\ Merged["revision_count"] = rc
        BY <3>1, <3>2, <3>5
      <4> QED
        BY <1>4, <1>8, <1>9, <3>3, <4>1 DEF RunCounted
    <3> QED
      BY <3>4, <3>5
  <2>5. CASE tasks \in {{"approval_gate"}, {"ticket"}, {"report"}}
    <3>1. tasks' \in {{"ticket"}, {"report"}, {}}
      <4>1. CASE tasks = {"approval_gate"}
        BY <1>1, <4>1, WhatFollows
      <4>2. CASE tasks = {"ticket"}
        BY <1>1, <4>2, WhatFollows
      <4>3. CASE tasks = {"report"}
        BY <1>1, <4>3, WhatFollows
      <4> QED
        BY <2>5, <4>1, <4>2, <4>3
    <3>2. /\ Times(trace, "architecture") = 1 /\ Times(trace, "security") = 1
          /\ Times(trace, "planner") = 1 + rc
      BY <1>3, <2>5 DEF RunCounted
    <3>3. Merged["revision_count"] = rc
      BY <1>6, <2>5
    <3> QED
      BY <1>4, <1>9, <3>1, <3>2, <3>3 DEF RunCounted
  <2> QED
    BY <1>1, <1>2, <2>1, <2>2, <2>3, <2>4, <2>5 DEF Supersteps
<1>12. ASSUME Merged["final_report"] # NoReport PROVE tasks' = {}
  <2>1. state["final_report"] = NoReport
    BY <1>1, NoReportYet
  <2>2. tasks = {"report"}
    BY <1>1, <1>12, <2>1, MergedChannels
  <2> QED
    BY <1>1, <2>2, WhatFollows
<1>13. RunBounded(trace, Merged)
  <2>1. Times(trace, "planner") > 0 =>
          Times(trace, "architecture") = 1 /\ Times(trace, "security") = 1
    BY DEF CountInv, RunBounded
  <2> QED
    BY <1>11, <1>12, <2>1 DEF RunBounded
<1> QED
  BY <1>1, <1>3, <1>11, <1>13 DEF CountInv

LEMMA RaiseKeepsCount ==
  ASSUME WorkflowInv, CountInv, NEW node \in MayRaise, Raise(node) PROVE CountInv'
<1>1. /\ call # "idle" /\ Emit(node, "node_failed")
      /\ UNCHANGED <<state, tasks, writes, interrupts, call, row>>
  BY DEF Raise, Runnable
<1>2. /\ Times(trace', "planner") = Times(trace, "planner")
      /\ Times(trace', "architecture") = Times(trace, "architecture")
      /\ Times(trace', "security") = Times(trace, "security")
  BY <1>1, EmitCountsNothing, EventsAre DEF WorkflowInv, MayRaise, Nodes
<1>3. RunCounted(tasks, writes, trace', state["revision_count"])
  BY <1>1, <1>2 DEF CountInv, RunCounted
<1>4. RunBounded(trace', state)
  BY <1>2 DEF CountInv, RunBounded
<1> QED
  BY <1>1, <1>3, <1>4 DEF CountInv

LEMMA CreateKeepsCount ==
  ASSUME WorkflowInv, CountInv, CreateAssessment PROVE CountInv'
<1>1. row["status"] = "absent" /\ "status" \in DOMAIN row
  BY DEF CreateAssessment, WorkflowInv, RowOK
<1>2. /\ row'["status"] = "pending" /\ tasks' = {"retrieve"}
      /\ UNCHANGED <<state, writes, trace>>
  BY <1>1 DEF CreateAssessment
<1>3. "reviewer" \notin DOMAIN writes
  BY <1>1 DEF WorkflowInv, RowOK, WritesOK
<1>4. RunCounted({"retrieve"}, writes, trace, state["revision_count"])
  BY <1>1, <1>3 DEF CountInv, Uncounted, RunCounted
<1> QED
  BY <1>2, <1>4 DEF CountInv

(* A call begins from a pause, and ends in one, or for good. *)
LEMMA CallsKeepCount ==
  ASSUME WorkflowInv, ContentInv, CountInv,
         (\E approved \in BOOLEAN : SubmitApproval(approved)) \/ PersistAndRespond
  PROVE  CountInv'
<1>1. /\ UNCHANGED <<state, tasks, writes, interrupts, trace>>
      /\ call' # "idle" => interrupts # NoRequest
      /\ call # "idle" \/ interrupts # NoRequest
  BY DEF SubmitApproval, PersistAndRespond, graph, IsAwaitingApproval
<1>2. row'["status"] # "absent"
  <2>1. CASE \E approved \in BOOLEAN : SubmitApproval(approved)
    <3>1. row' = row /\ interrupts # NoRequest
      BY <2>1 DEF SubmitApproval, IsAwaitingApproval
    <3>2. row["status"] # "absent"
      <4>1. tasks = {"approval_gate"}
        BY <3>1 DEF ContentInv, PauseOK
      <4> QED
        BY <4>1 DEF WorkflowInv, RowOK
    <3> QED
      BY <3>1, <3>2
  <2>2. CASE PersistAndRespond
    <3> DEFINE status == IF IsAwaitingApproval THEN "awaiting_approval" ELSE state.status
               told   == IF state.final_report # NoReport THEN state.final_report ELSE row.state
    <3>1. row' = [status |-> status, state |-> told]
      BY <2>2 DEF PersistAndRespond
    <3>2. status # "absent"
      BY DEF Statuses, WorkflowInv, StateOK
    <3> HIDE DEF status, told
    <3> QED
      BY <3>1, <3>2
  <2> QED
    BY <2>1, <2>2
<1> QED
  BY <1>1, <1>2 DEF CountInv

LEMMA SaveKeepsCount == ASSUME CountInv, Save PROVE CountInv'
BY DEF Save, CountInv

(* Back to what was saved: a pause was counted, and so was a report. *)
LEMMA BackKeepsCount ==
  ASSUME WorkflowInv, SavedInv, SavedContent, CountInv, SavedCount, CallFails \/ Crash
  PROVE  CountInv'
<1>1. /\ state' = saved.state /\ tasks' = saved.tasks /\ writes' = saved.writes
      /\ interrupts' = saved.interrupts /\ call' = "idle" /\ trace' = trace
      /\ call # "idle"
  BY DEF CallFails, Crash, BackToSaved
<1>2. row["status"] # "absent" /\ "status" \in DOMAIN row
  BY <1>1 DEF WorkflowInv, RowOK
<1>3. row' = row \/ row' = [row EXCEPT !.status = "failed"]
  BY DEF CallFails, Crash
<1>4. row'["status"] # "absent"
  BY <1>2, <1>3
<1>5. ASSUME saved.interrupts # NoRequest
      PROVE  RunCounted(saved.tasks, saved.writes, trace, saved.state["revision_count"])
  <2>1. saved.tasks = {"approval_gate"}
    BY <1>5 DEF SavedInv, SavedOK, PausedOK
  <2>2. "reviewer" \notin DOMAIN saved.writes
    BY <2>1 DEF SavedInv, SavedOK, WritesOK
  <2>3. Counted(trace, saved.state["revision_count"])
    BY <1>5 DEF SavedCount
  <2> QED
    BY <2>1, <2>2, <2>3 DEF Counted, RunCounted
<1>6. RunBounded(trace, saved.state)
  BY DEF CountInv, SavedCount, Counted, RunBounded
<1> QED
  BY <1>1, <1>4, <1>5, <1>6 DEF CountInv

LEMMA NextKeepsSavedCount ==
  ASSUME WorkflowInv, SavedInv, ContentInv, SavedContent, CountInv, SavedCount, [Next]_vars
  PROVE  SavedCount'
<1> DEFINE Late == {{"approval_gate"}, {"ticket"}, {"report"}, {}}
<1>1. CASE Save
  <2>1. /\ saved'.state = state /\ saved'.interrupts = interrupts
        /\ UNCHANGED <<tasks, trace>> /\ call # "idle"
    BY <1>1 DEF Save, Checkpoint
  <2>2. state["revision_count"] \in Nat /\ Times(trace, "planner") \in Nat
    BY TimesAreNatural DEF Nodes
  <2>3. ASSUME interrupts # NoRequest
        PROVE  tasks \in Late /\ Counted(trace, state["revision_count"])
    <3>1. tasks = {"approval_gate"}
      BY <2>3 DEF WorkflowInv, PausedOK
    <3> QED
      BY <2>3, <3>1 DEF CountInv, RunCounted, Counted
  <2>4. ASSUME state["final_report"] # NoReport
        PROVE  tasks \in Late /\ Counted(trace, state["revision_count"])
    <3>1. tasks = {}
      BY <2>4 DEF ContentInv, ReportedOK
    <3>2. Times(trace, "planner") = 1 + state["revision_count"]
      BY <2>4 DEF CountInv, RunBounded
    <3>3. Times(trace, "planner") > 0
      BY <2>2, <3>2
    <3> QED
      BY <3>1, <3>2, <3>3 DEF CountInv, RunBounded, Counted
  <2> QED
    BY <2>1, <2>3, <2>4 DEF SavedCount
<1>2. CASE ~Save
  <2>1. saved' = saved
    BY <1>2 DEF Next, ServerStep, NodeStep, CreateAssessment, Retrieve, SubmitApproval,
         ArchitectureAnalyst, SecurityAnalyst, Planner, Reviewer, GateNotRequired,
         GatePause, GateReenter, Ticket, Report, Raise, PersistAndRespond, EndOfStep,
         CallFails, Crash, BackToSaved, vars, graph, rest
  <2> SUFFICES ASSUME saved.interrupts # NoRequest
                        \/ saved.state["final_report"] # NoReport
               PROVE  tasks' \in Late /\ Counted(trace', saved.state["revision_count"])
    BY <2>1 DEF SavedCount
  <2>2. tasks \in Late /\ Counted(trace, saved.state["revision_count"])
    BY DEF SavedCount
  <2>3. saved.state["revision_count"] \in Nat
    BY WorkflowAssumption DEF SavedInv, SavedOK, StateOK, WorkflowAssumption
  <2>4. CASE CreateAssessment
    <3>1. row["status"] = "absent"
      BY <2>4 DEF CreateAssessment
    <3> QED
      BY <2>2, <3>1 DEF CountInv, Uncounted, Counted
  <2>5. CASE EndOfStep
    <3>1. tasks' = NextNodes(tasks, state') /\ trace' = trace /\ tasks # {}
      BY <2>5 DEF EndOfStep, NextNodes
    <3>2. tasks' \in Late
      <4>1. CASE tasks = {"approval_gate"}
        BY <3>1, <4>1, WhatFollows
      <4>2. CASE tasks = {"ticket"}
        BY <3>1, <4>2, WhatFollows
      <4>3. CASE tasks = {"report"}
        BY <3>1, <4>3, WhatFollows
      <4> QED
        BY <2>2, <3>1, <4>1, <4>2, <4>3
    <3> QED
      BY <2>2, <3>1, <3>2
  <2>6. CASE CallFails \/ Crash
    <3>1. tasks' = saved.tasks /\ trace' = trace
      BY <2>6 DEF CallFails, Crash, BackToSaved
    <3>2. saved.tasks \in Late
      BY DEF SavedContent, ContentOfSaved, ReportedOK, PauseOK
    <3> QED
      BY <2>2, <3>1, <3>2
  <2>7. CASE NodeStep \/ \E node \in MayRaise : Raise(node)
    <3>1. tasks' = tasks
      BY <2>7 DEF NodeStep, Retrieve, ArchitectureAnalyst, SecurityAnalyst, Planner,
           Reviewer, GateNotRequired, GatePause, GateReenter, Ticket, Report, Raise, rest
    <3>2. call # "idle"
      BY <2>7 DEF NodeStep, Retrieve, ArchitectureAnalyst, SecurityAnalyst, Planner,
           Reviewer, GateNotRequired, GatePause, GateReenter, Ticket, Report, Raise, Runnable
    <3>3. CountInv'
      BY <2>7, AnalystsKeepCount, LateNodesKeepCount, ReviewerKeepsCount, GateKeepsCount,
         RaiseKeepsCount DEF NodeStep
    <3>4. call' = call /\ state' = state
      BY <2>7 DEF NodeStep, Retrieve, ArchitectureAnalyst, SecurityAnalyst, Planner,
           Reviewer, GateNotRequired, GatePause, GateReenter, Ticket, Report, Raise, rest
    <3>5. /\ Counted(trace, state["revision_count"])
          /\ Counted(trace', state["revision_count"])
      BY <2>2, <3>1, <3>2, <3>3, <3>4 DEF CountInv, RunCounted, Counted
    <3>6. /\ Times(trace', "architecture") = 1 /\ Times(trace', "security") = 1
          /\ Times(trace', "planner") = Times(trace, "planner")
      BY <3>5 DEF Counted
    <3> QED
      BY <2>2, <3>1, <3>6 DEF Counted
  <2>8. CASE \/ \E approved \in BOOLEAN : SubmitApproval(approved)
             \/ PersistAndRespond \/ UNCHANGED vars
    <3>1. UNCHANGED <<tasks, trace>>
      BY <2>8 DEF SubmitApproval, PersistAndRespond, vars, graph
    <3> QED
      BY <2>2, <3>1
  <2> QED
    BY <1>2, <2>4, <2>5, <2>6, <2>7, <2>8 DEF Next, ServerStep
<1> QED
  BY <1>1, <1>2

LEMMA InitEstablishesCount == ASSUME Init PROVE CountInv
<1>1. /\ state["revision_count"] = 0 /\ state["final_report"] = NoReport
      /\ call = "idle" /\ interrupts = NoRequest
  BY DEF Init, InitialState
<1>2. \A m \in Nodes : Times(trace, m) = 0
  BY DEF Init, Events, Times
<1>3. /\ Times(trace, "planner") = 0 /\ Times(trace, "architecture") = 0
      /\ Times(trace, "security") = 0
  BY <1>2 DEF Nodes
<1>4. RunBounded(trace, state)
  BY <1>1, <1>3, WorkflowAssumption DEF RunBounded, WorkflowAssumption
<1> QED
  BY <1>1, <1>3, <1>4 DEF CountInv, Uncounted

LEMMA NextKeepsCount ==
  ASSUME WorkflowInv, SavedInv, ContentInv, SavedContent, CountInv, SavedCount, [Next]_vars
  PROVE  CountInv'
<1>1. CASE CreateAssessment
  BY <1>1, CreateKeepsCount
<1>2. CASE (\E approved \in BOOLEAN : SubmitApproval(approved)) \/ PersistAndRespond
  BY <1>2, CallsKeepCount
<1>3. CASE NodeStep
  BY <1>3, AnalystsKeepCount, LateNodesKeepCount, ReviewerKeepsCount, GateKeepsCount
     DEF NodeStep
<1>4. CASE EndOfStep
  BY <1>4, EndOfStepKeepsCount
<1>5. CASE \E node \in MayRaise : Raise(node)
  BY <1>5, RaiseKeepsCount
<1>6. CASE Save
  BY <1>6, SaveKeepsCount
<1>7. CASE CallFails \/ Crash
  BY <1>7, BackKeepsCount
<1>8. CASE UNCHANGED vars
  BY <1>8 DEF vars, graph, CountInv
<1> QED
  BY <1>1, <1>2, <1>3, <1>4, <1>5, <1>6, <1>7, <1>8 DEF Next, ServerStep

THEOREM CountInvariance == Spec => [](CountInv /\ SavedCount)
<1>1. Init => CountInv /\ SavedCount
  <2>1. Init => CountInv
    BY InitEstablishesCount
  <2>2. Init => SavedCount
    BY DEF Init, Checkpoint, InitialState, SavedCount
  <2> QED
    BY <2>1, <2>2
<1>2. WorkflowInv /\ SavedInv /\ ContentInv /\ SavedContent /\ CountInv /\ SavedCount
        /\ [Next]_vars => CountInv' /\ SavedCount'
  BY NextKeepsCount, NextKeepsSavedCount
<1> QED
  BY <1>1, <1>2, WorkflowInvariance, ContentInvariance, PTL DEF Spec

(* The graph starts the planner after both analysts, once, and once more   *)
(* for every revision the reviewer has counted (should_revise), within the *)
(* budget, wherever nodes raise, saves fail and the process stops.         *)
THEOREM PlannerRunsAreCounted == Spec => []PlannerRunsOncePerRevision
<1>1. CountInv => PlannerRunsOncePerRevision
  BY DEF CountInv, RunBounded, Times, Completed, PlannerRunsOncePerRevision, report
<1> QED
  BY <1>1, CountInvariance, PTL

-----------------------------------------------------------------------------
(* What the row tells of the run. *)

\* How a run ends, in the report node's return value and then in the state.
Ended(c) == c["final_report"] # NoReport /\ c["status"] = "completed"

\* A call that finds nothing left to run has the run's report.
EndOK(c, T, W, s) ==
  /\ "report" \in DOMAIN W => Ended(W["report"])
  /\ T = {} /\ c # "idle" => Ended(s)

\* A completed row is a run's own report, after which no call comes.
ReportedRow(r, c, s, I) ==
  /\ r["status"] \in {"absent", "pending", "failed", "awaiting_approval", "completed"}
  /\ r["status"] = "completed" <=> r["state"] # NoReport
  /\ r["status"] = "completed" =>
       c = "idle" /\ I = NoRequest /\ r["state"] = s["final_report"]

Told(r, s, I) ==
  /\ r["status"] \in {"absent", "awaiting_approval", "completed"}
  /\ r["status"] = "awaiting_approval" <=> I # NoRequest
  /\ r["status"] = "completed" <=> s["final_report"] # NoReport

RowInv ==
  /\ DOMAIN row = {"status", "state"}
  /\ EndOK(call, tasks, writes, state)
  /\ "report" \in DOMAIN saved.writes => Ended(saved.writes["report"])
  /\ ReportedRow(row, call, state, interrupts)
  /\ call = "idle" /\ persisted => Told(row, state, interrupts)

-----------------------------------------------------------------------------
LEMMA FinishKeepsRow ==
  ASSUME RowInv, NEW node, Runnable(node), NEW update,
         node = "report" => Ended(update),
         Finish(node, update),
         UNCHANGED <<state, tasks, interrupts, saved, call, row, persisted>>
  PROVE  RowInv'
<1>1. /\ DOMAIN writes' = DOMAIN writes \cup {node} /\ writes'[node] = update
      /\ \A n \in DOMAIN writes : n # node => writes'[n] = writes[n]
  BY DEF Finish
<1>2. EndOK(call, tasks, writes', state)
  BY <1>1 DEF RowInv, EndOK
<1> QED
  BY <1>2 DEF RowInv

LEMMA NodesKeepRow ==
  ASSUME RowInv,
         \/ Retrieve \/ ArchitectureAnalyst \/ SecurityAnalyst \/ Planner \/ Reviewer
         \/ GateNotRequired \/ Ticket
  PROVE  RowInv'
<1>1. PICK node \in Nodes \ {"report"} : Runnable(node) /\ \E update : Finish(node, update)
  BY DEF Retrieve, ArchitectureAnalyst, SecurityAnalyst, Planner, Reviewer, GateNotRequired,
         Ticket, Nodes
<1>2. UNCHANGED <<state, tasks, interrupts, saved, call, row, persisted>>
  BY DEF Retrieve, ArchitectureAnalyst, SecurityAnalyst, Planner, Reviewer, GateNotRequired,
         Ticket, rest
<1> QED
  BY <1>1, <1>2, FinishKeepsRow

LEMMA ReportKeepsRow == ASSUME RowInv, Report PROVE RowInv'
<1> DEFINE update == [final_report |-> FinalReport, status |-> "completed"]
<1>1. Finish("report", update) /\ Runnable("report")
  BY DEF Report
<1>2. UNCHANGED <<state, tasks, interrupts, saved, call, row, persisted>>
  BY DEF Report, rest
<1>3. FinalReport # NoReport
  <2>1. "plan" \in DOMAIN FinalReport
    BY DEF FinalReport
  <2>2. DOMAIN NoReport = {}
    BY DEF NoReport
  <2> QED
    BY <2>1, <2>2
<1>4. Ended(update)
  BY <1>3 DEF Ended
<1> HIDE DEF update
<1> QED
  BY <1>1, <1>2, <1>4, FinishKeepsRow

LEMMA GateKeepsRow ==
  ASSUME RowInv, GatePause \/ GateReenter PROVE RowInv'
<1>1. /\ call # "idle" /\ UNCHANGED <<state, tasks, saved, call, row, persisted>>
  BY DEF GatePause, GateReenter, Runnable, rest, history
<1>2. "report" \in DOMAIN writes' =>
        "report" \in DOMAIN writes /\ writes'["report"] = writes["report"]
  BY DEF GatePause, GateReenter
<1>3. EndOK(call, tasks, writes', state)
  BY <1>2 DEF RowInv, EndOK
<1>4. ReportedRow(row, call, state, interrupts')
  BY <1>1 DEF RowInv, ReportedRow
<1> QED
  BY <1>1, <1>3, <1>4 DEF RowInv

(* The run ends with what the report node returned. *)
LEMMA EndOfStepKeepsRow ==
  ASSUME WorkflowInv, RowInv, EndOfStep PROVE RowInv'
<1>1. /\ call # "idle" /\ DOMAIN writes = tasks /\ tasks # {} /\ state' = Merged
      /\ tasks' = NextNodes(tasks, Merged)
      /\ writes' = NoWrites
      /\ UNCHANGED <<saved, call, row, persisted>>
  BY DEF EndOfStep, NextNodes, history
<1>2. tasks \in Supersteps
  BY DEF WorkflowInv, WritesOK
<1>3. tasks' = {} => tasks = {"report"}
  <2>1. /\ tasks = {"retrieve"} => tasks' = {"architecture", "security"}
        /\ tasks = {"architecture", "security"} => tasks' = {"planner"}
        /\ tasks = {"planner"} => tasks' = {"reviewer"}
        /\ tasks = {"reviewer"} => tasks' \in {{"planner"}, {"approval_gate"}}
        /\ tasks = {"approval_gate"} => tasks' \in {{"ticket"}, {"report"}}
        /\ tasks = {"ticket"} => tasks' = {"report"}
    BY <1>1, WhatFollows
  <2> QED
    BY <1>1, <1>2, <2>1 DEF Supersteps
<1>4. ASSUME tasks = {"report"} PROVE Ended(Merged)
  <2>1. "final_report" \in Channels /\ "status" \in Channels
    BY ChannelsAre
  <2>2. /\ Merged["final_report"] = writes["report"]["final_report"]
        /\ Merged["status"] = writes["report"]["status"]
    BY <1>1, <1>4, <2>1, MergedValue, ReturnsAre
  <2>3. Ended(writes["report"])
    BY <1>1, <1>4 DEF RowInv, EndOK
  <2> QED
    BY <2>2, <2>3 DEF Ended
<1>5. EndOK(call, tasks', NoWrites, Merged)
  BY <1>3, <1>4 DEF EndOK, NoWrites
<1>6. ReportedRow(row, call, Merged, interrupts')
  BY <1>1 DEF RowInv, ReportedRow
<1> QED
  BY <1>1, <1>5, <1>6 DEF RowInv

LEMMA RaiseKeepsRow ==
  ASSUME RowInv, NEW node, Raise(node) PROVE RowInv'
BY DEF Raise, RowInv, history

LEMMA CreateKeepsRow == ASSUME WorkflowInv, RowInv, CreateAssessment PROVE RowInv'
<1>1. row["status"] = "absent" /\ DOMAIN row = {"status", "state"} /\ row["state"] = NoReport
  BY DEF CreateAssessment, RowInv, ReportedRow
<1>2. DOMAIN writes = {}
  BY <1>1 DEF WorkflowInv, RowOK, WritesOK
<1>3. /\ row'["status"] = "pending" /\ row'["state"] = NoReport
      /\ DOMAIN row' = {"status", "state"}
      /\ call' = "create" /\ tasks' = {"retrieve"}
      /\ UNCHANGED <<state, writes, saved, interrupts>>
  BY <1>1 DEF CreateAssessment
<1>4. EndOK("create", {"retrieve"}, writes, state)
  BY <1>2 DEF EndOK
<1>5. ReportedRow(row', "create", state, interrupts)
  BY <1>3 DEF ReportedRow
<1> QED
  BY <1>3, <1>4, <1>5 DEF RowInv

LEMMA SubmitKeepsRow ==
  ASSUME WorkflowInv, RowInv, NEW approved \in BOOLEAN, SubmitApproval(approved)
  PROVE  RowInv'
<1>1. /\ interrupts # NoRequest /\ call' = "approval"
      /\ UNCHANGED <<state, tasks, writes, saved, interrupts, row>>
  BY DEF SubmitApproval, IsAwaitingApproval, graph
<1>2. tasks = {"approval_gate"}
  BY <1>1 DEF WorkflowInv, PausedOK
<1>3. EndOK("approval", tasks, writes, state)
  BY <1>2 DEF RowInv, EndOK
<1>4. ReportedRow(row, "approval", state, interrupts)
  BY <1>1 DEF RowInv, ReportedRow
<1> QED
  BY <1>1, <1>3, <1>4 DEF RowInv

(* What was returned is saved as it was returned. *)
LEMMA SaveKeepsRow == ASSUME RowInv, Save PROVE RowInv'
<1>1. /\ saved'.writes = writes
      /\ UNCHANGED <<state, tasks, writes, interrupts, call, row, persisted>>
  BY DEF Save, Checkpoint, history
<1> QED
  BY <1>1 DEF RowInv, EndOK

(* invoke() has returned, at the end or at the pause, and the row says which. *)
LEMMA PersistKeepsRow ==
  ASSUME WorkflowInv, ContentInv, RowInv, PersistAndRespond PROVE RowInv'
<1> DEFINE status == IF IsAwaitingApproval THEN "awaiting_approval" ELSE state.status
           told   == IF state.final_report # NoReport THEN state.final_report ELSE row.state
<1>1. /\ call # "idle" /\ InvokeOver /\ call' = "idle"
      /\ row' = [status |-> status, state |-> told]
      /\ UNCHANGED <<state, tasks, writes, saved, interrupts>>
  BY DEF PersistAndRespond, InvokeReturned, graph
<1>2. /\ status = IF interrupts # NoRequest THEN "awaiting_approval" ELSE state["status"]
      /\ told = IF state["final_report"] # NoReport THEN state["final_report"]
                ELSE row["state"]
  BY DEF IsAwaitingApproval
<1> HIDE DEF status, told
<1>3. /\ row'["status"] = status /\ row'["state"] = told
      /\ DOMAIN row' = {"status", "state"}
  BY <1>1
<1>4. row["state"] = NoReport
  BY <1>1 DEF RowInv, ReportedRow
<1>5. EndOK("idle", tasks, writes, state)
  BY DEF RowInv, EndOK
<1>6. ReportedRow(row', "idle", state, interrupts) /\ Told(row', state, interrupts)
  <2>1. CASE interrupts # NoRequest
    <3>1. state["final_report"] = NoReport
      BY <2>1, NoReportYet DEF WorkflowInv, PausedOK
    <3> QED
      BY <1>2, <1>3, <1>4, <2>1, <3>1 DEF Told, ReportedRow
  <2>2. CASE interrupts = NoRequest
    <3>1. tasks = {}
      BY <1>1, <2>2 DEF InvokeOver, IsAwaitingApproval
    <3>2. Ended(state)
      BY <1>1, <3>1 DEF RowInv, EndOK
    <3> QED
      BY <1>2, <1>3, <2>2, <3>2 DEF Ended, Told, ReportedRow
  <2> QED
    BY <2>1, <2>2
<1> QED
  BY <1>1, <1>3, <1>5, <1>6 DEF RowInv

(* A call that fails or is stopped writes at most a failure into the row. *)
LEMMA BackKeepsRow == ASSUME RowInv, CallFails \/ Crash PROVE RowInv'
<1>1. /\ writes' = saved.writes /\ call' = "idle" /\ persisted' = FALSE
      /\ saved' = saved /\ call # "idle"
  BY DEF CallFails, Crash, BackToSaved
<1>2. row' = row \/ row' = [row EXCEPT !.status = "failed"]
  BY DEF CallFails, Crash
<1>3. DOMAIN row = {"status", "state"} /\ row["status"] # "completed"
      /\ row["state"] = NoReport
  BY <1>1 DEF RowInv, ReportedRow
<1>4. /\ DOMAIN row' = {"status", "state"} /\ row'["state"] = NoReport
      /\ row'["status"] \in {row["status"], "failed"}
  BY <1>2, <1>3
<1>5. ReportedRow(row', "idle", state', interrupts')
  BY <1>3, <1>4 DEF RowInv, ReportedRow
<1>6. EndOK("idle", tasks', saved.writes, state')
  BY DEF RowInv, EndOK
<1> QED
  BY <1>1, <1>4, <1>5, <1>6 DEF RowInv

LEMMA InitEstablishesRow == ASSUME Init PROVE RowInv
<1>1. /\ DOMAIN row = {"status", "state"}
      /\ row["status"] = "absent" /\ row["state"] = NoReport
      /\ DOMAIN writes = {} /\ saved.writes = writes /\ call = "idle"
      /\ interrupts = NoRequest /\ state["final_report"] = NoReport
  BY DEF Init, Checkpoint, NoWrites, InitialState
<1> QED
  BY <1>1 DEF RowInv, EndOK, ReportedRow, Told

LEMMA NextKeepsRow ==
  ASSUME WorkflowInv, ContentInv, RowInv, [Next]_vars PROVE RowInv'
<1>1. CASE CreateAssessment
  BY <1>1, CreateKeepsRow
<1>2. CASE \E approved \in BOOLEAN : SubmitApproval(approved)
  BY <1>2, SubmitKeepsRow
<1>3. CASE NodeStep
  BY <1>3, NodesKeepRow, ReportKeepsRow, GateKeepsRow DEF NodeStep
<1>4. CASE EndOfStep
  BY <1>4, EndOfStepKeepsRow
<1>5. CASE \E node \in MayRaise : Raise(node)
  BY <1>5, RaiseKeepsRow
<1>6. CASE PersistAndRespond
  BY <1>6, PersistKeepsRow
<1>7. CASE Save
  BY <1>7, SaveKeepsRow
<1>8. CASE CallFails \/ Crash
  BY <1>8, BackKeepsRow
<1>9. CASE UNCHANGED vars
  BY <1>9 DEF vars, graph, history, RowInv
<1> QED
  BY <1>1, <1>2, <1>3, <1>4, <1>5, <1>6, <1>7, <1>8, <1>9 DEF Next, ServerStep

THEOREM RowInvariance == Spec => []RowInv
<1>1. Init => RowInv
  BY InitEstablishesRow
<1>2. WorkflowInv /\ ContentInv /\ RowInv /\ [Next]_vars => RowInv'
  BY NextKeepsRow
<1> QED
  BY <1>1, <1>2, WorkflowInvariance, ContentInvariance, PTL DEF Spec

(* The row that a client polls (persist_state, and the except of           *)
(* create_assessment) is completed exactly when it has a report, the run's *)
(* own, and never keeps a status in between, whatever failed; and if the   *)
(* last call got to its commit, it waits and is completed when the run     *)
(* does and is.                                                            *)
THEOREM RowsTellTheOutcome == Spec => []RowTellsTheOutcome
<1>1. RowInv => RowTellsTheOutcome
  BY DEF RowInv, ReportedRow, Told, RowTellsTheOutcome, IsAwaitingApproval, report
<1> QED
  BY <1>1, RowInvariance, PTL

===============================================================================
