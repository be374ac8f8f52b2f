-------------------------- MODULE AssessmentWorkflow --------------------------
(***************************************************************************)
(* One assessment: its row, and the LangGraph run behind it.               *)
(*                                                                         *)
(* LangGraph runs the graph in supersteps.  The nodes of a superstep read  *)
(* the same checkpointed state; each leaves its return value in `writes`;  *)
(* when all of them have finished, EndOfStep merges the writes into the    *)
(* state and schedules the successors.  The two analysts are the one       *)
(* superstep with two nodes, run on two threads.                           *)
(*                                                                         *)
(* The code asks invoke() for nothing else, so LangGraph saves checkpoints *)
(* and finished nodes' writes in the background: Save, at any time, and    *)
(* waited for only when invoke() returns.  The next nodes already run.     *)
(*                                                                         *)
(* The agents are the live-model path: whatever the schemas admit, drawn   *)
(* from small sets of drafts.  A node, a save or a commit may fail, and    *)
(* the process may stop at any moment; the run is then what was saved.     *)
(*                                                                         *)
(* One API call drives the run at a time here.  Concurrent calls on the    *)
(* same assessment are the subject of ApprovalService.                     *)
(*                                                                         *)
(* Here and in the other modules, a definition named D_x is a faulty       *)
(* variant of D, of a kind that is easily written; no behaviour uses it.   *)
(* Replacing D by it makes TLC report a property violated.                 *)
(***************************************************************************)
EXTENDS EvidenceReview, FiniteSets

CONSTANTS
  None,             \* Python's None, elsewhere
  Retrievals,       \* the chunk-id sets retrieval can return
  ArchDrafts,       \* the finding sets the architecture analyst can return
  RiskDrafts,       \* the finding sets the security analyst can return
  PlanDrafts,       \* the plans the planner can return
  max_revisions,    \* settings.max_revisions
  MaxCrashes,       \* bound: how often the process stops
  TraceCap          \* bound: where the counter of each event saturates

ASSUME WorkflowAssumption ==
  /\ max_revisions \in Nat /\ MaxCrashes \in Nat
  /\ \A e \in ArchDrafts \cup RiskDrafts : \A f \in e : f.evidence # {}
  /\ \A p \in PlanDrafts : p.options # {}
  /\ None \notin {"approved", "denied"}

\* what the schemas (plan.py) give every plan, and a ticket its number
ASSUME SchemaAssumption ==
  /\ \A p \in PlanDrafts :
       p # NoPlan /\ {"options", "evidence", "recommended_option"} \subseteq DOMAIN p
  /\ None # "CHG-DEMO"

Nodes == {"retrieve", "architecture", "security", "planner", "reviewer",
          "approval_gate", "ticket", "report"}

Events == (Nodes \X {"node_completed", "node_failed"})
            \cup {<<"approval_gate", "approval_requested">>}

\* the counters can tell every run of the planner the budget allows
ASSUME TraceAssumption ==
  /\ TraceCap \in [Events -> Nat \ {0}]
  /\ max_revisions < TraceCap[<<"planner", "node_completed">>]

VARIABLES
  state,       \* the AssessmentState of the run
  tasks,       \* the nodes of the current superstep
  writes,      \* finished node of the superstep -> what it returned
  interrupts,  \* the request the run is paused on, or NoRequest
  saved,       \* what the database has of these four: state to interrupts
  raised,      \* the nodes of the superstep that raised out of invoke()
  call,        \* the API call driving the graph: "create", "approval" or "idle"
  resume,      \* the payload of Command(resume=...), or None
  row,         \* the assessments row: status, and the report in its state column
  ticket,      \* the change_tickets row of this assessment, or None
  trace,       \* how often each event was emitted
  crashes,     \* history: process stops so far
  discarded,   \* history: every claim a review has removed
  submitted,   \* history: the decisions humans have sent, as the gate reads them
  undone,      \* history: a stop or a failed call took a decision back
  persisted    \* history: the last call got to its commit of the row

graph == <<state, tasks, writes, raised, interrupts, saved>>
history == <<crashes, discarded, submitted, undone, persisted>>
vars == <<graph, call, resume, row, ticket, trace, history>>

OneMore(counts, e) ==
  [counts EXCEPT ![e] = IF @ < TraceCap[e] THEN @ + 1 ELSE @]

Emit(node, event) == trace' = OneMore(trace, <<node, event>>)

-----------------------------------------------------------------------------
(* The graph: edges, and the superstep they are followed in. *)

\* a variant that derives the answer anew from what the reviewer found
ShouldRevise_rederived(s) ==
  IF s.review_decision.revision_requested THEN {"planner"} ELSE {"approval_gate"}

ShouldRevise(s) == IF s.will_revise THEN {"planner"} ELSE {"approval_gate"}

AfterApproval(s) == IF s.approval_decision = "approved" THEN {"ticket"} ELSE {"report"}

\* a variant without the edge from retrieve to security
Successors_one_analyst(node, s) ==
  CASE node = "retrieve"      -> {"architecture"}
    [] node = "architecture"  -> {"planner"}
    [] node = "planner"       -> {"reviewer"}
    [] node = "reviewer"      -> ShouldRevise(s)
    [] node = "approval_gate" -> AfterApproval(s)
    [] node = "ticket"        -> {"report"}
    [] node = "report"        -> {}

Successors(node, s) ==
  CASE node = "retrieve"                      -> {"architecture", "security"}
    [] node \in {"architecture", "security"}  -> {"planner"}
    [] node = "planner"                       -> {"reviewer"}
    [] node = "reviewer"                      -> ShouldRevise(s)
    [] node = "approval_gate"                 -> AfterApproval(s)
    [] node = "ticket"                        -> {"report"}
    [] node = "report"                        -> {}

\* no field of a report is there yet
NoReport == [n \in {} |-> None]

InitialState ==
  [status |-> "retrieving", retrieved_evidence |-> {},
   architecture_findings |-> {}, risk_findings |-> {},
   modernization_plan |-> NoPlan, review_decision |-> None,
   revision_count |-> 0, will_revise |-> FALSE,
   approval_request |-> NoRequest, approval_decision |-> None,
   ticket_record |-> None, final_report |-> NoReport]

NoWrites == [n \in {} |-> None]

(* Every channel takes the value of the last write, and in no superstep do *)
(* two nodes write the same one.                                           *)
Merged ==
  [c \in DOMAIN state |->
     IF \E n \in tasks : c \in DOMAIN writes[n]
     THEN writes[CHOOSE n \in tasks : c \in DOMAIN writes[n]][c]
     ELSE state[c]]

(* A node that raises does not stop a sibling already on its thread. *)
Runnable(node) == call # "idle" /\ node \in tasks \ (DOMAIN writes \cup raised)

Finish(node, update) ==
  /\ writes' = [n \in DOMAIN writes \cup {node} |->
                  IF n = node THEN update ELSE writes[n]]
  /\ Emit(node, "node_completed")

EndOfStep ==
  /\ call # "idle"
  /\ tasks # {}
  /\ DOMAIN writes = tasks
  /\ state' = Merged
  /\ tasks' = UNION {Successors(n, state') : n \in tasks}
  /\ writes' = NoWrites
  /\ interrupts' = NoRequest
  /\ UNCHANGED <<raised, saved, call, resume, row, ticket, trace, history>>

Checkpoint ==
  [state |-> state, tasks |-> tasks, writes |-> writes, interrupts |-> interrupts]

Save ==
  /\ call # "idle"
  /\ saved # Checkpoint
  /\ saved' = Checkpoint
  /\ UNCHANGED <<state, tasks, writes, raised, interrupts, call, resume, row,
                 ticket, trace, history>>

-----------------------------------------------------------------------------
(* The nodes. *)

rest == <<state, tasks, raised, interrupts, saved, call, resume, row,
          crashes, submitted, undone, persisted>>

Retrieve ==
  /\ Runnable("retrieve")
  /\ \E evidence \in Retrievals :
       Finish("retrieve", [retrieved_evidence |-> evidence, status |-> "analyzing"])
  /\ UNCHANGED <<rest, ticket, discarded>>

ArchitectureAnalyst ==
  /\ Runnable("architecture")
  /\ \E findings \in ArchDrafts :
       Finish("architecture", [architecture_findings |-> findings])
  /\ UNCHANGED <<rest, ticket, discarded>>

SecurityAnalyst ==
  /\ Runnable("security")
  /\ \E findings \in RiskDrafts : Finish("security", [risk_findings |-> findings])
  /\ UNCHANGED <<rest, ticket, discarded>>

Planner ==
  /\ Runnable("planner")
  /\ \E plan \in PlanDrafts :
       Finish("planner", [modernization_plan |-> plan, status |-> "reviewing"])
  /\ UNCHANGED <<rest, ticket, discarded>>

\* a variant that is off by one
WillRevise_late(decision, revision_count) ==
  decision.revision_requested /\ revision_count <= max_revisions

WillRevise(decision, revision_count) ==
  decision.revision_requested /\ revision_count < max_revisions

Reviewer ==
  /\ Runnable("reviewer")
  /\ LET ids      == state.retrieved_evidence
         decision == ReviewDecision(ids, state.architecture_findings,
                                    state.risk_findings, state.modernization_plan)
         again    == WillRevise(decision, state.revision_count)
     IN  /\ Finish("reviewer",
              [review_decision       |-> decision,
               modernization_plan    |-> CleanedPlan(state.modernization_plan, ids),
               architecture_findings |-> KeptFindings(state.architecture_findings, ids),
               risk_findings         |-> KeptFindings(state.risk_findings, ids),
               revision_count        |-> state.revision_count + (IF again THEN 1 ELSE 0),
               will_revise           |-> again])
         /\ discarded' = discarded \cup decision.removed_claims
  /\ UNCHANGED <<rest, ticket>>

(* The gate.  interrupt() suspends the node; on resume the node runs again *)
(* from its first line, so the policy is evaluated and the pause traced a  *)
(* second time before the decision is taken.                               *)
\* a variant that reads the plan from a channel there is none of
GateRequest_no_plan == EvaluateApprovalPolicy(state.risk_findings, NoPlan)

GateRequest == EvaluateApprovalPolicy(state.risk_findings, state.modernization_plan)

GateNotRequired ==
  /\ Runnable("approval_gate")
  /\ GateRequest = NoRequest
  /\ Finish("approval_gate", [approval_request  |-> NoRequest,
                              approval_decision |-> None,
                              status            |-> "reporting"])
  /\ UNCHANGED <<rest, ticket, discarded>>

GatePause ==
  /\ Runnable("approval_gate")
  /\ GateRequest # NoRequest
  /\ interrupts = NoRequest
  /\ interrupts' = GateRequest
  /\ Emit("approval_gate", "approval_requested")
  /\ UNCHANGED <<state, tasks, writes, raised, saved, call, resume, row, ticket,
                 history>>

\* a variant that takes the truth value of the payload itself, a non-empty dict
CoerceDecision_truthy(raw) == "approved"

CoerceDecision(raw) == IF raw.approved THEN "approved" ELSE "denied"

\* a variant that leaves the request out of what the node returns
Decided_unrecorded(decision) ==
  [approval_decision |-> decision,
   status            |-> IF decision = "approved" THEN "approved" ELSE "rejected"]

Decided(decision) ==
  [approval_request  |-> GateRequest,
   approval_decision |-> decision,
   status            |-> IF decision = "approved" THEN "approved" ELSE "rejected"]

GateReenter ==
  /\ Runnable("approval_gate")
  /\ GateRequest # NoRequest
  /\ resume # None
  /\ trace' = OneMore(OneMore(trace, <<"approval_gate", "approval_requested">>),
                      <<"approval_gate", "node_completed">>)
  /\ writes' = [n \in {"approval_gate"} |-> Decided(CoerceDecision(resume))]
  /\ UNCHANGED <<rest, ticket, discarded>>

(* The ticket tool, called from the node, gives back an existing ticket. *)
Ticket ==
  /\ Runnable("ticket")
  /\ state.approval_decision = "approved"
  /\ ticket' = "CHG-DEMO"
  /\ Finish("ticket", [ticket_record |-> "CHG-DEMO", status |-> "reporting"])
  /\ UNCHANGED <<rest, discarded>>

FinalReport ==
  [architecture_findings |-> state.architecture_findings,
   risk_findings         |-> state.risk_findings,
   plan                  |-> state.modernization_plan,
   approval_required     |-> state.approval_request # NoRequest,
   approved              |-> state.approval_decision,
   ticket_number         |-> state.ticket_record,
   removed_claims        |-> state.review_decision.removed_claims,
   overall_risk_level    |-> HighestSeverity(state.risk_findings)]

Report ==
  /\ Runnable("report")
  /\ Finish("report", [final_report |-> FinalReport, status |-> "completed"])
  /\ UNCHANGED <<rest, ticket, discarded>>

(* A node raises out of invoke(); traced_node records it first.  The       *)
(* ticket node may raise with its ticket committed: the tool reads it back *)
(* after the commit.                                                       *)
MayRaise == {"retrieve", "architecture", "security", "planner", "ticket"}

Raise(node) ==
  /\ Runnable(node)
  /\ raised' = raised \cup {node}
  /\ Emit(node, "node_failed")
  /\ \/ ticket' = ticket
     \/ node = "ticket" /\ state.approval_decision = "approved" /\ ticket' = "CHG-DEMO"
  /\ UNCHANGED <<state, tasks, writes, interrupts, saved, call, resume, row, history>>

-----------------------------------------------------------------------------
(* The API calls that drive the run. *)

IsAwaitingApproval == interrupts # NoRequest

CreateAssessment ==
  /\ row.status = "absent"
  /\ row' = [row EXCEPT !.status = "pending"]
  /\ call' = "create"
  /\ tasks' = {"retrieve"}
  /\ UNCHANGED <<state, writes, raised, interrupts, saved, resume, ticket, trace,
                 history>>

SubmitApproval(approved) ==
  /\ call = "idle"
  /\ IsAwaitingApproval
  /\ call' = "approval"
  /\ resume' = [approved |-> approved]
  /\ submitted' = submitted \cup {IF approved THEN "approved" ELSE "denied"}
  /\ UNCHANGED <<graph, row, ticket, trace, crashes, discarded, undone, persisted>>

(* invoke() returns when nothing is left to run, or at the interrupt, and  *)
(* everything is saved.                                                    *)
InvokeOver == tasks = {} \/ (IsAwaitingApproval /\ resume = None)

InvokeReturned == InvokeOver /\ saved = Checkpoint

\* a variant that saves the status of the state, paused or not
PersistAndRespond_state_status ==
  /\ call # "idle"
  /\ InvokeReturned
  /\ row' = [status |-> state.status, state |-> state.final_report]
  /\ call' = "idle"
  /\ resume' = None
  /\ persisted' = TRUE
  /\ UNCHANGED <<graph, ticket, trace, crashes, discarded, submitted, undone>>

PersistAndRespond ==
  /\ call # "idle"
  /\ InvokeReturned
  /\ row' = [status |-> IF IsAwaitingApproval THEN "awaiting_approval" ELSE state.status,
             state  |-> IF state.final_report # NoReport THEN state.final_report ELSE row.state]
  /\ call' = "idle"
  /\ resume' = None
  /\ persisted' = TRUE
  /\ UNCHANGED <<graph, ticket, trace, crashes, discarded, submitted, undone>>

(* What is left of a run in the process is gone, and it is again what was  *)
(* saved of it.                                                            *)
BackToSaved ==
  /\ state' = saved.state
  /\ tasks' = saved.tasks
  /\ writes' = saved.writes
  /\ interrupts' = saved.interrupts
  /\ raised' = {}
  /\ call' = "idle"
  /\ resume' = None
  /\ undone' = (undone \/ saved.state.approval_decision # state.approval_decision)
  /\ persisted' = FALSE
  /\ UNCHANGED <<saved, ticket, trace, discarded, submitted>>

(* No node has run yet: the checkpointer or the first read may fail. *)
Unstarted ==
  \/ call = "create" /\ Runnable("retrieve")
  \/ call = "approval" /\ Runnable("approval_gate")

(* The call ends in an error: a node raised; or there was no checkpointer; *)
(* or a save failed, which invoke() tells at its end; or the state could   *)
(* not be read, or the row not be committed, afterwards.  Creation marks   *)
(* the row, unless that commit fails too or the failure comes after it; an *)
(* approval leaves the row alone.                                          *)
CallFails ==
  /\ call # "idle"
  /\ raised # {} \/ InvokeOver \/ Unstarted
  /\ \/ row' = row
     \/ call = "create" /\ row' = [row EXCEPT !.status = "failed"]
  /\ BackToSaved
  /\ UNCHANGED crashes

(* The process stops: the call, and the decision it carried, are gone. *)
Crash ==
  /\ call # "idle"
  /\ crashes < MaxCrashes
  /\ crashes' = crashes + 1
  /\ BackToSaved
  /\ UNCHANGED row

-----------------------------------------------------------------------------
Init ==
  /\ state = InitialState
  /\ tasks = {}
  /\ writes = NoWrites
  /\ raised = {}
  /\ interrupts = NoRequest
  /\ saved = Checkpoint
  /\ call = "idle"
  /\ resume = None
  /\ row = [status |-> "absent", state |-> NoReport]
  /\ ticket = None
  /\ trace = [e \in Events |-> 0]
  /\ crashes = 0
  /\ discarded = {}
  /\ submitted = {}
  /\ undone = FALSE
  /\ persisted = TRUE

NodeStep ==
  \/ Retrieve \/ ArchitectureAnalyst \/ SecurityAnalyst \/ Planner \/ Reviewer
  \/ GateNotRequired \/ GatePause \/ GateReenter \/ Ticket \/ Report

(* What the server does by itself once a call has reached it. *)
ServerStep ==
  \/ NodeStep
  \/ EndOfStep
  \/ Save
  \/ \E node \in MayRaise : Raise(node)
  \/ PersistAndRespond
  \/ CallFails

Next ==
  \/ CreateAssessment
  \/ \E approved \in BOOLEAN : SubmitApproval(approved)
  \/ ServerStep
  \/ Crash

Spec == Init /\ [][Next]_vars /\ WF_vars(ServerStep)
-----------------------------------------------------------------------------
report == state.final_report

Decisions == {"approved", "denied"}

Completed(node) == trace[<<node, "node_completed">>]

Statuses == {"retrieving", "analyzing", "reviewing", "approved", "rejected",
             "reporting", "completed"}

(* Every variable keeps its shape: the channels are those AssessmentState  *)
(* declares, and only finished nodes of the superstep have writes.         *)
TypeOK ==
  /\ \A s \in {state, saved.state} :
       /\ DOMAIN s = DOMAIN InitialState
       /\ s.status \in Statuses
       /\ s.revision_count \in 0..max_revisions
       /\ s.approval_decision \in Decisions \cup {None}
  /\ \A c \in {saved, Checkpoint} :
       /\ c.tasks \subseteq Nodes
       /\ DOMAIN c.writes \subseteq c.tasks
       /\ \A n \in DOMAIN c.writes : DOMAIN c.writes[n] \subseteq DOMAIN c.state
  /\ raised \subseteq tasks \ DOMAIN writes
  /\ call \in {"idle", "create", "approval"}
  /\ resume \in [approved : BOOLEAN] \cup {None}
  /\ row.status \in {"absent", "pending", "failed", "awaiting_approval"} \cup Statuses
  /\ trace \in [Events -> Nat] /\ \A e \in Events : trace[e] <= TraceCap[e]
  /\ crashes \in 0..MaxCrashes
  /\ submitted \subseteq Decisions
  /\ undone \in BOOLEAN /\ persisted \in BOOLEAN

(* Whatever the agents wrote, and however often the planner was sent back, *)
(* a report that exists makes no finding without support and carries no    *)
(* citation, of a finding, an option or the plan, that was not retrieved.  *)
ReportIsGrounded ==
  report # NoReport =>
    LET ids == state.retrieved_evidence
        Resolves(refs) == \A r \in refs : r.chunk \in ids
    IN  /\ \A f \in report.architecture_findings \cup report.risk_findings :
              Supported(f.evidence, ids)
        /\ Resolves(report.plan.evidence)
        /\ \A o \in report.plan.options : Resolves(o.evidence)

(* The approval block of the report is true of the report's own content:   *)
(* approval was asked for exactly when the reported findings and plan call *)
(* for it, a human then answered, and a ticket is named exactly when the   *)
(* answer was yes, and that ticket exists.                                 *)
ApprovalMatchesReport ==
  report # NoReport =>
    /\ report.approval_required <=>
         EvaluateApprovalPolicy(report.risk_findings, report.plan) # NoRequest
    /\ report.approval_required <=> report.approved # None
    /\ report.approved \in submitted \cup {None}
    /\ report.ticket_number = IF report.approved = "approved" THEN ticket ELSE None
    /\ report.approved = "approved" => ticket # None

(* A ticket is there only if a human said yes, and the run stands by that  *)
(* yes and by the request it answered, over failed calls and repeated      *)
(* submissions; except that a stop, or a failed save, may have taken the   *)
(* decision back after the ticket was opened on it.                        *)
TicketWasApproved ==
  ticket # None =>
    /\ "approved" \in submitted
    /\ undone \/ (state.approval_decision = "approved"
                     /\ state.approval_request # NoRequest)

(* The planner starts only after both analysts have finished, each once,   *)
(* and runs once more per revision: never more than the budget allows, and *)
(* a report was planned exactly 1 + revision_count times.                  *)
PlannerRunsOncePerRevision ==
  /\ Completed("planner") <= 1 + max_revisions
  /\ Completed("planner") > 0 =>
       Completed("architecture") = 1 /\ Completed("security") = 1
  /\ report # NoReport => Completed("planner") = 1 + state.revision_count

(* Whatever failed before, a row says completed exactly when it has a      *)
(* report, which is then the run's own; no intermediate status is ever     *)
(* left in it; and between calls, if the last one got to its commit, it    *)
(* says what the checkpoint says: it waits for approval exactly when the   *)
(* run does, and is completed exactly when there is a report.              *)
RowTellsTheOutcome ==
  /\ row.status \in {"absent", "pending", "failed", "awaiting_approval", "completed"}
  /\ row.status = "completed" <=> row.state # NoReport
  /\ row.status = "completed" => row.state = report /\ ~IsAwaitingApproval
  /\ (call = "idle" /\ persisted) =>
       /\ row.status \in {"absent", "awaiting_approval", "completed"}
       /\ row.status = "awaiting_approval" <=> IsAwaitingApproval
       /\ row.status = "completed" <=> report # NoReport

(* The human decides on what was shown: the request recorded with a new    *)
(* decision, evaluated anew when the gate runs again, is the one the       *)
(* paused checkpoint offered.                                              *)
DecidedOnWhatWasShown ==
  [][state'.approval_decision \notin {None, state.approval_decision} =>
       state'.approval_request = interrupts]_vars

(* Every call that reaches the server returns: the graph has no cycle that *)
(* the revision budget does not cut.                                       *)
CallsReturn == call # "idle" ~> call = "idle"

-----------------------------------------------------------------------------
(* What the documentation says, and the code does not do. *)

(* "The final report therefore carries its own audit trail of what was     *)
(* discarded": every claim a review removed is listed in the report.       *)
RemovalsAreReported == report # NoReport => discarded \subseteq report.removed_claims

(* The recommended option of a reported plan is one the plan offers.       *)
RecommendationIsOffered ==
  report # NoReport => report.plan.recommended_option \in Names(report.plan.options)
=============================================================================
