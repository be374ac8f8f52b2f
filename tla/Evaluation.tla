------------------------------ MODULE Evaluation ------------------------------
(***************************************************************************)
(* The offline evaluation (evaluation/run.py, harness.py, dataset.py): the *)
(* golden cases, one after another, each driven through the graph once for *)
(* every approval arm, scored, and cleaned up at the end.  The database is *)
(* the one the API uses meanwhile.                                         *)
(*                                                                         *)
(* A run of the graph is put together from Retrieval, FakeAgents and       *)
(* EvidenceReview; its steps are the subject of AssessmentWorkflow.  Here  *)
(* it ends, pauses, or raises somewhere.                                   *)
(***************************************************************************)
EXTENDS Retrieval, FakeAgents, EvidenceReview

CONSTANTS
  Cases,       \* the golden dataset: a sequence of cases
  Corpora,     \* the chunks that may have been ingested
  Shipped,     \* the corpus the dataset was written for
  ApiIds,      \* assessments of the API's users
  NoReport, NotAsserted

ASSUME DatasetAssumption ==
  /\ Cases \in Seq([app : STRING, objective : SUBSET STRING, expected_risk_level : DOMAIN SEVERITY_ORDER,
                    expected_approval_required : BOOLEAN, expected_finding_categories : SUBSET RiskTypes,
                    expected_removed_claims : BOOLEAN \cup {NotAsserted}])
  /\ Cases # <<>>
  /\ Shipped \in Corpora
  /\ \A i \in 1..Len(Cases) : IsFiniteSet(Cases[i].objective)

\* assessment_cases.jsonl: what a human has to approve is critical
ASSUME GoldenAssumption ==
  \A i \in 1..Len(Cases) :
    Cases[i].expected_approval_required => Cases[i].expected_risk_level = "critical"

\* Ingestion stores no blank chunk, and the id of a row is a uuid nobody has made up.
ASSUME CorpusAssumption ==
  \A chunks \in Corpora :
    /\ IsFiniteSet(chunks)
    /\ \A c \in chunks :
         /\ c.id # FABRICATED_CHUNK_ID /\ c.lines # {} /\ IsFiniteSet(c.tokens)
         /\ \A query \in {"app", "security", "standards"} : c.distance[query] \in Nat

\* nor is the id of an assessment of the harness, <<case, arm>> here
ASSUME IdsAssumption == \A a \in ApiIds : a \notin Nat \X Nat

Citations == [chunk : {c.id : c \in UNION Corpora} \cup {FABRICATED_CHUNK_ID}, text : BOOLEAN]
PlanOptions == [name : {"remediate", "strangler", "rewrite"}, pos : 1..3, evidence : SUBSET Citations]
Plans == [options : SUBSET PlanOptions, recommended_option : {"remediate"},
          estimated_effort : {"high", "medium"}, touches_auth : BOOLEAN, evidence : SUBSET Citations]
Requests == [reasons : SUBSET {"critical", "sensitive", "auth", "effort"},
             highest_severity : DOMAIN SEVERITY_ORDER, recommended_option : {"remediate"}]

\* None is neither a plan nor a request.
ASSUME NoneAssumption == NoPlan \notin Plans /\ NoRequest \notin Requests

VARIABLES
  corpus, keep,                        \* the ingested chunks; --keep
  assessments, tickets, checkpoints,   \* the database: ids of assessments
  step,        \* what the harness does next, or how it ended: "exited", "aborted"
  run,         \* the arm in hand
  runs,        \* the finished arms of the case in hand
  results,     \* the scored cases
  asked,       \* history: the assessments the API created
  raised       \* history: the arms in which something raised

vars == <<corpus, keep, assessments, tickets, checkpoints, step, run, runs, results, asked, raised>>
database == <<assessments, tickets, checkpoints>>

NoRun == [paused |-> FALSE, draft |-> NoReport, report |-> NoReport, evidence |-> {}, failed |-> FALSE]

Init ==
  /\ corpus \in Corpora /\ keep \in BOOLEAN
  /\ assessments = {} /\ tickets = {} /\ checkpoints = {}
  /\ step = "create"
  /\ run = NoRun /\ runs = <<>> /\ results = <<>>
  /\ asked = {} /\ raised = {}

-----------------------------------------------------------------------------
(* What a run of the graph comes to. *)

ChunkIds(evidence) == {chunk.id : chunk \in ToSet(evidence)}

\* A revision gives the planner the same evidence and findings, and so the same plan.
FinalReport(objective, evidence) ==
  LET ids     == ChunkIds(evidence)
      arch    == FakeArchitectureFindings(evidence)
      risks   == FakeRiskFindings(evidence)
      plan    == FakePlan(objective, risks, evidence)
      kept    == KeptFindings(risks, ids)
  IN [architecture_findings |-> KeptFindings(arch, ids),
      risk_findings         |-> kept,
      overall_risk_level    |-> HighestSeverity(kept),
      removed_claims        |-> ReviewDecision(ids, arch, risks, plan).removed_claims,
      must_approve          |-> EvaluateApprovalPolicy(kept, CleanedPlan(plan, ids)) # NoRequest]

ASSUME ReportAssumption ==
  \A chunks \in Corpora : \A i \in 1..Len(Cases) :
    \A evidence \in RetrieveEvidence(chunks, Cases[i].objective, Cases[i].app) :
      FinalReport(Cases[i].objective, evidence) # NoReport

-----------------------------------------------------------------------------
(* One arm: _execute. *)

Arms(case) ==
  IF case.expected_approval_required THEN <<"leave_pending", "deny", "approve">>
                                     ELSE <<"leave_pending">>

Case     == Cases[Len(results) + 1]
Decision == Arms(Case)[Len(runs) + 1]
Id       == <<Len(results) + 1, Len(runs) + 1>>

CreateRow ==
  /\ step = "create"
  /\ assessments' = assessments \cup {Id}
  /\ step' = "run"
  /\ UNCHANGED <<corpus, keep, tickets, checkpoints, run, runs, results, asked, raised>>

\* a variant in which the except branch forgets the failure
Failed_unrecorded(outcome) ==
  /\ run' = outcome
  /\ raised' = raised \cup {Id}
  /\ step' = "collect"

\* the except branch: paused is read again
Failed(outcome) ==
  /\ run' = [outcome EXCEPT !.failed = TRUE]
  /\ raised' = raised \cup {Id}
  /\ step' = "collect"

\* A node may raise, and so may reading the state of a run that has paused.
RunAssessment ==
  /\ step = "run"
  /\ checkpoints' = checkpoints \cup {Id}
  /\ \E evidence \in RetrieveEvidence(corpus, Case.objective, Case.app) :
       LET report == FinalReport(Case.objective, evidence)
           ended  == [paused |-> report.must_approve, draft |-> report, failed |-> FALSE,
                      report |-> IF report.must_approve THEN NoReport ELSE report,
                      evidence |-> ChunkIds(evidence)]
       IN \/ /\ run' = ended
             /\ step' = IF ended.paused /\ Decision # "leave_pending" THEN "decide" ELSE "collect"
             /\ UNCHANGED raised
          \/ Failed(NoRun) \/ Failed(ended)
  /\ UNCHANGED <<corpus, keep, assessments, tickets, runs, results, asked>>

Ended == [run EXCEPT !.report = run.draft]

\* A resume that raises before the gate's checkpoint leaves the thread paused, later it
\* does not; the ticket may be committed by then, or the whole run be over.
Resume ==
  /\ step = "decide"
  /\ tickets' \in IF Decision = "approve" THEN {tickets, tickets \cup {Id}} ELSE {tickets}
  /\ LET through == Decision = "deny" \/ Id \in tickets'
         past    == [run EXCEPT !.paused = FALSE]
     IN \/ through /\ run' = Ended /\ step' = "collect" /\ UNCHANGED raised
        \/ through /\ Failed([Ended EXCEPT !.paused = FALSE])
        \/ Failed(past)
        \/ Id \notin tickets' /\ Failed(run)
  /\ UNCHANGED <<corpus, keep, assessments, checkpoints, runs, results, asked>>

Collect ==
  /\ step = "collect"
  /\ runs' = Append(runs, [id |-> Id, decision |-> Decision, paused |-> run.paused,
                           ticket_count |-> Cardinality({Id} \cap tickets), report |-> run.report,
                           evidence |-> run.evidence, failed |-> run.failed])
  /\ run' = NoRun
  /\ step' = IF Len(runs') = Len(Arms(Case)) THEN "score" ELSE "create"
  /\ UNCHANGED <<corpus, keep, database, results, asked, raised>>

-----------------------------------------------------------------------------
(* Scoring: evaluate_case. *)

Primary(outcomes) ==
  LET approved == {i \in 1..Len(outcomes) : outcomes[i].decision = "approve"}
  IN outcomes[IF approved # {} THEN CHOOSE i \in approved : TRUE ELSE Len(outcomes)]

\* counted anew from the retrieved evidence
FullyGrounded(outcome) ==
  \A f \in outcome.report.architecture_findings \cup outcome.report.risk_findings :
     f.evidence # {} /\ \A r \in f.evidence : r.chunk \in outcome.evidence

ToolSafety(outcomes) ==
  \A i \in 1..Len(outcomes) :
     outcomes[i].ticket_count = IF outcomes[i].decision = "approve" /\ outcomes[i].paused THEN 1 ELSE 0

Checks(case, outcomes) ==
  LET primary == Primary(outcomes)
      report  == primary.report
      made    == report # NoReport
      found   == IF made THEN {f.category : f \in report.risk_findings} ELSE {}
      removed == made /\ report.removed_claims # {}
  IN [approval_policy    |-> outcomes[1].paused = case.expected_approval_required,
      risk_level         |-> made /\ report.overall_risk_level = case.expected_risk_level,
      finding_categories |-> case.expected_finding_categories \subseteq found,
      evidence_coverage  |-> made /\ FullyGrounded(primary),
      tool_safety        |-> ToolSafety(outcomes),
      no_errors          |-> \A i \in 1..Len(outcomes) : ~ outcomes[i].failed,
      removed_claims     |-> case.expected_removed_claims \in {NotAsserted, removed}]

Passed(result) == \A check \in DOMAIN result.checks : result.checks[check]

\* what of an arm the summary prints, and cleanup needs
Printed(outcome) ==
  [id |-> outcome.id, decision |-> outcome.decision, ticket_count |-> outcome.ticket_count]

EvaluateCase ==
  /\ step = "score"
  /\ results' = Append(results, [runs   |-> [i \in 1..Len(runs) |-> Printed(runs[i])],
                                checks |-> Checks(Case, runs)])
  /\ runs' = <<>>
  /\ step' = IF Len(results') < Len(Cases) THEN "create" ELSE IF keep THEN "exited" ELSE "cleanup"
  /\ UNCHANGED <<corpus, keep, database, run, asked, raised>>

-----------------------------------------------------------------------------
(* The end, and the others. *)

OwnIds == UNION {{results[i].runs[j].id : j \in 1..Len(results[i].runs)} : i \in 1..Len(results)}

\* a variant that looks after the rows and leaves the checkpoints
Cleanup_rows_only ==
  /\ step = "cleanup"
  /\ assessments' = assessments \ OwnIds /\ tickets' = tickets \ OwnIds
  /\ step' = "exited"
  /\ UNCHANGED <<corpus, keep, checkpoints, run, runs, results, asked, raised>>

\* one transaction; the tickets go with their assessments
Cleanup ==
  /\ step = "cleanup"
  /\ assessments' = assessments \ OwnIds /\ tickets' = tickets \ OwnIds
  /\ checkpoints' = checkpoints \ OwnIds
  /\ step' = "exited"
  /\ UNCHANGED <<corpus, keep, run, runs, results, asked, raised>>

ExitStatus == IF \A i \in 1..Len(results) : Passed(results[i]) THEN 0 ELSE 1

\* Outside its try the harness does not survive the loss of the database.
Abort ==
  /\ step \in {"create", "collect", "cleanup"}
  /\ step' = "aborted"
  /\ UNCHANGED <<corpus, keep, database, run, runs, results, asked, raised>>

ApiCreates(a) ==
  /\ a \notin asked
  /\ asked' = asked \cup {a}
  /\ assessments' = assessments \cup {a} /\ checkpoints' = checkpoints \cup {a}
  /\ UNCHANGED <<corpus, keep, tickets, step, run, runs, results, raised>>

ApiApproves(a) ==
  /\ a \in assessments \ tickets
  /\ tickets' = tickets \cup {a}
  /\ UNCHANGED <<corpus, keep, assessments, checkpoints, step, run, runs, results, asked, raised>>

Next ==
  \/ CreateRow \/ RunAssessment \/ Resume \/ Collect \/ EvaluateCase \/ Cleanup \/ Abort
  \/ \E a \in ApiIds : ApiCreates(a) \/ ApiApproves(a)

Spec == Init /\ [][Next]_vars

-----------------------------------------------------------------------------
(* Properties. *)

Finished == {i \in 1..Len(runs) : runs[i].report # NoReport}
ArmsOf(result) == {result.runs[j] : j \in 1..Len(result.runs)}

\* "Every finding cites the chunk that triggered it" (fake_agents.py): the chunk is one
\* of the assessed application and shows the risk, through retrieval in any order the
\* database likes, the detectors and the review, which strips the fabricated rewrite
\* and nothing else.
EveryFindingCitesItsTrigger ==
  \A i \in Finished :
    /\ \A f \in runs[i].report.risk_findings : \A r \in f.evidence :
         \E chunk \in corpus : /\ chunk.id = r.chunk /\ chunk.app = Case.app
                               /\ ShowsRisk(chunk, f.category)
    /\ runs[i].report.removed_claims
         = IF "rewrite" \in Case.objective THEN {<<"option", "rewrite">>} ELSE {}

\* A case passes only if nothing raised in any of its arms, the corpus really shows what
\* it expects, and, while its rows are there, the tickets are those of approved arms.
PassedCasesRanClean ==
  \A i \in 1..Len(results) : Passed(results[i]) =>
    /\ \A arm \in ArmsOf(results[i]) : arm.id \notin raised
    /\ \A category \in Cases[i].expected_finding_categories :
         \E chunk \in corpus : chunk.app = Cases[i].app /\ ShowsRisk(chunk, category)
    /\ step \in {"create", "run", "decide", "collect", "score", "cleanup"} =>
         \A arm \in ArmsOf(results[i]) : arm.id \in tickets <=> arm.decision = "approve"

\* "One broken case still yields a full report" (harness.py): on the corpus they were
\* written for, the golden cases in which nothing raised pass, whatever happened in the
\* others and whatever the API did; and an evaluation that exits has scored them all.
OnlyBrokenCasesFail ==
  /\ corpus = Shipped => \A i \in 1..Len(results) :
       (\A arm \in ArmsOf(results[i]) : arm.id \notin raised) => Passed(results[i])
  /\ step = "exited" => Len(results) = Len(Cases)
                        /\ (ExitStatus = 0 => raised = {})

\* An evaluation that exits without --keep has left no assessment, ticket or checkpoint of
\* its own, and those of the API's users are never touched.  (The chunks its ingestion
\* leaves in document_chunks are the subject of Ingestion.)
CleanupTakesItsOwn ==
  /\ asked \subseteq assessments /\ asked \subseteq checkpoints
  /\ step = "exited" /\ ~ keep => (assessments \cup tickets \cup checkpoints) \subseteq asked
=============================================================================
