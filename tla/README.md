# Verification of the modernization-assessment orchestrator

TLA+ models of the multi-agent assessment backend in this repository
(`backend/app`), the TLC runs that check them, and proofs about them that TLAPS
checks. Paths below are relative to the repository; `nodes.py` is
`backend/app/graph/nodes.py`, and so on.

## 1. The system

A user asks for an assessment of a sample application. The API runs a LangGraph
graph: evidence is retrieved, two analysts work on it in parallel, a planner
writes a plan, a deterministic reviewer strips whatever is not backed by
retrieved evidence and may send the planner back, a deterministic policy decides
whether a human has to approve, and after an approval a (simulated) change
ticket is created. Then a report is written.

### Inventory

| Component | State it keeps | Operations | Talks to |
|---|---|---|---|
| Evidence reviewer, `graph/reviewer.py` | none | `review` | called by the reviewer node |
| Approval policy, `graph/approval.py` | none | `evaluate_approval_policy` | called by the gate, twice per pause |
| Workflow, `graph/workflow.py`, `graph/nodes.py`, `graph/state.py` | the checkpointed `AssessmentState`, one thread per assessment | 8 nodes, 2 conditional edges, run, resume, is-awaiting | tools, tracing, agents; checkpoints in PostgreSQL |
| Assessments API, `api/assessments.py` | `assessments` rows (status, report) | create, submit approval, 4 reads | workflow, database; one worker thread per request |
| Change-ticket tool, `tools/servicenow.py` | `change_tickets` rows, unique on assessment and on number | create ticket | database, called by the ticket node |
| Tracing, `services/tracing.py` | `trace_events` rows | record, traced node | database; failures swallowed |
| Checkpointer and start-up, `graph/checkpointer.py`, `main.py`, `db/` | pool, schema | set-up | PostgreSQL |
| Ingestion, `services/ingestion.py` | `document_chunks` rows | ingest all | chunking, embeddings |
| Chunking, `services/chunking.py` | none | chunk a file | - |
| Retrieval, `services/retrieval.py`, `tools/repository_evidence.py` | none | search, rerank | `document_chunks` |
| Evaluation harness, `evaluation/` | rows it creates and deletes | run cases, score, clean up | workflow, database |
| Frontend, `frontend/src/App.tsx` | the assessment on screen | run, decide, refresh trace | API |
| Agents, `graph/fake_agents.py`, `core/model_factory.py` | none | findings, plan | remote model, or text heuristics |
| Sample apps, asset inventory, health, settings | constants | reads | - |

### What is hard

* **Two decisions at once.** `submit_approval` checks that the run is paused,
  `resume_with_decision` checks again, then the graph is invoked. Nothing holds
  the assessment in between, and FastAPI runs the handlers on several threads.
* **Three stores, three transactions.** The thread's checkpoint, the
  `change_tickets` row and the `assessments` row are written in different
  transactions. The process may stop, or a statement fail, between any two of them.
* **Checkpoints behind the run.** The code calls plain `graph.invoke`
  (`workflow.py:100,120`), and LangGraph then saves checkpoints in the background. The
  ticket may be committed while the gate's checkpoint is not.
* **Count, then insert.** The ticket number is counted from the rows there are.
  Concurrent approvals, and deletions, change them underneath.
* **Re-execution on resume.** LangGraph runs the gate again from its first line.
* **The revision loop.** It is a cycle of the graph that only a counter cuts.
* **Untrusted agents.** A live model may cite what was not retrieved, in every
  round anew.
* **A corpus that moves.** Ingestion reconciles rows with files that change while
  it runs, in one long transaction beside others of its kind, and keeps rows whose
  content did not change.
* **Connections inside connections.** A request holds one pooled connection for its
  whole run, and the nodes of that run take others from the same pool.
* **A page that awaits twice.** Each handler of the page awaits two calls; what comes
  back late is shown all the same, and a call that broke may have been acted on.

What makes each component correct is stated as properties below; the hazards,
each at its line, are in `PROJECT.json`.

## 2. Modules

| Module | Models | Role |
|---|---|---|
| `EvidenceReview` | reviewer and policy | operators |
| `AssessmentWorkflow` | one assessment: row, graph, agents, one call at a time | state machine, extends `EvidenceReview` |
| `TicketRegistry` | what the ticket tool promises, one step per call | abstract specification |
| `ChangeTicketTool` | the tool, one action per statement | refines `TicketRegistry` |
| `ApprovalService` | concurrent approvals over shared checkpoints | composes the API, the resumed graph and `ChangeTicketTool` |
| `Chunking` | cutting files into chunks | operators |
| `Ingestion` | runs of `ingest_all` over files that change | state machine, extends `Chunking` |
| `ServerSessions` | boot, the connection pool, every session of a request | state machine |
| `Frontend` | the handlers of the page, over the API as the page sees it | state machine |
| `Retrieval`, `FakeAgents` | vector search with rerank; the rule-based agents | operators |
| `Evaluation` | the golden cases from retrieval to clean-up | composes `Retrieval`, `FakeAgents`, `EvidenceReview` |
| `AssessmentWorkflowProofs`, `ChangeTicketToolProofs`, `ApprovalServiceProofs`, `ChunkingProofs`, `IngestionProofs`, `ServerSessionsProofs`, `FrontendProofs`, `EvaluationProofs` | | theorems |
| `MC*` | | instances for TLC |

A definition named `D_x`, placed just before `D`, is a faulty variant of `D` that
could easily have been written. No behaviour uses it. Each property of a passing
run has one: with `D` replaced by it, TLC reports that property violated, so none
of the properties holds whatever the code does.

### EvidenceReview

Chunks are identifiers; a citation says which chunk it names and whether its
snippet is non-blank. Lists are sets, except that an option carries its position,
because `review` falls back to the first option kept (`reviewer.py:99`). Removed
claims are pairs of a kind and a name instead of sentences. An option without
citations is kept and a finding without citations is not, as in the code; the
snippet is checked for findings only.

### AssessmentWorkflow

`state` is the checkpointed `AssessmentState`; `tasks`, `writes` and `raised`
describe the superstep in progress. Each node is one action that leaves what it
returned in `writes`; `EndOfStep` merges and schedules, and is the
only action that moves `state` forward. The analysts form the one superstep of two
nodes: they finish in either order, and one may raise while the other goes on.
`Save` copies what there is to `saved`, at any time, and `InvokeReturned` waits for it;
a call that fails and a stop put the run back to what is saved. The gate is three actions: no approval needed, pause, and re-entry with a
decision. `row` is the
`assessments` row, written by `CreateAssessment`, `PersistAndRespond` and
`CallFails`. `CallFails` is every failure of a call: a node raised, the checkpointer could
not be had or the thread not be read, a save failed (which `invoke` tells at its end), or
the state read or the commit of the row that follow `invoke` failed. The ticket node may raise with its ticket
committed. `trace` counts the events emitted, whether or not their insert
succeeds. `discarded`, `submitted`, `undone` (a decision was taken back) and `persisted`
(the last call got to its commit) are history.

The agents return any member of a small set of drafts, so the model covers the
live-model path and the deterministic fake one alike. The drafts respect the
schemas (`findings.py`: at least one citation; `plan.py`: at least one option),
which is the module's assumption. `NoReport` is the report of a run that has none; `TraceCap` says for
each event where its counter stops; the planner's lies above the revision budget (`TraceAssumption`), or its runs
could not be counted.

LangGraph itself is not part of the repository. What is taken from it, as the code asks
`invoke` for nothing but its defaults: the nodes of a superstep read one state and their
writes become visible together; checkpoints, and separately the writes of finished nodes, are saved
in the background and in order, while the next nodes already run; `invoke` waits for them at its end and raises what
failed, unless a node has raised already; `interrupt` leaves the superstep unfinished and a resumed node runs
from its start, except one whose writes were saved: those are merged and the node is not run again,
though the thread still looks paused. A stop, or a save that fails, loses what is not saved.

### ChangeTicketTool and TicketRegistry

`calls[c].at` is the statement caller `c` is about to run: `Lookup`, `Count`,
`Commit` or `IntegrityError`, then `Refresh` after the one and `Reread` after the other. PostgreSQL runs at READ COMMITTED, so a
statement sees what is committed when it starts; a concurrent insert of the same
key makes the second wait for the first, so the constraints are checked where the
insert commits, and so is the foreign key. A database error ends a call at any statement, at the refresh with
its ticket committed; a commit whose acknowledgement is lost comes to the same. Deletion of an assessment cascades to its
ticket, and comes between any two statements of a call: `evaluation/harness.py` looks at nothing before it deletes.

Seen through `Seen`, an open call has not answered. `TicketRegistry` opens a ticket in one
step, under a number not in use and only where there is none, and answers in another: a
call that returns gives the ticket that is there at that moment. A call that raises
promises nothing; the ticket it opened stays, as the code leaves it.

### ApprovalService

The callers of the tool are the approval requests. `checkpoints[a]` is the newest
saved checkpoint of a thread, whoever wrote it; `pending[a]` are newer ones, made and not yet saved,
in the order in which they were made; `requests[q].seen` is the one the
request works from. `CheckAwaiting` and `CheckAgain` are the two reads of the
guard; `Invoke` loads the saved checkpoint and runs whatever is next there; each
node ends in `Checkpoint`, which adds to `pending`; `PutCheckpoint` saves one, at any
time; `EndInvoke` waits until the request has nothing unsaved; `ReadState` and `PersistAndRespond` are the two last
reads and the row. The gate's result and its checkpoint are two things: `PutWrites` saves the
first beside the paused checkpoint (`gate_writes`), and as long as that is the newest, an `Invoke` merges the
saved decision instead of running the gate on its own. `RequestFails` is a statement that fails, of the handler or of
those that save: what the request has not saved is lost. A stop (`Crash`) loses every open
request and every unsaved checkpoint. `Cleanup` deletes without looking at who works on the assessment. The nodes
before the gate have been run.

`overlapped` remembers the assessments that ever had two requests open at once, `rolled_back`
those that lost an unsaved checkpoint. Several properties are stated for the others only, or say
what the exception is. What overlapping requests can do is shown by the run `denial`.

### Chunking and Ingestion

A line is one of a few values: what opens a unit, what is blank, and the rest. A
span is a pair of line numbers; the code's loops, which append spans in line order,
are set comprehensions, and `chunk_file` puts them in that order (`InOrder`: the k-th is the
one with k spans that start no later). The Python parser is abstracted to
whether it accepts the file and on which line a top-level statement starts, which is
after its decorators. The tests cut at 60 and 40 lines; both are constants.

A run of `ingest_all` moves through `purge`, `read`, `reconcile` and `commit`. The
session does not autoflush (`db/session.py`), so `inserts`, `updates` and `deletes`
stay in memory until `Commit`; what `Reconcile` read may be stale by then. The flush
is one step: an insert is checked against the unique constraint, an update that meets
no row is SQLAlchemy's error, a delete that meets none is not, and an UPDATE sets only
the columns that differ from what was loaded. `Rollback` is any error, at any moment.
`disturbed` remembers that an edit or a commit came across a run; properties about
what one run achieves are stated for the others.

### ServerSessions

`checkedout` counts the connections taken from SQLAlchemy's pool, `Holders` are the sessions
that have one; `req[q].main` is the
handler's own, `req[q].threads` are the nodes of the superstep in progress, each with
the sessions it still has to open. A node opens its sessions one after another
(`traced_node` writes its event after the node has returned). A checkout from an empty
pool waits and may time out; where the timeout surfaces decides what it does: a node
raises, an event is dropped (`tracing.py` swallows it), a handler's own query fails the
request. `WorkFails` is a node whose statement fails on a connection it has, `Fails` a
statement that is not a node's: set-up, the start and the end of `invoke`, the reads and commits of the handler. What is inside
the handler's `try` makes the row `failed`, the rest ends the request as it is. The checkpointer has a pool of
its own and appears only with these failures and its set-up, which
waits for open transactions when it has indexes to build. The ticket's session has two checkouts,
as its refresh follows a commit.

### Frontend

`handler` lists the handlers ever started: what the closure captured, what is awaited,
whether the server has acted (`call`), and the answer. Serving and showing are two
steps, so a call may break before the server acts, after it, or while it does. Each
handler acts in four pieces: up to the first await, from the answer to the call of
`getTrace`, from there to the end, and its failures. `error` says which call's failure
is displayed.

### Retrieval, FakeAgents, Evaluation

Distances and tokens are given with a chunk; scores are integers in units of 1/60.
The database may return chunks at the same distance in either order, so `Retrieve`
yields a set of results. A chunk's content is a set of lines and a line the set of
patterns that match it, so the detectors' rules (which lines of which chunk, the
exceptions, the deduplication by title) are kept and the regular expressions are not.
`Evaluation` runs the cases arm by arm: an arm ends, pauses, or raises anywhere, before
or after its ticket was committed. The API's users work in the same database.

## 3. Runs

| Run | Bounds | Distinct states | What it shows |
|---|---|---|---|
| `workflow` | 2 chunks, 3 retrieval results, 2 x 3 finding drafts, 4 plans, budget 2, 1 stop | 519 018 | the workflow's invariants, and that every call returns |
| `ticket_tool` | 3 assessments, 3 callers | 304 274 | the tool implements the registry |
| `approvals` | 1 assessment, 3 requests, 1 stop, symmetric | 2 267 994 | approvals under races, stops, failures and lost checkpoints |
| `ingestion` | 2 runs of one command, 3 starts, 2 edits, a document of 3 other versions and a module of 2, cap 3, window 2, symmetric | 447 297 | chunks, rows after a run, overlapping and failing runs |
| `connections` | 3 requests (create, approve, read), pool of 2 | 117 011 | no leak, no standstill beyond the pool's size, answers |
| `frontend` | 4 clicks | 31 431 | what the page shows, and the flags |
| `evaluation` | 2 cases, 3 corpora of 7 chunks, top 3, 1 assessment of a user | 102 510 | from retrieval to exit status |
| `audit_trail`, `recommendation`, `lost_race`, `denial`, `stale_lines` | smallest that show it | | disagreements, section 5 |

Why the bounds are enough. *Workflow*: the drafts take every branch of `review`
and of the policy (supported, blank, fabricated and partly retrieved citations;
all, some or no options kept; each of the four approval reasons); a budget of two
separates "once more" from "as long as there is budget" (the default is 1); the
planner's counter saturates at 4, one more than it may ever complete, so that a
planner that runs too often is still seen, the analysts' at 2, the others, of which nothing is asked, at 1. *Tool*: a collision needs two callers
on two assessments, a lost race two on one; the third makes a deletion lower the
count while two others are between count and insert. *Approvals*: two requests
meet on one assessment while the third comes before or after the stop, which may
find the gate's result saved without its checkpoint; assessments share nothing but the numbers, and a number already
taken refuses an insert as any database error does (`ticket_tool` has two assessments that choose the same one). *Ingestion*: two runs overlap and a third comes after them; the versions share
chunks, grow, shrink, vanish, exceed the cap, hold blank chunks, and one does not parse;
two edits can change a file between any two steps of a run. *Connections*: two
requests exhaust a pool of two by themselves, the third waits behind them; a request
that holds both, by its own session and a node's, is there as well. *Frontend*: two
assessments and a decision on each, or one assessment and three attempts; the mix-up of
two runs and a decision needs three. *Evaluation*: a case with all its arms and one
with a single arm; one corpus on which both pass and one on which each fails; the two
chunks at one distance straddle the cut; the corpora and the cases are the run's own, seven chunks
and two cases, and not `sample_data` or the golden file. Requests, assessments and ingestion runs are
interchangeable, and those runs check safety only, so symmetry is sound. Deadlock is not checked in any run, because finished
assessments and answered calls have nothing left to do.

### Properties

*workflow*

* `ReportIsGrounded`: no finding without support and no citation that was not
  retrieved reaches the report, on any revision round.
* `ApprovalMatchesReport`: approval was asked for exactly when the *reported*
  findings and plan call for it, and the ticket is named exactly on a yes.
* `TicketWasApproved`: a ticket rests on a human's yes, and on a request and a run that
  still stand by it, unless a stop or a failed save took an unsaved decision back (`undone`).
  Since checkpoints are saved in the background, that can happen after the ticket's commit.
* `PlannerRunsOncePerRevision`: the planner waits for both analysts, and runs
  exactly 1 + `revision_count` times.
* `RowTellsTheOutcome`: whatever failed, a row says completed exactly when it has a
  report, which is the run's own, and holds no intermediate status; after a call that got
  to its commit it agrees with the checkpoint. A call that fails before that (at a save, the state read,
  the commit) leaves a row that may say `failed` or `pending` of a thread that waits or has reported.
* `DecidedOnWhatWasShown`: the request recorded with a decision is the one that
  was paused on, although it is computed anew.
* `CallsReturn`: every call that drives the graph returns.

*ticket_tool*: `NumbersAreUnique`, `ReturnedTicketIsReal`, `TicketIsPermanent`,
`EveryCallIsAnswered`, and `ImplementsRegistry`, the refinement: tickets are opened one per
assessment under free numbers, and a call that returns gives the ticket that is there; a call that raises may have
opened one.

*approvals*

* `NoTicketWithoutApproval`: a ticket goes back to a request that said yes and
  was let through.
* `ReportNamesTheTicket`: even when two runs wrote one thread's checkpoints in
  turn, a finished thread says approved exactly when it names the ticket its
  assessment has.
* `DenialHoldsUnlessDisturbed`: where requests came one at a time and no checkpoint was
  lost, a denied assessment has no ticket: not after a stop that found everything saved, nor
  after a call that raised with its ticket committed. Where a checkpoint was lost this is false, see section 5.
* `AnswerHonoursTheRequest`: an answer gives a decision that some request sent; to a request
  alone on its assessment its own, unless a checkpoint was lost and the run merged what the gate had returned to
  a request that was cut off.
* `RowAgreesUnlessDisturbed`: where no requests overlapped, and none failed or was lost, the row tells what the
  thread tells.

*ingestion*

* `ChunksPartitionTheFile`: every line that is not blank is in exactly one chunk, and no
  chunk exceeds the cap.
* `VectorsBelongToContents`: whatever runs overlap or fail, a committed vector is that
  of its row's content. An update writes only what differs from what *its* run had
  loaded, so this is not obvious.
* `UndisturbedRunIsExact`, `UnchangedRowsSurvive`, `ReingestLeavesOneVectorSpace`: what a
  run leaves that nothing came across: the file's chunks and no others; rows whose
  content was right keep their id, content and vector (of their line numbers nothing is asked, see
  `stale_lines`); after `--reingest` all vectors are of one model.

*connections*

* `ConnectionsAreAccountedFor`: what the pool has given out is what open sessions hold.
* `AllWaitOnlyWhenExhausted`: all open requests block one another only if as many of
  them as the pool has connections hold one for their whole run.
* `RowsTellHowTheRunWent`: `failed` only if something inside the handler's `try` failed (a
  node's work, set-up, a statement of `invoke`), which always leaves the row so unless that commit fails too;
  `pending` only if no run was started or the last commit failed; an event that cannot be written never fails a run.
* `EveryRequestIsAnswered`: if set-up succeeded at boot.

*frontend*

* `StaleBannerIsExplained`: a banner asking for a decision already taken comes with an
  error the user has seen or a decision on the way, even when broken calls were acted on.
* `ScreenIsCurrentUnlessOverlapped`: unless a run and a decision were in flight together,
  trace and assessment belong together, and what is shown in the end is what the server has.
* `FlagsTellWhatIsInFlight`: the buttons are disabled exactly while their call is in flight.

*evaluation*

* `EveryFindingCitesItsTrigger`: in whatever order ties come, a reported risk cites a
  chunk of the assessed application that shows it, and the review strips the fabricated
  option and nothing else.
* `PassedCasesRanClean`, `OnlyBrokenCasesFail`: a pass means that nothing raised, the
  corpus shows what was expected, and tickets are exactly those approved; on the corpus the
  cases are written for only cases in which something raised fail, and a raise costs no other case.
* `CleanupTakesItsOwn`: no assessment, ticket or checkpoint of the evaluation is left, and
  the users' assessments and checkpoints are not touched. Its ingestion and `--reingest`
  (`run.py:45-51`) do change the `document_chunks` users search; that is in `Ingestion`.

### Fairness

`AssessmentWorkflow` assumes weak fairness of `ServerStep`: once a call has
reached the server, its thread is scheduled until the call is over. It does not
assume that humans decide, that assessments are created, or that nothing fails. A save is one of those steps:
a call that waits for its checkpoints gets them or an error.
`FairToolSpec` assumes weak fairness of each caller's own steps, for the same
reason: a statement on an open connection completes or fails. `ServerSessions` assumes
weak fairness of each request's steps: its threads are scheduled, and a wait for a
connection ends, with a connection or after `pool_timeout`. Weak fairness is enough
because a request that waits always has one of the two enabled. Set-up at a request is
*not* helped by it: where it has to wait for a transaction that only ends after it, no
step is enabled. Failures (`Fails`) are not part of what is fair: a request must end without them. Nothing else has fairness, since nothing else states liveness.

## 4. Proofs

All with TLAPS, for any callers and requests, any finite set of assessments, any
drafts, any revision budget, any pool and any number of stops. The assumptions are
`WorkflowAssumption` (bounds are naturals, `None` is not a decision),
`SchemaAssumption` (a plan the planner returns is a plan, with the fields `plan.py` gives it;
a ticket number is not `None`), `TraceAssumption` (the bounds on the event counters, which the code
does not have, are positive, and the planner's is above `max_revisions`), `ToolAssumption` (the set of assessments is finite, or
its tickets could not be counted), `ServiceAssumption`, `ChunkingAssumption`,
`IngestionAssumption`, `SessionsAssumption` (finitely many requests, a pool that is not empty),
`ClicksAssumption`, and of the evaluation: `RetrievalAssumption` (a search returns at least one
chunk), `DatasetAssumption` (the cases have the fields `dataset.py` gives them),
`GoldenAssumption` (a case that expects an approval expects the level critical, which every line
of `assessment_cases.jsonl` satisfies), `CorpusAssumption` (the corpus is finite and holds no blank chunk,
which ingestion drops, and no row's id is the made-up one), `IdsAssumption` (ids of the API's
assessments are not those of the harness) and `NoneAssumption`, `ReportAssumption` (`None` is no plan, no
request and no report).

**Workflow.** `WorkflowInv` is inductive. A superstep's state is merged from what
its nodes returned, so the types of the channels need the same of the pending
`writes` (`WritesOK`), and that only the eight sets of nodes in `Supersteps` are
ever scheduled, no two nodes of which write one channel (`WritersAreDistinct`,
`MergedChannel`). `TicketWasApproved` needs in addition that a resumed call
carries a decision somebody sent (`ResumeOK`), that the ticket node is scheduled
only on a yes, and that a run with its ticket is past the gate, the only node
that writes the decision, or was taken back (`TicketOK`); that nothing has run before there is a row
(`RowOK`) keeps creation from starting over. A failed call and a stop put the run back to what is saved, so each
invariant of the run has a counterpart for that: `SavedInv` here, `SavedContent` and
`SavedCount` below. Theorems: `WorkflowTypeCorrect`, `TicketStandsOnApproval`.

**Reports.** What the report says is proved with `WorkflowInv` at hand. A
report is only as good as the channels it is made of, and no property of the report alone is
inductive. `ContentInv` follows the content instead: what each node has returned and
`EndOfStep` has yet to merge (`PendingOK`), what the state has reached when a superstep is
next (`StageOK`: a plan before the review, resolving citations after it, a judged request
after the gate, a ticket number after the ticket node), that a report is the last thing a run
makes (`ReportedOK`), that a pause is on the request the gate will compute again, and that a
resumed call answers one (`PauseOK`), and that nothing is decided before there is a row
(`FreshOK`). A stop of the process keeps it because what is saved satisfies it too (`SavedContent`): the state of a
moment before, of which a ticket opened since is still more than enough. Theorems: `ReportsAreGrounded`, `ApprovalsMatchReports`, `DecisionsAreOnWhatWasShown`.

**Planner runs and rows.** The bound on the planner's runs is true because of where the run
is: `CountInv` ties the counters of the trace to the superstep (a node of the superstep in progress is counted once it has
returned) and to `revision_count`, and to the revision the reviewer has counted but
`EndOfStep` has not merged. It claims this only for a run that can go on; a failed call or a stop between a
call and a pause strands the thread with its counters within bounds (`RunBounded`), and one that leaves it at a pause leaves
it with the planner's runs counted (`SavedCount`).
`RowInv` follows the row through a call: pending while it is created, and, when the call has got to its commit, what
the thread says (`Told`); a completed row has the run's own report, after which no call comes, as nothing waits (`ReportedRow`); that a thread with nothing left to
run has its report, and that a call can only be where its entry leads (`CallOK`), make the saved status
the right one. Theorems: `PlannerRunsAreCounted`, `RowsTellTheOutcome`.

**Tool.** `ToolInv` is inductive. Uniqueness and `ReturnedTicketIsReal` are not by
themselves: a deletion could otherwise remove the ticket from under a call, and an
insert could write the 0 that means no ticket. `ForeignKeyHolds` (tickets are of existing
assessments), `CountedNumber` (a number about to be inserted is positive) and `InsertedNumber` (what is read again
after the commit is what was inserted, unless the assessment is gone) rule this out. Theorems: `ToolTypeCorrect`,
`ToolNumbersAreUnique`, `ToolReturnsTheTicket`, and `ToolTicketsArePermanent` for every step. `ToolImplementsRegistry` maps
every step: `Commit` to `Open`, a returning `Lookup`, `Refresh` or `Reread` to
`Give`, the failures to `Refuse`, a deletion to `Drop`, the rest to stuttering. That a refresh returns what is
there needs `ToolInv`.

**Service.** `ServiceStepIsToolStep` shows that the service moves the tool's
variables only as the tool does, which carries `ToolInv` over. `NoTicketWithoutApproval` needs to know where a decision may be
found on its way from a request to a ticket: in the request, in a checkpoint saved or not, in what a
gate returned, in what other requests have loaded of these, and in the tool
call. `DecisionsAreTraced` says that in each place it goes back to a request that
sent it and was let through; `RequestsStand` and `SentStands` say that this, once true, stays
true. `ServiceInv`, their conjunction with the types, is inductive. Theorems:
`ServiceTypeCorrect`, `NoUnapprovedTicket`.

What a thread says of the tickets is true whoever wrote it: `PhaseInv` says of every
checkpoint, saved or not, and of what every request works from, that a ticket it names is the one in the
table and that a finished thread says approved exactly when it names one (`ReportsAreTrue`); it also says where a
request can be, given what its thread and its unsaved checkpoints are.
What a request achieves is not so: another may write over it. `AloneInv` is about an assessment
whose requests came one at a time. There the open request goes with the thread (`Follows`): every checkpoint past the gate,
saved or not, carries the decision its run took, which is its own or, where a checkpoint was lost, that of a
request that was cut off (`Honest`), as `WritesOK` says of what a gate returned. Where none was lost, an
assessment that has a ticket or may still get one is past the gate for good, with a yes (`Sealed`). The row
tells what the thread tells (`RowOK`), unless a request is between the gate and the row, which it will then write, or
was cut off there. Only the request itself can end this, by arriving while another is open, so
each action needs the argument for its own request (`LeavesInOrder`) and, once, for all others (`AloneKept`).
Theorems: `DenialHolds`, `AnswersAreHonest`, `RowsAgree`.

**Chunking.** For any file, any set of starting lines, any cap and any window
(`ChunkingAssumption`: both positive). `SpansBetween` covers every line because there is a
last start at or before it and a first after it, and two spans that share a line have the
same start and end; `CapSpan` covers a span because a line's distance from the start
splits into a multiple of the cap and a rest below it. Dropping blank spans loses only
blank lines. `ChunksComeInOrder`: the spans that are kept start on different lines, so that
counting those that start no later ranks them from 1 on without a gap, and `chunk_file` lists each
once, in the order of the file. `IngestionProofs` lifts `ChunksPartitionTheLines` to every version the disk goes through
(`EveryVersionIsPartitioned`), since `disk` only ever holds files (`IngestionAssumption`). That a span stays within a unit is
how spans are defined, and no property says it again.

**Ingestion.** `VectorsBelongToContents` is not inductive: an update is computed in one step
and applied in another, to a row that may have changed, and it writes only the columns that
differ from what was loaded. `VectorInv` adds that whatever a session is going to insert has
its own vector, that an update's old and new version each do, and that their contents differ.
Then their vectors differ as well, so an update always writes both columns, whatever the row
has become. Theorem: `VectorsStayWithContents`.

That the table keeps its constraints needs to be said of what the sessions hold as well.
`TableInv` adds that the rows a session is going to insert have different keys, because a path is
visited once and what is noted is of paths already visited (`Rank`), that an update leaves its row the id
and the key, and that a session remembers at most one id for a key, so that among one more ids than
there are runs one is free (`NewIdIsFree`, by the pigeonhole principle). Its assumptions are that finitely
many runs share the table and that `rglob` yields a path once.

What a run leaves that nothing came across follows from `ExactInv`: as long as a run is
undisturbed, its inserts, updates and deletes are exactly what the files it has been through
still need of the table as it is now (`Exact`), and after a purge there are no rows. A commit or
an edit of another ends this only by disturbing the run; a commit that changes no row
disturbs nobody, and needs not. When the run commits it has been through every file, and since
ids are unique an update or a delete meets the row it was made for and no other (`OwnUpdates`,
`FlushedContent`). Both invariants were checked on the run `ingestion` before they were proved. Theorems: `IngestionTypeCorrect`,
`UndisturbedRunsAreExact`, `UnchangedRowsAreKept`, `ReingestedVectorsAreAlike`.

**Server sessions.** `SessionsInv` is inductive. It says what a handler holds by where it is
(one connection through its whole run, none where it needs one), that a thread of a node holds
a connection exactly while it uses it and is done without one, and, by where the handler is, how far the row is
and what can have gone wrong (`RowTells` in the end).
A step changes the record of one request and opens one session, closes one, or
neither, so the holders gain or lose one element as `checkedout` does (`OneMoreHolder`,
`OneHolderLess`, `SameHolders`). When every open request is blocked, a node that held a
connection would be using it and could go on; so all holders are handlers, and they map
injectively to requests. Theorems: `ConnectionsAreCounted`, `OnlyExhaustionBlocksAll`,
`RowsTellTheRun`.

**Frontend.** What the page shows and what the server has drift apart in three ways: an
answer on its way that is out of date when it is shown, a decision the page still waits for,
and one the page has given up but the server will act on. `BannerInv` says that the first
cannot happen to the answer of a run, because nobody can have decided on an assessment that
was never shown (`AnswersAreFresh`), that decisions answer with an end (`DecisionsEnd`), and
that the other two are explained (`DriftIsExplained`, which is stronger than the property: it
already asks for an explanation while the given-up decision is still to be acted on).

That the screen is current is true because handlers that come one at a time find the page as they
left it: `ScreenInv` says what a handler meets on the screen when its call returns (`ScreenIsTheirs`),
that what the server has ended stays ended, so that an answer that is not waiting cannot be
out of date (`AnswersAreGiven`, `ScreenIsAnAnswer`), and, with `DriftIsExplained`, that a screen that waits is right when
nothing has broken. Overlapping handlers are exempt, for good: one that comes back late may still show
what it captured. Theorems: `BannerIsExplained`, `FlagsAreTrue`, `ScreenIsCurrent`.

**Evaluation.** First what a run of the graph comes to, for any corpus and any order of the database.
The k-th result of a search is the one with k results ranked no later; because the rank is
a total order, each k has exactly one (`InOrderIsOfTheSet`), so what is retrieved is of the corpus
and what survives the deduplication is what was retrieved (`EvidenceIsOfTheApp`). A detector cites a
chunk that shows the risk (`RisksAreShown`), such a citation resolves (`RefsResolve`), and so the review keeps
every finding and strips the fabricated option only (`AllFindingsAreKept`, `OnlyTheRewriteIsStripped`). A critical
finding makes the policy ask (`CriticalMustApprove`).

`EvaluationInv` then follows the arms. They are numbered as they come, so the arm in hand has an id
nobody else has (`ArmsAreNumbered`, `IdsAreDistinct`); every row, ticket and checkpoint is a user's, a recorded
arm's, or of the arm in hand (`DatabaseIsKnown`), which is what clean-up removes; and what a recorded arm
says of itself is what happened (`ArmsTellWhatHappened`). That a case which passes has the ticket of
its approved arm is not in the checks alone: they accept an approved arm that never paused. It follows
because such an arm, unbroken, has a report that needs no approval, hence not a critical one
(`WentThroughTheGate`), while the case expects a critical one (`GoldenAssumption`). Theorems:
`FindingsCiteTheirTriggers`, `PassedCasesAreClean`, `CleanupIsExact`.

`BrokenCasesAloneFail` is about the dataset as well as the code: it assumes `ExpectationsAreMet`, that on the
corpus the dataset was written for the agents find what each case expects, in whatever order the
database answers. The corpus `Shipped` of the run `evaluation`, its own small instance, meets it, as the run confirms: a case that
did not would fail there without anything having raised. `ExpectationInv` carries what an unbroken arm shows of the
report that was made in it, from the draft at the gate to the record (`ArmShows`), and the seven checks follow from
that for every arm (`UnbrokenCasePasses`).

`EvaluationInv` and `ExpectationInv` were checked on the run's instance before they were proved.

**Only model-checked.** Liveness (`CallsReturn`, `EveryCallIsAnswered`,
`EveryRequestIsAnswered`): TLAPS does not handle fairness. Every invariant and every action property of a
passing run is stated by a theorem.

## 5. Where code and documentation disagree

1. `audit_trail`: the report's `removed_claims` are those of the last review.
   What the first review removed is lost when the planner was sent back, although
   `docs/architecture.md:93` says the report carries its own audit trail of what
   was discarded.
2. `recommendation`: when no option survives, the plan goes on recommending one
   that was dropped (`docs/architecture.md:90`, `backend/tests/test_workflow.py:77`).
3. `lost_race`: not every `IntegrityError` is a lost race on the assessment
   (`tools/servicenow.py:57`). The numbers of two assessments may collide; the
   approval then fails after the gate is past, the thread never pauses again, and
   the row says `awaiting_approval` for good.
4. `denial`: an approval and a denial sent together may leave a ticket and a
   report that says there is none (`nodes.py:405`, `README.md:168`). It takes little: the
   thread looks paused until the approval's checkpoint has been saved in the background. A
   single request is enough when a stop or a failed save loses that checkpoint after the ticket's
   commit and the denial comes afterwards, which is why `DenialHoldsUnlessDisturbed` excludes `rolled_back`.
5. `stale_lines`: a row whose content is unchanged is skipped before its line numbers are
   set (`services/ingestion.py:88`), so a line added above leaves it pointing elsewhere,
   although `docs/architecture.md:107` says line numbers are preserved so that citations can
   point at them.

Observed while modelling, without a run of its own:

* `chunking.py:2` says "Boundaries keep each chunk a coherent unit", but a unit starts at
  `node.lineno` (`chunking.py:106-113`), the line of `def` or `class`: a decorator above it is cut from its
  definition and ends the chunk before. The model's `Def` lines are those lines, so it cuts the same way; no
  property calls the result coherent.
* A request that merges what the gate had returned to an earlier one answers 200 with that earlier decision,
  although it sent another (`AnswerHonoursTheRequest` has this exception). It takes a stop, or a
  failed save, after the gate's writes were saved and before its checkpoint was.
* A call of the ticket tool whose `refresh` fails (`servicenow.py:68`) raises with its ticket committed.
  The thread is past the gate, so nothing asks the tool for it again, unless the gate's checkpoint was lost.
* `_persist_and_respond` and the handlers' own reads are outside the `try`: when they fail,
  a row stays `pending` after a run that reported, or says `awaiting_approval` of one that has ended.
  A `failed` row's thread may wait for approval or have a report (`assessments.py:51-55` catches the
  state read and the saves as well), and an approval of it is then accepted.
* An UPDATE sets the columns that differ from what its own run had loaded
  (`ingestion.py:101`). Two runs that overlap may each set one line number of a row, so that
  a row can start after it ends until a later run changes its content: `TypeOK` asks of
  both only that they are positive.
* Chunks of deleted files stay retrievable until a purge (`ingestion.py:68`).
* When checkpointer set-up failed at boot and its indexes are missing, the first request
  that drives the graph waits for ever for its own transaction: `EveryRequestIsAnswered` is
  stated for starts whose set-up succeeded, and deferring set-up is its faulty variant.
* After a failed resume the harness reads `paused` again (`harness.py:89`). If the thread had
  left the gate, an approved arm whose ticket was committed counts as one that never paused,
  and the summary's tool-safety line is wrong about it. The case fails in any event.
* An evaluation that is aborted leaves its rows (`run.py`).
* Three arms are run only for cases that expect an approval (`harness.py:173`).
* A resumed gate traces a second `approval_requested` (`nodes.py:229`).
* A late answer to a decision replaces a newer assessment on the screen (`App.tsx:57`), and the
  page never reads an assessment again: `getAssessment` has no caller.

## 6. Not modelled

Texts, layout and durations. The GET endpoints and 404 or 422 answers, which change
nothing. The live model, its prompts and the model factory: a remote service, covered by
checking the workflow over every draft of its sets. Embedding itself: a vector is what it
was made of and by which model. Sample applications, asset inventory, health, settings:
constants. The sanitizing of trace payloads, a filter by key, and LangSmith. Of the
evaluation: the key-findings metric, which decides nothing, printing, and the validation
of the dataset file. Of the frontend: how reports and traces are rendered.

## 7. Plan

Done: reviewer and policy, workflow, ticket tool, approval service, chunking and ingestion,
server sessions, page, retrieval, agents and evaluation, their runs, and the proofs of
section 4. Left:

1. Lemmas on `EvidenceReview` for any plan: reviewing what a review has kept removes nothing more,
   so a second review of the same draft ends the loop.
2. That `Evaluation` starts from what `Ingestion` leaves: `CorpusAssumption` as a theorem of
   `Ingestion` instead of an assumption.
