SPECIFICATION Spec
CONSTANTS
  NoPlan = NoPlan
  NoRequest = NoRequest
  None = None
  Retrievals <- MCRetrievals
  ArchDrafts <- MCArchDrafts
  RiskDrafts <- MCRiskDrafts
  PlanDrafts <- MCPlanDrafts
  max_revisions = 2
  MaxCrashes = 1
  TraceCap <- MCTraceCap
INVARIANTS
  TypeOK
  ReportIsGrounded
  ApprovalMatchesReport
  TicketWasApproved
  PlannerRunsOncePerRevision
  RowTellsTheOutcome
PROPERTIES
  DecidedOnWhatWasShown
  CallsReturn
\* a finished or failed assessment has nothing left to do
CHECK_DEADLOCK FALSE
