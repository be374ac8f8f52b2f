SPECIFICATION Spec
CONSTANTS
  NoPlan = NoPlan
  NoRequest = NoRequest
  None = None
  Retrievals <- MCRetrievals
  ArchDrafts <- MCArchDrafts
  RiskDrafts <- MCRiskDrafts
  PlanDrafts <- MCPlanDrafts
  max_revisions = 1
  MaxCrashes = 0
  TraceCap <- MCTraceCap
INVARIANT RecommendationIsOffered
\* a finished or failed assessment has nothing left to do
CHECK_DEADLOCK FALSE
