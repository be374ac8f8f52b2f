SPECIFICATION Spec
CONSTANTS
  a1 = a1
  NoPlan = NoPlan
  NoRequest = NoRequest
  NoApp = NoApp
  NoReport = NoReport
  NotAsserted = NotAsserted
  RetrievalTopK = 3
  Cases <- MCCases
  Corpora <- MCCorpora
  Shipped <- MCShipped
  ApiIds <- MCApiIds
INVARIANTS
  EveryFindingCitesItsTrigger
  PassedCasesRanClean
  OnlyBrokenCasesFail
  CleanupTakesItsOwn
CHECK_DEADLOCK FALSE
