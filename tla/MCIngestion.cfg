SPECIFICATION Spec
CONSTANTS
  MAX_CHUNK_LINES = 3
  WINDOW_LINES = 2
  None = None
  Runs = {r1, r2}
  Corpus <- MCCorpus
  doc_type_for <- MCTypes
  InitialDisks <- MCDisks
  Edits <- MCEdits
  MaxStarts = 3
  MaxEdits = 2
SYMMETRY RunSymmetry
INVARIANTS
  TypeOK
  ChunksPartitionTheFile
  VectorsBelongToContents
PROPERTIES
  UndisturbedRunIsExact
  UnchangedRowsSurvive
  ReingestLeavesOneVectorSpace
CHECK_DEADLOCK FALSE
