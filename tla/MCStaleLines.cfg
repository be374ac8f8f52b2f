SPECIFICATION Spec
CONSTANTS
  MAX_CHUNK_LINES = 3
  WINDOW_LINES = 2
  None = None
  Runs = {r1}
  Corpus <- MCCorpus
  doc_type_for <- MCTypes
  InitialDisks <- MCDisks
  Edits <- MCEdits
  MaxStarts = 2
  MaxEdits = 1
PROPERTIES
  LineNumbersPointAtTheContent
CHECK_DEADLOCK FALSE
