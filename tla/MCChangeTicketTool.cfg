SPECIFICATION FairToolSpec
CONSTANTS
  Assessments = {a1, a2, a3}
  Callers = {c1, c2, c3}
INVARIANTS
  ToolTypeOK
  NumbersAreUnique
  ReturnedTicketIsReal
PROPERTIES
  TicketIsPermanent
  EveryCallIsAnswered
  ImplementsRegistry
\* once every caller is answered and every assessment deleted
CHECK_DEADLOCK FALSE
