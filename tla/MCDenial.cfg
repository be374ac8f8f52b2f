SPECIFICATION Spec
CONSTANTS
  Assessments = {a1}
  Callers = {q1, q2}
  MaxCrashes = 0
SYMMETRY Symmetry
INVARIANT DenialHasNoTicket
\* once every request is answered and every assessment deleted
CHECK_DEADLOCK FALSE
