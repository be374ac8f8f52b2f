SPECIFICATION Spec
CONSTANTS
  Assessments = {a1}
  Callers = {q1, q2, q3}
  MaxCrashes = 1
SYMMETRY Symmetry
INVARIANTS
  TypeOK
  NoTicketWithoutApproval
  ReportNamesTheTicket
  DenialHoldsUnlessDisturbed
  AnswerHonoursTheRequest
  RowAgreesUnlessDisturbed
\* once every request is answered and every assessment deleted
CHECK_DEADLOCK FALSE
