--------------------------- MODULE MCApprovalService ---------------------------
(* Three requests on one assessment and one process stop: two may be in    *)
(* flight while a third comes, before or after the stop, which may find    *)
(* what the gate returned saved without its checkpoint.  Assessments share *)
(* nothing but the ticket numbers: that two of them choose the same one is *)
(* in MCChangeTicketTool, and refuses an insert, as any database error     *)
(* does here.  Requests differ in nothing but their names; the properties  *)
(* checked are safety properties.                                          *)
EXTENDS ApprovalService, TLC

Symmetry == Permutations(Callers) \cup Permutations(Assessments)
=============================================================================
