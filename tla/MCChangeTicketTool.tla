--------------------------- MODULE MCChangeTicketTool ---------------------------
(* Three callers on three assessments: enough for two calls to race for    *)
(* one assessment while a third takes the number they counted, and for a   *)
(* deletion to make the count fall behind the numbers in use.              *)
EXTENDS ChangeTicketTool
=============================================================================
