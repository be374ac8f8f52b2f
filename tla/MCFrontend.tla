------------------------------ MODULE MCFrontend ------------------------------
(***************************************************************************)
(* Four clicks: two assessments and a decision on each, or one assessment  *)
(* and three attempts to decide.                                           *)
(***************************************************************************)
EXTENDS Frontend
=============================================================================
