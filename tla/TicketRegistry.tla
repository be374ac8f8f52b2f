---------------------------- MODULE TicketRegistry ----------------------------
(***************************************************************************)
(* What the change-ticket tool promises: an assessment has at most one     *)
(* ticket, under a number no other ticket has; a call that returns, gives  *)
(* back the ticket its assessment has then.  A call that raises promises   *)
(* nothing: the ticket it opened, or another call did, stays.              *)
(***************************************************************************)
EXTENDS Integers

CONSTANTS Assessments, Callers

VARIABLES
  ticket_number,  \* assessment -> the number of its ticket, 0 without one
  answers         \* caller -> [at, assessment, number]

vars == <<ticket_number, answers>>

Statuses == {"ready", "open", "returned", "raised"}

Numbers == {ticket_number[a] : a \in Assessments}

Unasked == [at |-> "ready", assessment |-> "none", number |-> 0]

Init ==
  /\ ticket_number = [a \in Assessments |-> 0]
  /\ answers = [c \in Callers |-> Unasked]

Ask(c, a) ==
  /\ answers[c].at = "ready"
  /\ answers' = [answers EXCEPT ![c] = [at |-> "open", assessment |-> a, number |-> 0]]
  /\ UNCHANGED ticket_number

Answer(c, at, n) ==
  answers' = [answers EXCEPT
    ![c] = [at |-> at, assessment |-> answers[c].assessment, number |-> n]]

(* The ticket is there from here on, whatever becomes of the call. *)
Open(c) ==
  LET a == answers[c].assessment
  IN  /\ answers[c].at = "open"
      /\ ticket_number[a] = 0
      /\ ticket_number'[a] \in Nat \ (Numbers \cup {0})
      /\ ticket_number' = [ticket_number EXCEPT ![a] = ticket_number'[a]]
      /\ UNCHANGED answers

Give(c) ==
  /\ answers[c].at = "open"
  /\ ticket_number[answers[c].assessment] # 0
  /\ Answer(c, "returned", ticket_number[answers[c].assessment])
  /\ UNCHANGED ticket_number

Refuse(c) ==
  /\ answers[c].at = "open"
  /\ Answer(c, "raised", 0)
  /\ UNCHANGED ticket_number

(* The ticket goes with its assessment. *)
Drop(a) ==
  /\ ticket_number' = [ticket_number EXCEPT ![a] = 0]
  /\ UNCHANGED answers

Next ==
  \/ \E c \in Callers :
       \/ \E a \in Assessments : Ask(c, a)
       \/ Open(c) \/ Give(c) \/ Refuse(c)
  \/ \E a \in Assessments : Drop(a)

Spec == Init /\ [][Next]_vars
=============================================================================
