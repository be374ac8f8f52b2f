--------------------------- MODULE ChangeTicketTool ---------------------------
(***************************************************************************)
(* MockServiceNowChangeTool.create_assessment_ticket, one transaction per  *)
(* caller, statement by statement, over the change_tickets table and its   *)
(* two unique constraints.  Postgres runs at READ COMMITTED: a statement   *)
(* sees what is committed when it starts, and the constraints are checked  *)
(* against committed rows when the insert commits.                         *)
(*                                                                         *)
(* Deleting an assessment cascades to its ticket.  The evaluation harness  *)
(* deletes the assessments it created, and looks at nothing before it does *)
(* so: a deletion may come between any two statements of a call.           *)
(***************************************************************************)
EXTENDS Integers, FiniteSets

CONSTANTS Assessments, Callers

ASSUME ToolAssumption == IsFiniteSet(Assessments)

VARIABLES
  assessments,    \* the ids in the assessments table
  ticket_number,  \* assessment -> the number of its ticket, 0 without one
  calls           \* caller -> [at, assessment, number]: where its call stands

toolVars == <<assessments, ticket_number, calls>>

Unasked == [at |-> "ready", assessment |-> "none", number |-> 0]

Ticketed == {a \in Assessments : ticket_number[a] # 0}

OpenStates == {"lookup", "count", "commit", "refresh", "reread"}

OpenCall(c) == calls[c].at \in OpenStates

Goto(c, at) == calls' = [calls EXCEPT ![c].at = at]

Return(c, number) ==
  calls' = [calls EXCEPT ![c].at = "returned", ![c].number = number]

-----------------------------------------------------------------------------
\* a variant whose request lacks the assessment's id
Call_without_id(c, a) ==
  /\ calls[c].at = "ready"
  /\ calls' = [calls EXCEPT ![c] = [at |-> "lookup", assessment |-> "none", number |-> 0]]
  /\ UNCHANGED <<assessments, ticket_number>>

Call(c, a) ==
  /\ calls[c].at = "ready"
  /\ calls' = [calls EXCEPT ![c] = [at |-> "lookup", assessment |-> a, number |-> 0]]
  /\ UNCHANGED <<assessments, ticket_number>>

Lookup(c) ==
  /\ calls[c].at = "lookup"
  /\ IF calls[c].assessment \in Ticketed
     THEN Return(c, ticket_number[calls[c].assessment])
     ELSE Goto(c, "count")
  /\ UNCHANGED <<assessments, ticket_number>>

(* _next_ticket_number: one more than the rows there are now. *)
Count(c) ==
  /\ calls[c].at = "count"
  /\ calls' = [calls EXCEPT ![c].at = "commit", ![c].number = Cardinality(Ticketed) + 1]
  /\ UNCHANGED <<assessments, ticket_number>>

\* variants with one of the two constraints missing
Insertable_number_shared(a, number) == a \in assessments \ Ticketed

Insertable_assessment_shared(a, number) ==
  a \in assessments /\ \A b \in Ticketed : ticket_number[b] # number

(* What the foreign key and the two unique constraints leave room for. *)
Insertable(a, number) ==
  /\ a \in assessments
  /\ a \notin Ticketed
  /\ \A b \in Ticketed : ticket_number[b] # number

Commit(c) ==
  /\ calls[c].at = "commit"
  /\ Insertable(calls[c].assessment, calls[c].number)
  /\ ticket_number' = [ticket_number EXCEPT ![calls[c].assessment] = calls[c].number]
  /\ Goto(c, "refresh")
  /\ UNCHANGED assessments

\* a variant that answers with what it inserted, without reading it again
Refresh_unread(c) ==
  /\ calls[c].at = "refresh"
  /\ Goto(c, "returned")
  /\ UNCHANGED <<assessments, ticket_number>>

(* refresh reads the row again in a transaction of its own; it raises when *)
(* the row has been deleted.                                               *)
Refresh(c) ==
  /\ calls[c].at = "refresh"
  /\ Goto(c, IF calls[c].assessment \in Ticketed THEN "returned" ELSE "raised")
  /\ UNCHANGED <<assessments, ticket_number>>

IntegrityError(c) ==
  /\ calls[c].at = "commit"
  /\ ~Insertable(calls[c].assessment, calls[c].number)
  /\ Goto(c, "reread")
  /\ UNCHANGED <<assessments, ticket_number>>

\* a variant that answers with the number it failed to insert
Reread_own_number(c) ==
  /\ calls[c].at = "reread"
  /\ Goto(c, "returned")
  /\ UNCHANGED <<assessments, ticket_number>>

\* a variant that counts and inserts again, as long as it takes
Reread_retrying(c) ==
  /\ calls[c].at = "reread"
  /\ IF calls[c].assessment \in Ticketed
     THEN Return(c, ticket_number[calls[c].assessment])
     ELSE Goto(c, "count")
  /\ UNCHANGED <<assessments, ticket_number>>

Reread(c) ==
  /\ calls[c].at = "reread"
  /\ IF calls[c].assessment \in Ticketed
     THEN Return(c, ticket_number[calls[c].assessment])
     ELSE Goto(c, "raised")
  /\ UNCHANGED <<assessments, ticket_number>>

(* The database does not answer, or the process stops: an open transaction *)
(* is rolled back, a ticket that was committed stays.                      *)
DatabaseError(c) ==
  /\ OpenCall(c)
  /\ Goto(c, "raised")
  /\ UNCHANGED <<assessments, ticket_number>>

DeleteAssessment(a) ==
  /\ a \in assessments
  /\ assessments' = assessments \ {a}
  /\ ticket_number' = [ticket_number EXCEPT ![a] = 0]
  /\ UNCHANGED calls

-----------------------------------------------------------------------------
ToolInit ==
  /\ assessments = Assessments
  /\ ticket_number = [a \in Assessments |-> 0]
  /\ calls = [c \in Callers |-> Unasked]

ToolStep(c) ==
  \/ Lookup(c) \/ Count(c) \/ Commit(c) \/ Refresh(c) \/ IntegrityError(c)
  \/ Reread(c) \/ DatabaseError(c)

ToolNext ==
  \/ \E c \in Callers : \E a \in Assessments : Call(c, a)
  \/ \E c \in Callers : ToolStep(c)
  \/ \E a \in Assessments : DeleteAssessment(a)

ToolSpec == ToolInit /\ [][ToolNext]_toolVars

FairToolSpec == ToolSpec /\ \A c \in Callers : WF_toolVars(ToolStep(c))

-----------------------------------------------------------------------------
CallType ==
  [at         : {"ready", "lookup", "count", "commit", "refresh", "reread", "returned",
                 "raised"},
   assessment : Assessments \cup {"none"},
   number     : Nat]

(* Every variable keeps its shape, and a call that has begun names an      *)
(* assessment.                                                             *)
ToolTypeOK ==
  /\ assessments \subseteq Assessments
  /\ ticket_number \in [Assessments -> Nat]
  /\ calls \in [Callers -> CallType]
  /\ \A c \in Callers : calls[c].at # "ready" => calls[c].assessment \in Assessments

(* No two assessments share a ticket number, although numbers are counted  *)
(* from rows that concurrent calls and deletions change underneath.        *)
NumbersAreUnique ==
  \A a, b \in Ticketed : ticket_number[a] = ticket_number[b] => a = b

(* Whichever path a call took (found, inserted, or lost the race), what it *)
(* returned is the ticket its assessment has, as long as the assessment    *)
(* exists: all calls for one assessment return the same number.            *)
ReturnedTicketIsReal ==
  \A c \in Callers :
    calls[c].at = "returned" /\ calls[c].assessment \in assessments =>
      /\ calls[c].number # 0
      /\ calls[c].number = ticket_number[calls[c].assessment]

(* What makes the above inductive.  The foreign key holds.  A number about *)
(* to be inserted was counted, so it is not the 0 of "no ticket".  What is *)
(* read again after the commit is the number that was inserted, unless it  *)
(* is gone.                                                                *)
ForeignKeyHolds == Ticketed \subseteq assessments

CountedNumber == \A c \in Callers : calls[c].at = "commit" => calls[c].number # 0

InsertedNumber ==
  \A c \in Callers :
    calls[c].at = "refresh" /\ calls[c].assessment \in assessments =>
      calls[c].number # 0 /\ calls[c].number = ticket_number[calls[c].assessment]

ToolInv ==
  /\ ToolTypeOK
  /\ ForeignKeyHolds
  /\ NumbersAreUnique
  /\ CountedNumber
  /\ InsertedNumber
  /\ ReturnedTicketIsReal

(* A ticket keeps its number until its assessment is deleted. *)
TicketIsPermanent ==
  [][\A a \in Ticketed : a \in assessments' => ticket_number'[a] = ticket_number[a]]_toolVars

(* Every call is answered, by a ticket or an exception. *)
EveryCallIsAnswered ==
  \A c \in Callers : OpenCall(c) ~> calls[c].at \in {"returned", "raised"}

(* The tool keeps the promise of the registry: seen from outside, a call   *)
(* opens a ticket in one step if it opens one, and answers in another.     *)
Seen(call) ==
  [at         |-> IF call.at \in OpenStates THEN "open" ELSE call.at,
   assessment |-> call.assessment,
   number     |-> IF call.at = "returned" THEN call.number ELSE 0]

Registry == INSTANCE TicketRegistry WITH answers <- [c \in Callers |-> Seen(calls[c])]

ImplementsRegistry == Registry!Spec

-----------------------------------------------------------------------------
=============================================================================
