------------------------ MODULE ChangeTicketToolProofs ------------------------
(***************************************************************************)
(* The ticket tool, for any set of callers and any finite set of           *)
(* assessments: its inductive invariant, and that it implements the        *)
(* registry.                                                               *)
(***************************************************************************)
EXTENDS ChangeTicketTool, FiniteSetTheorems, TLAPS

(* The rows _next_ticket_number counts are finitely many, so the number it *)
(* comes to is a positive natural number.                                  *)
LEMMA CountIsNatural == Cardinality(Ticketed) + 1 \in Nat \ {0}
<1>1. Ticketed \subseteq Assessments
  BY DEF Ticketed
<1>2. IsFiniteSet(Ticketed)
  BY <1>1, ToolAssumption, FS_Subset
<1>3. Cardinality(Ticketed) \in Nat
  BY <1>2, FS_CardinalityType
<1> QED
  BY <1>3

(* The invariant holds initially: there is no ticket and no call. *)
LEMMA ToolInitInv == ToolInit => ToolInv
<1> SUFFICES ASSUME ToolInit PROVE ToolInv
  OBVIOUS
<1> USE DEF ToolInit, Unasked
<1>1. ToolTypeOK /\ ForeignKeyHolds
  BY DEF ToolTypeOK, CallType, ForeignKeyHolds, OpenCall, OpenStates, Ticketed
<1>2. NumbersAreUnique
  BY DEF NumbersAreUnique, Ticketed
<1>3. CountedNumber /\ InsertedNumber /\ ReturnedTicketIsReal
  BY DEF CountedNumber, InsertedNumber, ReturnedTicketIsReal
<1> QED
  BY <1>1, <1>2, <1>3 DEF ToolInv

(* Every step of the tool keeps the invariant. *)
LEMMA ToolStepInv == ToolInv /\ [ToolNext]_toolVars => ToolInv'
<1> SUFFICES ASSUME ToolInv, [ToolNext]_toolVars PROVE ToolInv'
  OBVIOUS
<1> USE DEF ToolInv, ToolTypeOK, CallType, ForeignKeyHolds, OpenCall, OpenStates
<1>1. ASSUME NEW c \in Callers, NEW a \in Assessments, Call(c, a) PROVE ToolInv'
  <2>1. ToolTypeOK' /\ ForeignKeyHolds'
    BY <1>1 DEF Call, Ticketed
  <2>2. NumbersAreUnique'
    BY <1>1 DEF Call, Ticketed, NumbersAreUnique
  <2>3. CountedNumber' /\ InsertedNumber' /\ ReturnedTicketIsReal'
    BY <1>1 DEF Call, CountedNumber, InsertedNumber, ReturnedTicketIsReal
  <2> QED
    BY <2>1, <2>2, <2>3
<1>2. ASSUME NEW c \in Callers, Lookup(c) \/ Reread(c) PROVE ToolInv'
  <2>1. ToolTypeOK' /\ ForeignKeyHolds'
    BY <1>2 DEF Lookup, Reread, Return, Goto, Ticketed
  <2>2. NumbersAreUnique'
    BY <1>2 DEF Lookup, Reread, Ticketed, NumbersAreUnique
  <2>3. CountedNumber' /\ InsertedNumber' /\ ReturnedTicketIsReal'
    BY <1>2 DEF Lookup, Reread, Return, Goto, Ticketed, CountedNumber, InsertedNumber,
                ReturnedTicketIsReal
  <2> QED
    BY <2>1, <2>2, <2>3
<1>3. ASSUME NEW c \in Callers, Count(c) PROVE ToolInv'
  <2>1. ToolTypeOK' /\ ForeignKeyHolds'
    BY <1>3, CountIsNatural DEF Count, Ticketed
  <2>2. NumbersAreUnique'
    BY <1>3 DEF Count, Ticketed, NumbersAreUnique
  <2>3. CountedNumber' /\ InsertedNumber' /\ ReturnedTicketIsReal'
    BY <1>3, CountIsNatural DEF Count, CountedNumber, InsertedNumber, ReturnedTicketIsReal
  <2> QED
    BY <2>1, <2>2, <2>3
<1>4. ASSUME NEW c \in Callers, Commit(c) PROVE ToolInv'
  <2> DEFINE a == calls[c].assessment
  <2>1. /\ a \in Assessments /\ a \in assessments /\ a \notin Ticketed
        /\ calls[c].number \in Nat \ {0}
    BY <1>4 DEF Commit, Insertable, CountedNumber
  <2>2. ToolTypeOK' /\ ForeignKeyHolds'
    BY <1>4, <2>1 DEF Commit, Goto, Ticketed
  <2>3. NumbersAreUnique'
    BY <1>4, <2>1 DEF Commit, Insertable, Ticketed, NumbersAreUnique
  <2>4. CountedNumber' /\ InsertedNumber' /\ ReturnedTicketIsReal'
    BY <1>4, <2>1 DEF Commit, Goto, Ticketed, CountedNumber, InsertedNumber,
                     ReturnedTicketIsReal
  <2> QED
    BY <2>2, <2>3, <2>4
<1>5. ASSUME NEW c \in Callers, IntegrityError(c) \/ DatabaseError(c) PROVE ToolInv'
  <2>1. ToolTypeOK' /\ ForeignKeyHolds'
    BY <1>5 DEF IntegrityError, DatabaseError, Goto, Ticketed
  <2>2. NumbersAreUnique'
    BY <1>5 DEF IntegrityError, DatabaseError, Ticketed, NumbersAreUnique
  <2>3. CountedNumber' /\ InsertedNumber' /\ ReturnedTicketIsReal'
    BY <1>5 DEF IntegrityError, DatabaseError, Goto, CountedNumber, InsertedNumber,
                ReturnedTicketIsReal
  <2> QED
    BY <2>1, <2>2, <2>3
<1>6. ASSUME NEW a \in Assessments, DeleteAssessment(a) PROVE ToolInv'
  <2>1. ToolTypeOK' /\ ForeignKeyHolds'
    BY <1>6 DEF DeleteAssessment, Ticketed
  <2>2. NumbersAreUnique'
    BY <1>6 DEF DeleteAssessment, Ticketed, NumbersAreUnique
  <2>3. CountedNumber' /\ InsertedNumber' /\ ReturnedTicketIsReal'
    BY <1>6 DEF DeleteAssessment, CountedNumber, InsertedNumber, ReturnedTicketIsReal
  <2> QED
    BY <2>1, <2>2, <2>3
<1>7. ASSUME NEW c \in Callers, Refresh(c) PROVE ToolInv'
  <2>1. ToolTypeOK' /\ ForeignKeyHolds'
    BY <1>7 DEF Refresh, Goto, Ticketed
  <2>2. NumbersAreUnique'
    BY <1>7 DEF Refresh, Ticketed, NumbersAreUnique
  <2>3. CountedNumber' /\ InsertedNumber' /\ ReturnedTicketIsReal'
    BY <1>7 DEF Refresh, Goto, Ticketed, CountedNumber, InsertedNumber,
                ReturnedTicketIsReal
  <2> QED
    BY <2>1, <2>2, <2>3
<1>8. CASE UNCHANGED toolVars
  BY <1>8 DEF toolVars, Ticketed, NumbersAreUnique, CountedNumber, InsertedNumber,
              ReturnedTicketIsReal
<1> QED
  BY <1>1, <1>2, <1>3, <1>4, <1>5, <1>6, <1>7, <1>8 DEF ToolNext, ToolStep

THEOREM ToolInvariance == ToolSpec => []ToolInv
<1> QED
  BY ToolInitInv, ToolStepInv, PTL DEF ToolSpec

(* The variables of the ticket tool always keep their shape. *)
THEOREM ToolTypeCorrect == ToolSpec => []ToolTypeOK
<1>1. ToolInv => ToolTypeOK
  BY DEF ToolInv
<1> QED
  BY <1>1, ToolInvariance, PTL

(* Ticket numbers are unique, however calls and deletions interleave. *)
THEOREM ToolNumbersAreUnique == ToolSpec => []NumbersAreUnique
<1>1. ToolInv => NumbersAreUnique
  BY DEF ToolInv
<1> QED
  BY <1>1, ToolInvariance, PTL

(* What a call returned is the ticket its assessment has. *)
THEOREM ToolReturnsTheTicket == ToolSpec => []ReturnedTicketIsReal
<1>1. ToolInv => ReturnedTicketIsReal
  BY DEF ToolInv
<1> QED
  BY <1>1, ToolInvariance, PTL

-----------------------------------------------------------------------------
(* Only the caller that moves is seen to move. *)
LEMMA SeenMoves ==
  ASSUME NEW c \in Callers, NEW call,
         calls \in [Callers -> CallType], calls' = [calls EXCEPT ![c] = call]
  PROVE  [d \in Callers |-> Seen(calls'[d])]
           = [[d \in Callers |-> Seen(calls[d])] EXCEPT ![c] = Seen(call)]
  OBVIOUS

(* Seen from outside, a step of the tool is a step of the registry or none. *)
LEMMA ToolStepRefines ==
  ToolInv /\ [ToolNext]_toolVars => [Registry!Next]_(Registry!vars)
<1> DEFINE answers == [c \in Callers |-> Seen(calls[c])]
           a(c) == calls[c].assessment
           Returned(c, n) == [at |-> "returned", assessment |-> a(c), number |-> n]
<1> SUFFICES ASSUME ToolInv, [ToolNext]_toolVars PROVE [Registry!Next]_(Registry!vars)
  OBVIOUS
<1> USE DEF ToolInv, ToolTypeOK, CallType
<1>1. ASSUME NEW c \in Callers, NEW b \in Assessments, Call(c, b)
      PROVE  Registry!Ask(c, b)
  <2>1. answers' = [answers EXCEPT ![c] = Seen(calls'[c])]
    BY <1>1, SeenMoves DEF Call
  <2>2. /\ answers[c].at = "ready"
        /\ Seen(calls'[c]) = [at |-> "open", assessment |-> b, number |-> 0]
    BY <1>1 DEF Call, Seen, OpenStates
  <2> QED
    BY <1>1, <2>1, <2>2 DEF Registry!Ask, Call
<1>2. ASSUME NEW c \in Callers, OpenCall(c)
      PROVE  answers[c] = [at |-> "open", assessment |-> a(c), number |-> 0]
  BY <1>2 DEF OpenCall, Seen, OpenStates
<1>3. ASSUME NEW c \in Callers, a(c) \in Ticketed, Lookup(c) \/ Reread(c) \/ Refresh(c)
      PROVE  Registry!Give(c)
  <2>1. OpenCall(c) /\ ticket_number[a(c)] # 0 /\ UNCHANGED ticket_number
    BY <1>3 DEF Lookup, Reread, Refresh, OpenCall, OpenStates, Ticketed
  <2>2. answers' = [answers EXCEPT ![c] = Seen(calls'[c])]
    BY <1>3, SeenMoves DEF Lookup, Reread, Refresh, Return, Goto
  <2>3. calls[c].at = "refresh" => calls[c].number = ticket_number[a(c)]
    BY <1>3 DEF InsertedNumber, ForeignKeyHolds, Ticketed
  <2>4. Seen(calls'[c]) = Returned(c, ticket_number[a(c)])
    BY <1>3, <2>3 DEF Lookup, Reread, Refresh, Return, Goto, Seen, OpenStates
  <2>5. answers[c].at = "open" /\ answers[c].assessment = a(c)
    BY <1>2, <2>1
  <2> QED
    BY <2>1, <2>2, <2>4, <2>5 DEF Registry!Give, Registry!Answer
<1>4. ASSUME NEW c \in Callers, Commit(c) PROVE Registry!Open(c)
  <2>1. /\ OpenCall(c)
        /\ ticket_number' = [ticket_number EXCEPT ![a(c)] = calls[c].number]
        /\ a(c) \in Assessments
        /\ ticket_number[a(c)] = 0
        /\ calls[c].number \in Nat \ (Registry!Numbers \cup {0})
    BY <1>4 DEF Commit, Insertable, OpenCall, OpenStates, Ticketed, CountedNumber,
                Registry!Numbers
  <2>2. ticket_number'[a(c)] = calls[c].number
    BY <2>1
  <2>3. answers' = [answers EXCEPT ![c] = Seen(calls'[c])]
    BY <1>4, SeenMoves DEF Commit, Goto
  <2>4. Seen(calls'[c]) = Seen(calls[c])
    BY <1>4 DEF Commit, Goto, Seen, OpenStates
  <2>5. answers[c].at = "open" /\ answers[c].assessment = a(c)
    BY <1>2, <2>1
  <2>6. UNCHANGED answers
    BY <2>3, <2>4
  <2> QED
    BY <2>1, <2>2, <2>5, <2>6 DEF Registry!Open
<1>5. ASSUME NEW c \in Callers,
             \/ DatabaseError(c)
             \/ (Reread(c) \/ Refresh(c)) /\ a(c) \notin Ticketed
      PROVE  Registry!Refuse(c)
  <2>1. OpenCall(c) /\ UNCHANGED ticket_number
    BY <1>5 DEF DatabaseError, Reread, Refresh, OpenCall, OpenStates
  <2>2. answers' = [answers EXCEPT ![c] = Seen(calls'[c])]
    BY <1>5, SeenMoves DEF DatabaseError, Reread, Refresh, Goto
  <2>3. Seen(calls'[c]) = [at |-> "raised", assessment |-> a(c), number |-> 0]
    BY <1>5 DEF DatabaseError, Reread, Refresh, Goto, Seen, OpenStates
  <2>4. answers[c].at = "open" /\ answers[c].assessment = a(c)
    BY <1>2, <2>1
  <2> QED
    BY <2>1, <2>2, <2>3, <2>4 DEF Registry!Refuse, Registry!Answer
<1>6. ASSUME NEW c \in Callers,
             Count(c) \/ IntegrityError(c) \/ (Lookup(c) /\ a(c) \notin Ticketed)
      PROVE  UNCHANGED Registry!vars
  <2>1. answers' = [answers EXCEPT ![c] = Seen(calls'[c])]
    BY <1>6, SeenMoves DEF Count, IntegrityError, Lookup, Goto
  <2>2. Seen(calls'[c]) = Seen(calls[c])
    BY <1>6 DEF Count, IntegrityError, Lookup, Goto, Seen, OpenStates
  <2> QED
    BY <1>6, <2>1, <2>2 DEF Registry!vars, Count, IntegrityError, Lookup
<1>7. ASSUME NEW b \in Assessments, DeleteAssessment(b) PROVE Registry!Drop(b)
  BY <1>7 DEF Registry!Drop, DeleteAssessment
<1>8. CASE UNCHANGED toolVars
  BY <1>8 DEF toolVars, Registry!vars, Seen, OpenStates
<1> QED
  BY <1>1, <1>3, <1>4, <1>5, <1>6, <1>8, <1>7 DEF ToolNext, ToolStep, Registry!Next

(* The statement-by-statement tool implements the registry: an assessment  *)
(* has one ticket under a number of its own, and whatever statements of    *)
(* other calls and deletions came in between, a call that returns gives    *)
(* back the ticket its assessment has at that moment.                      *)
THEOREM ToolImplementsRegistry == ToolSpec => ImplementsRegistry
<1>1. ToolInit => Registry!Init
  BY DEF ToolInit, Registry!Init, Unasked, Registry!Unasked, Seen, OpenStates
<1> QED
  BY <1>1, ToolStepRefines, ToolInvariance, PTL DEF ToolSpec, ImplementsRegistry, Registry!Spec

-----------------------------------------------------------------------------
(* A ticket keeps its number until its assessment is deleted. *)
LEMMA TicketLasts ==
  ASSUME ToolInv, [ToolNext]_toolVars, NEW a \in Ticketed, a \in assessments'
  PROVE  ticket_number'[a] = ticket_number[a]
<1> USE DEF ToolInv, ToolTypeOK, Ticketed
<1>1. ASSUME NEW c \in Callers, NEW b \in Assessments, Call(c, b)
      PROVE  UNCHANGED ticket_number
  BY <1>1 DEF Call
<1>2. ASSUME NEW c \in Callers,
             \/ Lookup(c) \/ Count(c) \/ Refresh(c) \/ IntegrityError(c) \/ Reread(c)
             \/ DatabaseError(c)
      PROVE  UNCHANGED ticket_number
  BY <1>2 DEF Lookup, Count, Refresh, IntegrityError, Reread, DatabaseError
<1>3. ASSUME NEW c \in Callers, Commit(c)
      PROVE  ticket_number'[a] = ticket_number[a]
  BY <1>3 DEF Commit, Insertable
<1>4. ASSUME NEW b \in Assessments, DeleteAssessment(b)
      PROVE  ticket_number'[a] = ticket_number[a]
  BY <1>4 DEF DeleteAssessment
<1> QED
  BY <1>1, <1>2, <1>3, <1>4 DEF ToolNext, ToolStep, toolVars

LEMMA AssessmentsShrink ==
  ASSUME [ToolNext]_toolVars PROVE assessments' \subseteq assessments
BY DEF ToolNext, ToolStep, toolVars, Call, Lookup, Count, Commit, Refresh, IntegrityError,
       Reread, DatabaseError, DeleteAssessment

(* create_assessment_ticket never renumbers: from one step to the next,     *)
(* whatever the calls do, an assessment that still exists keeps its ticket  *)
(* under the number it had.                                                 *)
THEOREM ToolTicketsArePermanent == ToolSpec => TicketIsPermanent
<1>1. ASSUME ToolInv, [ToolNext]_toolVars, NEW a \in Ticketed, a \in assessments'
      PROVE  ticket_number'[a] = ticket_number[a]
  BY <1>1, TicketLasts
<1>2. ToolInv /\ [ToolNext]_toolVars =>
        [\A a \in Ticketed : a \in assessments' =>
            ticket_number'[a] = ticket_number[a]]_toolVars
  BY <1>1
<1> QED
  BY <1>2, ToolInvariance, PTL DEF ToolSpec, TicketIsPermanent
=============================================================================
