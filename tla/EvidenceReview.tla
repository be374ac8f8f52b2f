---------------------------- MODULE EvidenceReview ----------------------------
(***************************************************************************)
(* The deterministic core of an assessment: the evidence reviewer, which   *)
(* strips every claim whose citations do not resolve to a retrieved chunk, *)
(* and the approval policy, which decides whether a human has to sign off. *)
(* Both are pure functions of the agents' output.                          *)
(*                                                                         *)
(* Data abstraction.  A chunk is an identifier.  A citation is a record    *)
(* [chunk, text], where text says whether its snippet is non-blank.        *)
(* Findings and citations are sets: the order of the Python lists matters  *)
(* only for kept_options[0], so an option carries its position, pos.       *)
(***************************************************************************)
EXTENDS Integers

CONSTANTS NoPlan,     \* Python's None, where a ModernizationPlan is optional
          NoRequest   \* Python's None, for "no approval request"

SEVERITY_ORDER == [low |-> 0, medium |-> 1, high |-> 2, critical |-> 3]

SENSITIVE_CATEGORIES == {"pii", "secret"}

(* The severity no finding exceeds; "low" when there is no finding. *)
HighestSeverity(risks) ==
  LET levels == {"low"} \cup {f.severity : f \in risks}
  IN  CHOOSE s \in levels :
        \A t \in levels : SEVERITY_ORDER[t] <= SEVERITY_ORDER[s]

-----------------------------------------------------------------------------
(* The reviewer. *)

Supported(refs, valid_ids) ==
  /\ refs # {}
  /\ \A r \in refs : r.chunk \in valid_ids /\ r.text

\* a variant that is content with one citation that resolves
KeptFindings_any(findings, valid_ids) ==
  {f \in findings : \E r \in f.evidence : r.chunk \in valid_ids /\ r.text}

KeptFindings(findings, valid_ids) ==
  {f \in findings : Supported(f.evidence, valid_ids)}

(* An option is dropped whole for one dangling citation; an option without *)
(* a citation is kept.                                                     *)
KeptOptions(plan, valid_ids) ==
  {o \in plan.options : \A r \in o.evidence : r.chunk \in valid_ids}

KeptPlanRefs(plan, valid_ids) == {r \in plan.evidence : r.chunk \in valid_ids}

Names(options) == {o.name : o \in options}

FirstOption(options) ==
  CHOOSE o \in options : \A p \in options : o.pos <= p.pos

(* The recommendation falls back only when some option survived. *)
MustFallBack(plan, valid_ids) ==
  LET kept == KeptOptions(plan, valid_ids)
  IN  kept # {} /\ plan.recommended_option \notin Names(kept)

CleanedPlan(plan, valid_ids) ==
  IF plan = NoPlan THEN NoPlan
  ELSE [plan EXCEPT
          !.evidence = KeptPlanRefs(plan, valid_ids),
          !.options  = KeptOptions(plan, valid_ids),
          !.recommended_option =
             IF MustFallBack(plan, valid_ids)
             THEN FirstOption(KeptOptions(plan, valid_ids)).name
             ELSE @]

RemovedFromPlan(plan, valid_ids) ==
  IF plan = NoPlan THEN {}
  ELSE    {<<"option", o.name>> : o \in plan.options \ KeptOptions(plan, valid_ids)}
     \cup (IF KeptPlanRefs(plan, valid_ids) = plan.evidence THEN {}
           ELSE {<<"plan", "supporting evidence">>})
     \cup (IF MustFallBack(plan, valid_ids)
           THEN {<<"recommended", plan.recommended_option>>} ELSE {})

RemovedClaims(valid_ids, arch, risks, plan) ==
       {<<"architecture", f.title>> : f \in arch \ KeptFindings(arch, valid_ids)}
  \cup {<<"risk", f.title>> : f \in risks \ KeptFindings(risks, valid_ids)}
  \cup RemovedFromPlan(plan, valid_ids)

ReviewDecision(valid_ids, arch, risks, plan) ==
  LET removed == RemovedClaims(valid_ids, arch, risks, plan)
  IN  [revision_requested |-> removed # {}, removed_claims |-> removed]

-----------------------------------------------------------------------------
(* The approval policy.  Any one reason is enough. *)

Triggered(reason, risks, plan) ==
  \/ reason = "critical"  /\ \E f \in risks : f.severity = "critical"
  \/ reason = "sensitive" /\ \E f \in risks : f.category \in SENSITIVE_CATEGORIES
  \/ reason = "auth"      /\ plan # NoPlan /\ plan.touches_auth
  \/ reason = "effort"    /\ plan # NoPlan /\ plan.estimated_effort = "high"

ApprovalReasons(risks, plan) ==
  {r \in {"critical", "sensitive", "auth", "effort"} : Triggered(r, risks, plan)}

EvaluateApprovalPolicy(risks, plan) ==
  IF ApprovalReasons(risks, plan) = {} THEN NoRequest
  ELSE [reasons            |-> ApprovalReasons(risks, plan),
        highest_severity   |-> HighestSeverity(risks),
        recommended_option |-> IF plan = NoPlan THEN NoPlan
                               ELSE plan.recommended_option]
=============================================================================
