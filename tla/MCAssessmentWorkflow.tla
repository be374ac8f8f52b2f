------------------------ MODULE MCAssessmentWorkflow ------------------------
(* Drafts for AssessmentWorkflow: two chunks, of which retrieval returns   *)
(* none, one or both, and agent output that cites them, cites one with a   *)
(* blank snippet or cites a fabricated one, so that every branch of the    *)
(* reviewer and of the policy is taken.                                    *)
EXTENDS AssessmentWorkflow

Cite(c) == [chunk |-> c, text |-> TRUE]
Blank(c) == [chunk |-> c, text |-> FALSE]

MCRetrievals == {{}, {"c1"}, {"c1", "c2"}}

ArchFinding == [title |-> "monolith", evidence |-> {Cite("c2")}]

Secret == [title |-> "secret", severity |-> "medium", category |-> "secret",
           evidence |-> {Cite("c1"), Cite("c2")}]
Injection == [title |-> "injection", severity |-> "critical",
              category |-> "injection", evidence |-> {Cite("c1")}]
BlankRisk == [title |-> "retention", severity |-> "high",
              category |-> "data_retention", evidence |-> {Blank("c1")}]

MCArchDrafts == {{}, {ArchFinding}}
MCRiskDrafts == {{}, {Injection}, {Secret, BlankRisk}}

Option(name, pos, refs) == [name |-> name, pos |-> pos, evidence |-> refs]
Plan(options, best, effort, auth, refs) ==
  [options |-> options, recommended_option |-> best, estimated_effort |-> effort,
   touches_auth |-> auth, evidence |-> refs]

Harden == Option("harden", 1, {})
Split == Option("split", 2, {Cite("c2")})
Rewrite == Option("rewrite", 3, {Cite("fabricated")})

MCPlanDrafts ==
  {Plan({Harden}, "harden", "low", FALSE, {Cite("c1")}),
   Plan({Harden, Rewrite}, "harden", "high", FALSE, {Cite("c1")}),
   Plan({Split, Rewrite}, "rewrite", "medium", TRUE, {Cite("c2")}),
   Plan({Rewrite}, "rewrite", "low", FALSE, {})}

\* one more than the budget for the planner, who may overrun it
MCTraceCap ==
  [e \in Events |-> IF e = <<"planner", "node_completed">> THEN 4
                    ELSE IF e[1] \in {"architecture", "security"} THEN 2 ELSE 1]
=============================================================================
