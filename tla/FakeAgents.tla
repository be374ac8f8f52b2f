------------------------------ MODULE FakeAgents ------------------------------
(***************************************************************************)
(* The rule-based stand-ins for the analysts and the planner               *)
(* (graph/fake_agents.py): detectors over the retrieved evidence, a        *)
(* sequence of chunks.                                                     *)
(*                                                                         *)
(* The content of a chunk is a set of lines, and a line is the set of the  *)
(* patterns it matches, each named for its regular expression or literal.  *)
(* A finding's title stands for its fixed texts; what the reviewer and the *)
(* policy read is kept: citations, categories, severities, the options'    *)
(* order and the plan's effort.                                            *)
(***************************************************************************)
EXTENDS Naturals, Sequences, FiniteSets

FABRICATED_CHUNK_ID == "fabricated"

Matches(content, pattern) == \E line \in content : pattern \in line

\* an assignment that reads the environment is not a literal
HasHardcodedSecret(content) ==
  \E line \in content : "secret_assignment" \in line /\ {"os.environ", "os.getenv"} \cap line = {}

\* the logging call itself has to carry the data
LogsPii(content) ==
  \E line \in content : "log_call" \in line /\ {"pii_term", "bare_record_arg"} \cap line # {}

RiskTypes == {"secret", "pii", "injection", "auth"}
Severity(category) == IF category \in {"secret", "pii"} THEN "critical" ELSE "high"

ShowsRisk(chunk, category) ==
  CASE category = "secret"    -> HasHardcodedSecret(chunk.lines)
    [] category = "pii"       -> LogsPii(chunk.lines)
    [] category = "injection" -> Matches(chunk.lines, "formatted_sql")
    [] category = "auth"      -> Matches(chunk.lines, "no_authentication")

ArchitectureTypes == {"component", "dependency", "data_flow", "debug", "hard_coded"}

ShowsTrait(chunk, title) ==
  LET content == chunk.lines
  IN CASE title = "component"  -> Matches(content, "flask")
       [] title = "dependency" -> Matches(content, "sqlite")
       [] title = "data_flow"  -> Matches(content, "dataclass")
                                    /\ (Matches(content, "Customer") \/ Matches(content, "Order"))
       [] title = "debug"      -> Matches(content, "debug_true")
       [] title = "hard_coded" -> chunk.path = "config.py" /\ ~ Matches(content, "os.environ")

Ref(chunk) == [chunk |-> chunk.id, text |-> chunk.lines # {}]

\* a variant that lets the detectors read the standards too
AppEvidence_any(evidence) == DOMAIN evidence

\* where in the evidence the application's own chunks are
AppEvidence(evidence) == {i \in DOMAIN evidence : evidence[i].category = "app"}

\* _dedupe_by_title keeps the finding of the first chunk that shows it
FirstOf(evidence, places) == evidence[CHOOSE i \in places : \A j \in places : i <= j]

FakeArchitectureFindings(evidence) ==
  LET Showing(title) == {i \in AppEvidence(evidence) : ShowsTrait(evidence[i], title)}
  IN {[title |-> title, evidence |-> {Ref(FirstOf(evidence, Showing(title)))}] :
        title \in {t \in ArchitectureTypes : Showing(t) # {}}}

FakeRiskFindings(evidence) ==
  LET Showing(risk) == {i \in AppEvidence(evidence) : ShowsRisk(evidence[i], risk)}
  IN {[title |-> category, category |-> category, severity |-> Severity(category),
       evidence |-> {Ref(FirstOf(evidence, Showing(category)))}] :
        category \in {c \in RiskTypes : Showing(c) # {}}}

AsksAboutRewrite(objective) == "rewrite" \in objective

RewriteOption ==
  [name |-> "rewrite", pos |-> 3, evidence |-> {[chunk |-> FABRICATED_CHUNK_ID, text |-> TRUE]}]

FakePlan(objective, risks, evidence) ==
  LET critical_or_high == {f \in risks : f.severity \in {"critical", "high"}}
      touches_auth     == \E f \in risks : f.category = "auth"
      cited            == IF Len(evidence) < 3 THEN Len(evidence) ELSE 3
  IN [options |-> {[name |-> "remediate", pos |-> 1, evidence |-> {}],
                   [name |-> "strangler", pos |-> 2, evidence |-> {}]}
                    \cup (IF AsksAboutRewrite(objective) THEN {RewriteOption} ELSE {}),
      recommended_option |-> "remediate",
      estimated_effort   |-> IF Cardinality(critical_or_high) >= 3 \/ touches_auth
                             THEN "high" ELSE "medium",
      touches_auth       |-> touches_auth,
      evidence           |-> {Ref(evidence[i]) : i \in 1..cited}]
=============================================================================
