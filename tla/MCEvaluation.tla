----------------------------- MODULE MCEvaluation -----------------------------
(***************************************************************************)
(* Two golden cases: a legacy application with sensitive findings and a    *)
(* request the evidence does not support, and a clean one.  A search of    *)
(* the legacy application returns three of four chunks, two of them at the *)
(* same distance, so that the order of the database and the reranking both *)
(* decide what the agents see.                                             *)
(***************************************************************************)
EXTENDS Evaluation

CONSTANTS a1

At(n) == [app |-> n, security |-> n, standards |-> n]
AppChunk(id, app, path, lines, tokens, distance) ==
  [id |-> id, app |-> app, category |-> "app", path |-> path, lines |-> lines, tokens |-> tokens,
   distance |-> distance]

LegacyConfig == AppChunk("l_config", "legacy", "config.py", {{"secret_assignment"}, {"debug_true"}},
                         {"credential", "configuration"}, At(15))
LegacyDb     == AppChunk("l_db", "legacy", "db.py", {{"log_call", "bare_record_arg"}, {"sqlite", "formatted_sql"}},
                         {"pii", "customer"}, At(15))
LegacyApi    == AppChunk("l_api", "legacy", "app.py", {{"flask"}, {"no_authentication"}}, {"order"}, At(10))
LegacyModels == AppChunk("l_models", "legacy", "models.py", {{"dataclass"}, {"Customer"}}, {"order"}, At(10))
ModernConfig == AppChunk("m_config", "modern", "config.py", {{"secret_assignment", "os.environ"}},
                         {"configuration"}, At(70))
ModernApi    == AppChunk("m_api", "modern", "app.py", {{"flask"}, {"log_call"}, {"pii_term"}}, {"health"}, At(30))
Standard     == [id |-> "standard", app |-> "none", category |-> "standard", path |-> "security_standard.md",
                 lines |-> {{"no_authentication"}, {"log_call", "pii_term"}}, tokens |-> {"vault"},
                 distance |-> At(40)]

MCShipped == {LegacyConfig, LegacyDb, LegacyApi, LegacyModels, ModernConfig, ModernApi, Standard}
\* the secret detector finds nothing; the modern application logs a record
MCCorpora == {MCShipped,
              (MCShipped \ {LegacyConfig}) \cup {[LegacyConfig EXCEPT !.lines = {{"debug_true"}}]},
              (MCShipped \ {ModernApi}) \cup {[ModernApi EXCEPT !.lines = {{"log_call", "pii_term"}}]}}

MCCases == <<
  [app |-> "legacy", objective |-> {"rewrite", "pii"}, expected_risk_level |-> "critical",
   expected_approval_required |-> TRUE, expected_finding_categories |-> {"pii", "secret"},
   expected_removed_claims |-> TRUE],
  [app |-> "modern", objective |-> {"health"}, expected_risk_level |-> "low",
   expected_approval_required |-> FALSE, expected_finding_categories |-> {},
   expected_removed_claims |-> NotAsserted]>>
MCApiIds == {a1}
=============================================================================
