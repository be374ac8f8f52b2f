------------------------------- MODULE Retrieval -------------------------------
(***************************************************************************)
(* Vector search over the corpus, reranked (services/retrieval.py), and    *)
(* the three searches of an assessment (graph/nodes.py).                   *)
(*                                                                         *)
(* Scores are counted in Units of 1/60, in which the overlap of two token  *)
(* sets with at most six tokens between them is exact.  The database may   *)
(* return chunks at the same distance in either order, so a search has a   *)
(* set of possible results.                                                *)
(*                                                                         *)
(* A chunk is [id, app, category, path, lines, tokens, distance], where    *)
(* app is NoApp for a standard, and distance has one entry for each query. *)
(***************************************************************************)
EXTENDS Integers, Sequences, FiniteSets, SequencesExt

CONSTANTS
  RetrievalTopK,   \* settings.retrieval_top_k: 6 by default
  NoApp

ASSUME RetrievalAssumption == RetrievalTopK \in Nat \ {0}

Units == 60
CANDIDATE_POOL_MULTIPLIER == 3

\* The k-th is the one that k come no later than.
InOrder(S, R) ==
  [k \in 1..Cardinality(S) |-> CHOOSE s \in S : Cardinality({t \in S : <<t, s>> \in R}) = k]

Shorter(m, n) == IF m < n THEN m ELSE n
FirstFew(s, n) == SubSeq(s, 1, Shorter(n, Len(s)))

LexicalOverlap(query_tokens, content_tokens) ==
  IF query_tokens = {} \/ content_tokens = {} THEN 0
  ELSE (Units * Cardinality(query_tokens \cap content_tokens))
         \div Cardinality(query_tokens \cup content_tokens)

\* a cosine distance is at most 2
VectorScore(distance) == IF distance > Units THEN 0 ELSE Units - distance

\* RERANK_ALPHA is 0.6
Score(chunk, query) ==
  6 * VectorScore(chunk.distance[query.name]) + 4 * LexicalOverlap(query.tokens, chunk.tokens)

ByDistance(chunks, query) ==
  {s \in SetToSeqs(chunks) :
     \A i, j \in 1..Len(s) : i < j => s[i].distance[query.name] <= s[j].distance[query.name]}

Candidates(chunks, query) ==
  {FirstFew(s, RetrievalTopK * CANDIDATE_POOL_MULTIPLIER) : s \in ByDistance(chunks, query)}

\* a stable sort by falling score
Before(candidates, query) ==
  {p \in (1..Len(candidates)) \X (1..Len(candidates)) :
     \/ Score(candidates[p[1]], query) > Score(candidates[p[2]], query)
     \/ Score(candidates[p[1]], query) = Score(candidates[p[2]], query) /\ p[1] <= p[2]}

Reranked(candidates, query) ==
  LET order == InOrder(1..Len(candidates), Before(candidates, query))
  IN [k \in 1..Len(candidates) |-> candidates[order[k]]]

\* a variant that fetches no more than it returns, which leaves nothing to rerank
Retrieve_without_pool(chunks, query) ==
  {Reranked(FirstFew(s, RetrievalTopK), query) : s \in ByDistance(chunks, query)}

Retrieve(chunks, query) ==
  {FirstFew(Reranked(s, query), RetrievalTopK) : s \in Candidates(chunks, query)}

-----------------------------------------------------------------------------
(* The evidence of an assessment. *)

\* every chunk where it occurs first
DedupeEvidence(items) ==
  LET first == {i \in 1..Len(items) : \A j \in 1..(i - 1) : items[j].id # items[i].id}
      order == InOrder(first, {p \in first \X first : p[1] <= p[2]})
  IN [k \in 1..Cardinality(first) |-> items[order[k]]]

\* the fixed words of the three queries, of which one word each is kept
AppQuery(objective)       == [name |-> "app",       tokens |-> objective \cup {"configuration"}]
SecurityQuery(objective)  == [name |-> "security",  tokens |-> objective \cup {"credential"}]
StandardsQuery(objective) == [name |-> "standards", tokens |-> objective \cup {"vault"}]

AppChunks(chunks, app)   == {c \in chunks : c.app = app}
StandardChunks(chunks)   == {c \in chunks : c.category = "standard"}

RetrieveEvidence(chunks, objective, app) ==
  {DedupeEvidence(a \o s \o d) :
     a \in Retrieve(AppChunks(chunks, app), AppQuery(objective)),
     s \in Retrieve(AppChunks(chunks, app), SecurityQuery(objective)),
     d \in Retrieve(StandardChunks(chunks), StandardsQuery(objective))}
=============================================================================
