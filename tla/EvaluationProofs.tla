--------------------------- MODULE EvaluationProofs ---------------------------
(***************************************************************************)
(* The evaluation (Evaluation), for any dataset, corpus and users of the   *)
(* API.                                                                    *)
(***************************************************************************)
EXTENDS Evaluation, FiniteSetTheorems, NaturalsInduction, WellFoundedInduction, TLAPS

-----------------------------------------------------------------------------
(* Order. *)

TotalOrder(S, R) ==
  /\ \A a, b \in S : <<a, b>> \in R \/ <<b, a>> \in R
  /\ \A a, b \in S : <<a, b>> \in R /\ <<b, a>> \in R => a = b
  /\ \A a, b, c \in S : <<a, b>> \in R /\ <<b, c>> \in R => <<a, c>> \in R

\* Ranks are distinct and from 1 to the size of the set, so there is one of each.
LEMMA InOrderIsOfTheSet ==
  ASSUME NEW S, IsFiniteSet(S), NEW R, TotalOrder(S, R)
  PROVE  Cardinality(S) \in Nat /\ InOrder(S, R) \in [1..Cardinality(S) -> S]
<1> DEFINE n == Cardinality(S)
           Upto(s) == {t \in S : <<t, s>> \in R}
           rank == [s \in S |-> Cardinality(Upto(s))]
<1>1. n \in Nat
  BY FS_CardinalityType
<1>2. ASSUME NEW s \in S
      PROVE  IsFiniteSet(Upto(s)) /\ Cardinality(Upto(s)) \in 1..n
  <2>1. Upto(s) \in SUBSET S /\ s \in Upto(s)
    BY DEF TotalOrder
  <2>2. IsFiniteSet(Upto(s)) /\ Cardinality(Upto(s)) <= n
    BY <2>1, FS_Subset
  <2>3. Cardinality(Upto(s)) \in Nat
    BY <2>2, FS_CardinalityType
  <2>4. Cardinality(Upto(s)) # 0
    BY <2>1, <2>2, FS_EmptySet
  <2> HIDE DEF Upto
  <2> QED
    BY <1>1, <2>2, <2>3, <2>4
<1>3. ASSUME NEW a \in S, NEW b \in S, a # b, <<a, b>> \in R
      PROVE  Cardinality(Upto(a)) < Cardinality(Upto(b))
  <2>1. Upto(a) \in SUBSET Upto(b)
    BY <1>3 DEF TotalOrder
  <2>2. b \in Upto(b) /\ b \notin Upto(a)
    BY <1>3 DEF TotalOrder
  <2>3. /\ Cardinality(Upto(a)) <= Cardinality(Upto(b))
        /\ Cardinality(Upto(b)) = Cardinality(Upto(a)) => Upto(b) = Upto(a)
    BY <1>2, <2>1, FS_Subset
  <2>4. Cardinality(Upto(a)) \in Nat /\ Cardinality(Upto(b)) \in Nat
    BY <1>2, FS_CardinalityType
  <2> HIDE DEF Upto
  <2> QED
    BY <2>2, <2>3, <2>4
<1> HIDE DEF Upto
<1>4. rank \in [S -> 1..n]
  BY <1>2
<1>5. \A a, b \in S : rank[a] = rank[b] => a = b
  <2> SUFFICES ASSUME NEW a \in S, NEW b \in S, a # b PROVE rank[a] # rank[b]
    OBVIOUS
  <2>1. <<a, b>> \in R \/ <<b, a>> \in R
    BY DEF TotalOrder
  <2> QED
    BY <1>1, <1>2, <1>3, <2>1
<1>6. rank \in Injection(S, 1..n)
  BY <1>4, <1>5 DEF Injection, IsInjective
<1>7. IsFiniteSet(1..n) /\ Cardinality(1..n) = n
  BY <1>1, FS_Interval
<1>8. rank \in Surjection(S, 1..n)
  BY <1>6, <1>7, FS_Injection
<1>9. \A k \in 1..n : \E s \in S : Cardinality(Upto(s)) = k
  BY <1>8 DEF Surjection
<1>10. ASSUME NEW k \in 1..n PROVE InOrder(S, R)[k] \in S
  <2>1. InOrder(S, R)[k] = CHOOSE s \in S : Cardinality(Upto(s)) = k
    BY DEF InOrder, Upto
  <2> QED
    BY <1>9, <2>1
<1> QED
  BY <1>1, <1>10 DEF InOrder

-----------------------------------------------------------------------------
(* Retrieval. *)

\* of a corpus that ingestion may have left
Ingested(chunks) ==
  /\ IsFiniteSet(chunks)
  /\ \A c \in chunks : /\ c.id # FABRICATED_CHUNK_ID /\ c.lines # {} /\ IsFiniteSet(c.tokens)
                       /\ \A query \in {"app", "security", "standards"} : c.distance[query] \in Nat

IsQuery(query) == query.name \in {"app", "security", "standards"} /\ IsFiniteSet(query.tokens)

LEMMA ScoreIsANumber ==
  ASSUME NEW chunks, Ingested(chunks), NEW chunk \in chunks, NEW query, IsQuery(query)
  PROVE  Score(chunk, query) \in Int
<1>1. chunk.distance[query.name] \in Nat /\ IsFiniteSet(chunk.tokens)
  BY DEF Ingested, IsQuery
<1>2. VectorScore(chunk.distance[query.name]) \in Int
  BY <1>1 DEF VectorScore, Units
<1>3. LexicalOverlap(query.tokens, chunk.tokens) \in Int
  <2> DEFINE both == query.tokens \cap chunk.tokens
             either == query.tokens \cup chunk.tokens
  <2>1. IsFiniteSet(both) /\ IsFiniteSet(either)
    BY <1>1, FS_Intersection, FS_Union DEF IsQuery
  <2>2. Cardinality(both) \in Nat /\ Cardinality(either) \in Nat
    BY <2>1, FS_CardinalityType
  <2>3. either # {} => Cardinality(either) # 0
    BY <2>1, FS_EmptySet
  <2>4. query.tokens # {} => either # {}
    OBVIOUS
  <2>5. LexicalOverlap(query.tokens, chunk.tokens) =
          IF query.tokens = {} \/ chunk.tokens = {} THEN 0
          ELSE (60 * Cardinality(both)) \div Cardinality(either)
    BY DEF LexicalOverlap, Units
  <2> HIDE DEF both, either
  <2>6. query.tokens # {} => (60 * Cardinality(both)) \div Cardinality(either) \in Int
    BY <2>2, <2>3, <2>4
  <2> QED
    BY <2>5, <2>6
<1> QED
  BY <1>2, <1>3 DEF Score

LEMMA RerankedIsOfTheChunks ==
  ASSUME NEW chunks, Ingested(chunks), NEW s \in Seq(chunks), NEW query, IsQuery(query)
  PROVE  Reranked(s, query) \in Seq(chunks)
<1> DEFINE n == Len(s)
           R == Before(s, query)
<1>1. n \in Nat /\ \A i \in 1..n : s[i] \in chunks
  OBVIOUS
<1>2. \A i \in 1..n : Score(s[i], query) \in Int
  BY <1>1, ScoreIsANumber
<1>3. IsFiniteSet(1..n) /\ Cardinality(1..n) = n
  <2> HIDE DEF n
  <2>1. 1 \in Int /\ n \in Int
    BY <1>1
  <2>2. IsFiniteSet(1..n) /\ Cardinality(1..n) = IF 1 > n THEN 0 ELSE n - 1 + 1
    BY <2>1, FS_Interval
  <2> QED
    BY <1>1, <2>2
<1>4. \A i, j \in 1..n : <<i, j>> \in R <=>
          \/ Score(s[i], query) > Score(s[j], query)
          \/ Score(s[i], query) = Score(s[j], query) /\ i <= j
  BY DEF Before
<1> HIDE DEF n, R
<1>5. TotalOrder(1..n, R)
  <2> DEFINE score == [i \in 1..n |-> Score(s[i], query)]
  <2>1. \A i \in 1..n : score[i] \in Int
    BY <1>2
  <2>2. \A i, j \in 1..n : <<i, j>> \in R <=> score[i] > score[j] \/ (score[i] = score[j] /\ i <= j)
    BY <1>4
  <2> HIDE DEF score
  <2> QED
    BY <1>1, <2>1, <2>2 DEF TotalOrder
<1>6. InOrder(1..n, R) \in [1..n -> 1..n]
  BY <1>3, <1>5, InOrderIsOfTheSet
<1>7. Reranked(s, query) = [k \in 1..n |-> s[InOrder(1..n, R)[k]]]
  BY DEF Reranked, n, R
<1>8. \A k \in 1..n : s[InOrder(1..n, R)[k]] \in chunks
  BY <1>1, <1>6
<1> QED
  BY <1>1, <1>7, <1>8

LEMMA FirstFewAreOfTheChunks ==
  ASSUME NEW S, NEW s \in Seq(S), NEW n \in Nat
  PROVE  FirstFew(s, n) \in Seq(S)
<1>1. Shorter(n, Len(s)) \in 0..Len(s)
  BY DEF Shorter
<1> QED
  BY <1>1 DEF FirstFew

LEMMA RetrievedAreOfTheChunks ==
  ASSUME NEW chunks, Ingested(chunks), NEW query, IsQuery(query),
         NEW found \in Retrieve(chunks, query)
  PROVE  found \in Seq(chunks)
<1>1. PICK candidates \in Candidates(chunks, query) :
        found = FirstFew(Reranked(candidates, query), RetrievalTopK)
  BY DEF Retrieve
<1>2. PICK s \in SetToSeqs(chunks) :
        candidates = FirstFew(s, RetrievalTopK * CANDIDATE_POOL_MULTIPLIER)
  BY <1>1 DEF Candidates, ByDistance
<1>3. Cardinality(chunks) \in Nat /\ s \in [1..Cardinality(chunks) -> chunks]
  BY FS_CardinalityType DEF SetToSeqs, Ingested
<1>4. s \in Seq(chunks)
  BY <1>3
<1>5. RetrievalTopK \in Nat /\ RetrievalTopK * CANDIDATE_POOL_MULTIPLIER \in Nat
  BY RetrievalAssumption DEF CANDIDATE_POOL_MULTIPLIER
<1>6. candidates \in Seq(chunks)
  BY <1>2, <1>4, <1>5, FirstFewAreOfTheChunks
<1> QED
  BY <1>1, <1>5, <1>6, RerankedIsOfTheChunks, FirstFewAreOfTheChunks

LEMMA DedupedAreOfTheChunks ==
  ASSUME NEW S, NEW items \in Seq(S)
  PROVE  DedupeEvidence(items) \in Seq(S)
<1> DEFINE first == {i \in 1..Len(items) : \A j \in 1..(i - 1) : items[j].id # items[i].id}
           R == {p \in first \X first : p[1] <= p[2]}
<1>1. first \in SUBSET (1..Len(items)) /\ Len(items) \in Nat
  OBVIOUS
<1>2. IsFiniteSet(first)
  <2>1. IsFiniteSet(1..Len(items))
    BY FS_Interval
  <2> HIDE DEF first
  <2> QED
    BY <1>1, <2>1, FS_Subset
<1>3. TotalOrder(first, R)
  <2>1. \A i, j \in first : <<i, j>> \in R <=> i <= j
    OBVIOUS
  <2> HIDE DEF first, R
  <2> QED
    BY <1>1, <2>1 DEF TotalOrder
<1>4. DedupeEvidence(items) = [k \in 1..Cardinality(first) |-> items[InOrder(first, R)[k]]]
  BY DEF DedupeEvidence
<1> HIDE DEF first, R
<1>5. Cardinality(first) \in Nat /\ InOrder(first, R) \in [1..Cardinality(first) -> first]
  BY <1>2, <1>3, InOrderIsOfTheSet
<1>6. \A k \in 1..Cardinality(first) : items[InOrder(first, R)[k]] \in S
  <2>1. \A i \in 1..Len(items) : items[i] \in S
    OBVIOUS
  <2> QED
    BY <1>1, <1>5, <2>1
<1> QED
  BY <1>4, <1>5, <1>6

\* The evidence is of the application, or a standard.
LEMMA EvidenceIsOfTheApp ==
  ASSUME NEW chunks, Ingested(chunks), NEW objective, IsFiniteSet(objective), NEW app,
         NEW evidence \in RetrieveEvidence(chunks, objective, app)
  PROVE  evidence \in Seq(AppChunks(chunks, app) \cup StandardChunks(chunks))
<1> DEFINE S == AppChunks(chunks, app) \cup StandardChunks(chunks)
<1>1. Ingested(AppChunks(chunks, app)) /\ Ingested(StandardChunks(chunks))
  <2>1. /\ AppChunks(chunks, app) \in SUBSET chunks
        /\ StandardChunks(chunks) \in SUBSET chunks
    BY DEF AppChunks, StandardChunks
  <2> QED
    BY <2>1, FS_Subset DEF Ingested
<1>2. IsQuery(AppQuery(objective)) /\ IsQuery(SecurityQuery(objective)) /\ IsQuery(StandardsQuery(objective))
  BY FS_AddElement DEF IsQuery, AppQuery, SecurityQuery, StandardsQuery
<1>3. PICK a \in Retrieve(AppChunks(chunks, app), AppQuery(objective)),
           s \in Retrieve(AppChunks(chunks, app), SecurityQuery(objective)),
           d \in Retrieve(StandardChunks(chunks), StandardsQuery(objective)) :
        evidence = DedupeEvidence(a \o s \o d)
  BY DEF RetrieveEvidence
<1>4. a \in Seq(AppChunks(chunks, app)) /\ s \in Seq(AppChunks(chunks, app)) /\ d \in Seq(StandardChunks(chunks))
  BY <1>1, <1>2, RetrievedAreOfTheChunks
<1>5. a \in Seq(S) /\ s \in Seq(S) /\ d \in Seq(S)
  BY <1>4
<1>6. a \o s \o d \in Seq(S)
  BY <1>5
<1> QED
  BY <1>3, <1>6, DedupedAreOfTheChunks

-----------------------------------------------------------------------------
(* The agents, on such evidence. *)

LEMMA LeastOf ==
  ASSUME NEW S \in SUBSET Nat, S # {}
  PROVE  \E m \in S : \A k \in S : m <= k
<1>1. IsWellFoundedOn(OpToRel(<, Nat), Nat)
  BY NatLessThanWellFounded, Zenon
<1>2. \E m \in S : \A k \in S : <<k, m>> \notin OpToRel(<, Nat)
  BY <1>1, WFMin, Zenon
<1>3. \A k, m \in Nat : k < m => <<k, m>> \in OpToRel(<, Nat)
  BY Zenon DEF OpToRel
<1>4. \E m \in S : \A k \in S : ~ (k < m)
  BY <1>2, <1>3, Zenon
<1> QED
  BY <1>4

LEMMA FirstIsShown ==
  ASSUME NEW S, NEW evidence \in Seq(S), NEW places \in SUBSET DOMAIN evidence, places # {}
  PROVE  \E i \in places : FirstOf(evidence, places) = evidence[i]
<1>1. places \in SUBSET Nat
  OBVIOUS
<1>2. \E i \in places : \A j \in places : i <= j
  BY <1>1, LeastOf
<1> QED
  BY <1>2 DEF FirstOf

LEMMA RisksAreShown ==
  ASSUME NEW S, NEW evidence \in Seq(S), NEW f \in FakeRiskFindings(evidence)
  PROVE  /\ f.category \in RiskTypes
         /\ f.severity = Severity(f.category)
         /\ \E i \in AppEvidence(evidence) :
              f.evidence = {Ref(evidence[i])} /\ ShowsRisk(evidence[i], f.category)
<1> DEFINE Showing(risk) == {i \in AppEvidence(evidence) : ShowsRisk(evidence[i], risk)}
<1>1. PICK category \in RiskTypes :
        /\ Showing(category) # {}
        /\ f = [title |-> category, category |-> category, severity |-> Severity(category),
                evidence |-> {Ref(FirstOf(evidence, Showing(category)))}]
  BY DEF FakeRiskFindings
<1>2. Showing(category) \in SUBSET DOMAIN evidence
  BY DEF AppEvidence
<1>3. PICK i \in Showing(category) : FirstOf(evidence, Showing(category)) = evidence[i]
  <2> HIDE DEF Showing
  <2> QED
    BY <1>1, <1>2, FirstIsShown
<1>4. f.category = category /\ f.severity = Severity(category) /\ f.evidence = {Ref(evidence[i])}
  BY <1>1, <1>3
<1> QED
  BY <1>3, <1>4

LEMMA TraitsAreShown ==
  ASSUME NEW S, NEW evidence \in Seq(S), NEW f \in FakeArchitectureFindings(evidence)
  PROVE  \E i \in DOMAIN evidence : f.evidence = {Ref(evidence[i])}
<1> DEFINE Showing(title) == {i \in AppEvidence(evidence) : ShowsTrait(evidence[i], title)}
<1>1. PICK title \in ArchitectureTypes :
        /\ Showing(title) # {}
        /\ f = [title |-> title, evidence |-> {Ref(FirstOf(evidence, Showing(title)))}]
  BY DEF FakeArchitectureFindings
<1>2. Showing(title) \in SUBSET DOMAIN evidence
  BY DEF AppEvidence
<1>3. PICK i \in Showing(title) : FirstOf(evidence, Showing(title)) = evidence[i]
  <2> HIDE DEF Showing
  <2> QED
    BY <1>1, <1>2, FirstIsShown
<1> QED
  BY <1>1, <1>2, <1>3

\* chunks that a detector can cite: known, and not blank
Citable(S) == \A c \in S : /\ c.lines # {} /\ c.id # FABRICATED_CHUNK_ID
                           /\ c.id \in {k.id : k \in UNION Corpora}

LEMMA RefsResolve ==
  ASSUME NEW S, Citable(S), NEW evidence \in Seq(S), NEW i \in DOMAIN evidence
  PROVE  /\ Ref(evidence[i]) \in Citations
         /\ Ref(evidence[i]).chunk = evidence[i].id
         /\ Ref(evidence[i]).chunk \in ChunkIds(evidence)
         /\ Ref(evidence[i]).text
<1>1. evidence[i] \in S /\ evidence[i] \in ToSet(evidence)
  BY DEF ToSet
<1>2. Ref(evidence[i]) = [chunk |-> evidence[i].id, text |-> TRUE]
  BY <1>1 DEF Ref, Citable
<1>3. evidence[i].id \in {k.id : k \in UNION Corpora}
  BY <1>1 DEF Citable
<1> QED
  BY <1>1, <1>2, <1>3 DEF ChunkIds, Citations

LEMMA AllFindingsAreKept ==
  ASSUME NEW S, Citable(S), NEW evidence \in Seq(S)
  PROVE  /\ KeptFindings(FakeRiskFindings(evidence), ChunkIds(evidence)) = FakeRiskFindings(evidence)
         /\ KeptFindings(FakeArchitectureFindings(evidence), ChunkIds(evidence))
              = FakeArchitectureFindings(evidence)
<1>1. ASSUME NEW f, NEW i \in DOMAIN evidence, f.evidence = {Ref(evidence[i])}
      PROVE  Supported(f.evidence, ChunkIds(evidence))
  BY <1>1, RefsResolve DEF Supported
<1>2. \A f \in FakeRiskFindings(evidence) : \E i \in DOMAIN evidence : f.evidence = {Ref(evidence[i])}
  BY RisksAreShown DEF AppEvidence
<1>3. \A f \in FakeArchitectureFindings(evidence) :
        \E i \in DOMAIN evidence : f.evidence = {Ref(evidence[i])}
  BY TraitsAreShown
<1> QED
  BY <1>1, <1>2, <1>3 DEF KeptFindings

\* The review strips the fabricated rewrite and leaves the rest of the plan as it is.
LEMMA OnlyTheRewriteIsStripped ==
  ASSUME NEW S, Citable(S), NEW evidence \in Seq(S), NEW risks, NEW objective
  PROVE  LET plan == FakePlan(objective, risks, evidence)
         IN /\ RemovedFromPlan(plan, ChunkIds(evidence))
                 = IF "rewrite" \in objective THEN {<<"option", "rewrite">>} ELSE {}
            /\ CleanedPlan(plan, ChunkIds(evidence)) \in Plans
<1> DEFINE plan == FakePlan(objective, risks, evidence)
           ids  == ChunkIds(evidence)
           remediate == [name |-> "remediate", pos |-> 1, evidence |-> {}]
           strangler == [name |-> "strangler", pos |-> 2, evidence |-> {}]
           cited == IF Len(evidence) < 3 THEN Len(evidence) ELSE 3
           rewrites == "rewrite" \in objective
<1>1. \A i \in 1..cited : i \in DOMAIN evidence
  OBVIOUS
<1>2. /\ plan.options = {remediate, strangler} \cup (IF rewrites THEN {RewriteOption} ELSE {})
      /\ plan.recommended_option = "remediate"
      /\ plan.estimated_effort \in {"high", "medium"}
      /\ plan.touches_auth \in BOOLEAN
      /\ plan.evidence = {Ref(evidence[i]) : i \in 1..cited}
      /\ plan = [options |-> plan.options, recommended_option |-> plan.recommended_option,
                 estimated_effort |-> plan.estimated_effort, touches_auth |-> plan.touches_auth,
                 evidence |-> plan.evidence]
  BY DEF FakePlan, AsksAboutRewrite
<1>3. plan.evidence \in SUBSET Citations /\ \A r \in plan.evidence : r.chunk \in ids
  <2>1. \A i \in DOMAIN evidence : Ref(evidence[i]) \in Citations /\ Ref(evidence[i]).chunk \in ids
    BY RefsResolve
  <2> HIDE DEF ids, plan, cited
  <2> QED
    BY <1>1, <1>2, <2>1
<1>4. /\ remediate \in PlanOptions /\ strangler \in PlanOptions /\ RewriteOption \in PlanOptions
      /\ remediate.name = "remediate" /\ remediate.evidence = {}
      /\ strangler.name = "strangler" /\ strangler.evidence = {}
      /\ RewriteOption.name = "rewrite"
      /\ \E r \in RewriteOption.evidence : r.chunk = FABRICATED_CHUNK_ID
  <2> DEFINE fabricated == [chunk |-> FABRICATED_CHUNK_ID, text |-> TRUE]
  <2>1. fabricated \in Citations /\ fabricated.chunk = FABRICATED_CHUNK_ID
    BY DEF Citations
  <2>2. RewriteOption = [name |-> "rewrite", pos |-> 3, evidence |-> {fabricated}]
    BY DEF RewriteOption
  <2> HIDE DEF fabricated
  <2>3. remediate \in PlanOptions /\ remediate.name = "remediate" /\ remediate.evidence = {}
    BY DEF PlanOptions
  <2>4. strangler \in PlanOptions /\ strangler.name = "strangler" /\ strangler.evidence = {}
    BY DEF PlanOptions
  <2>5. /\ RewriteOption \in PlanOptions /\ RewriteOption.name = "rewrite"
        /\ RewriteOption.evidence = {fabricated}
    BY <2>1, <2>2 DEF Plans, PlanOptions
  <2> QED
    BY <2>1, <2>3, <2>4, <2>5
<1>5. FABRICATED_CHUNK_ID \notin ids
  BY DEF ChunkIds, ToSet, Citable
<1> HIDE DEF remediate, strangler, cited
<1>6. plan \in Plans
  <2> DEFINE o == plan.options
             e == plan.evidence
             a == plan.touches_auth
             t == plan.estimated_effort
  <2>1. plan = [options |-> o, recommended_option |-> "remediate", estimated_effort |-> t,
                touches_auth |-> a, evidence |-> e]
    BY <1>2
  <2>2. o \in SUBSET PlanOptions /\ e \in SUBSET Citations /\ a \in BOOLEAN /\ t \in {"high", "medium"}
    BY <1>2, <1>3, <1>4
  <2> HIDE DEF plan, o, e, a, t
  <2> QED
    BY <2>1, <2>2 DEF Plans, PlanOptions
<1>7. plan # NoPlan
  BY <1>6, NoneAssumption DEF Plans
<1> HIDE DEF plan, ids
<1>8. KeptOptions(plan, ids) = {remediate, strangler}
  BY <1>2, <1>4, <1>5 DEF KeptOptions
<1>9. plan.options \ KeptOptions(plan, ids) = IF rewrites THEN {RewriteOption} ELSE {}
  BY <1>2, <1>4, <1>8
<1>10. KeptPlanRefs(plan, ids) = plan.evidence
  BY <1>3 DEF KeptPlanRefs
<1>11. ~ MustFallBack(plan, ids)
  BY <1>2, <1>4, <1>8 DEF MustFallBack, Names
<1>12. RemovedFromPlan(plan, ids) = {<<"option", o.name>> : o \in plan.options \ KeptOptions(plan, ids)}
  BY <1>7, <1>10, <1>11 DEF RemovedFromPlan
<1>13. RemovedFromPlan(plan, ids) = IF rewrites THEN {<<"option", "rewrite">>} ELSE {}
  BY <1>4, <1>9, <1>12
<1>14. CleanedPlan(plan, ids) = [plan EXCEPT !.options = {remediate, strangler}]
  BY <1>6, <1>7, <1>8, <1>10, <1>11 DEF CleanedPlan, Plans
<1>15. CleanedPlan(plan, ids) \in Plans
  BY <1>4, <1>6, <1>14 DEF Plans
<1> QED
  BY <1>13, <1>15 DEF plan, ids

LEMMA SeveritiesAreLevels ==
  ASSUME NEW S, NEW evidence \in Seq(S)
  PROVE  LET risks == FakeRiskFindings(evidence)
         IN /\ HighestSeverity(risks) \in DOMAIN SEVERITY_ORDER
            /\ HighestSeverity(risks) = "critical" => \E f \in risks : f.severity = "critical"
<1> DEFINE risks == FakeRiskFindings(evidence)
           levels == {"low"} \cup {f.severity : f \in risks}
           level == CHOOSE s \in levels : \A t \in levels : SEVERITY_ORDER[t] <= SEVERITY_ORDER[s]
<1>1. \A f \in risks : f.severity \in {"high", "critical"}
  BY RisksAreShown DEF Severity
<1> HIDE DEF risks
<1>2. levels \in SUBSET {"low", "high", "critical"} /\ "low" \in levels
  BY <1>1
<1>3. \E s \in levels : \A t \in levels : SEVERITY_ORDER[t] <= SEVERITY_ORDER[s]
  <2>1. /\ SEVERITY_ORDER["low"] = 0 /\ SEVERITY_ORDER["high"] = 2
        /\ SEVERITY_ORDER["critical"] = 3
    BY DEF SEVERITY_ORDER
  <2>2. "critical" \in levels \/ ("critical" \notin levels /\ "high" \in levels)
        \/ levels = {"low"}
    BY <1>2
  <2> HIDE DEF levels
  <2> QED
    BY <1>2, <2>1, <2>2
<1>4. level \in levels
  <2> HIDE DEF levels
  <2> QED
    BY <1>3
<1>5. HighestSeverity(risks) = level
  BY Zenon DEF HighestSeverity
<1>6. level = "critical" => \E f \in risks : f.severity = "critical"
  <2> HIDE DEF level
  <2> QED
    BY <1>4
<1> HIDE DEF level, levels
<1> QED
  BY <1>2, <1>4, <1>5, <1>6 DEF risks, SEVERITY_ORDER

\* What the policy says of a plan the planner returned and critical findings.
LEMMA CriticalMustApprove ==
  ASSUME NEW risks, NEW plan \in Plans, HighestSeverity(risks) \in DOMAIN SEVERITY_ORDER,
         \E f \in risks : f.severity = "critical"
  PROVE  EvaluateApprovalPolicy(risks, plan) # NoRequest
<1> DEFINE reasons == ApprovalReasons(risks, plan)
<1>1. "critical" \in reasons /\ reasons \in SUBSET {"critical", "sensitive", "auth", "effort"}
  BY DEF ApprovalReasons, Triggered
<1>2. plan # NoPlan /\ plan.recommended_option = "remediate"
  BY NoneAssumption DEF Plans
<1>3. EvaluateApprovalPolicy(risks, plan)
        = [reasons |-> reasons, highest_severity |-> HighestSeverity(risks),
           recommended_option |-> "remediate"]
  BY <1>1, <1>2 DEF EvaluateApprovalPolicy
<1> HIDE DEF reasons
<1>4. EvaluateApprovalPolicy(risks, plan) \in Requests
  BY <1>1, <1>3 DEF Requests
<1> QED
  BY <1>4, NoneAssumption

-----------------------------------------------------------------------------
(* A report of a case, and what it says. *)

Made(chunks, case) ==
  {FinalReport(case.objective, evidence) :
     evidence \in RetrieveEvidence(chunks, case.objective, case.app)}

CitesWhatShowsIt(report, chunks, case) ==
  /\ \A f \in report.risk_findings : \A r \in f.evidence :
       \E chunk \in chunks : /\ chunk.id = r.chunk /\ chunk.app = case.app
                             /\ ShowsRisk(chunk, f.category)
  /\ report.removed_claims = IF "rewrite" \in case.objective THEN {<<"option", "rewrite">>} ELSE {}

\* it finds nothing without a citation, and lets nothing critical pass
StandsUp(report) ==
  /\ \A f \in report.risk_findings : f.evidence # {}
  /\ report.must_approve \in BOOLEAN
  /\ report.overall_risk_level = "critical" => report.must_approve

Caseable(case) == IsFiniteSet(case.objective)

LEMMA ReportsAreMade ==
  ASSUME NEW chunks \in Corpora, NEW case, Caseable(case), NEW report \in Made(chunks, case)
  PROVE  CitesWhatShowsIt(report, chunks, case) /\ StandsUp(report)
<1>1. PICK evidence \in RetrieveEvidence(chunks, case.objective, case.app) :
        report = FinalReport(case.objective, evidence)
  BY DEF Made
<1> DEFINE S     == AppChunks(chunks, case.app) \cup StandardChunks(chunks)
           ids   == ChunkIds(evidence)
           arch  == FakeArchitectureFindings(evidence)
           risks == FakeRiskFindings(evidence)
           plan  == FakePlan(case.objective, risks, evidence)
<1>2. Ingested(chunks)
  BY CorpusAssumption DEF Ingested
<1>3. evidence \in Seq(S)
  BY <1>2, EvidenceIsOfTheApp DEF Caseable
<1>4. Citable(S)
  <2>1. S \in SUBSET chunks
    BY DEF AppChunks, StandardChunks
  <2>2. \A c \in chunks : c.id \in {k.id : k \in UNION Corpora}
    OBVIOUS
  <2> HIDE DEF S
  <2> QED
    BY <1>2, <2>1, <2>2 DEF Ingested, Citable
<1> HIDE DEF S
<1>5. KeptFindings(risks, ids) = risks /\ KeptFindings(arch, ids) = arch
  BY <1>3, <1>4, AllFindingsAreKept
<1>6. /\ RemovedFromPlan(plan, ids)
           = IF "rewrite" \in case.objective THEN {<<"option", "rewrite">>} ELSE {}
      /\ CleanedPlan(plan, ids) \in Plans
  BY <1>3, <1>4, OnlyTheRewriteIsStripped
<1> HIDE DEF ids, arch, risks, plan
<1>7. /\ report.risk_findings = risks
      /\ report.overall_risk_level = HighestSeverity(risks)
      /\ report.removed_claims = ReviewDecision(ids, arch, risks, plan).removed_claims
      /\ report.must_approve = (EvaluateApprovalPolicy(risks, CleanedPlan(plan, ids)) # NoRequest)
  BY <1>1, <1>5 DEF FinalReport, ids, arch, risks, plan
<1>8. report.removed_claims = IF "rewrite" \in case.objective THEN {<<"option", "rewrite">>} ELSE {}
  BY <1>5, <1>6, <1>7 DEF ReviewDecision, RemovedClaims
<1>9. ASSUME NEW f \in risks
      PROVE  /\ f.evidence # {}
             /\ \A r \in f.evidence :
                  \E chunk \in chunks : /\ chunk.id = r.chunk /\ chunk.app = case.app
                                        /\ ShowsRisk(chunk, f.category)
  <2>1. PICK i \in AppEvidence(evidence) :
          f.evidence = {Ref(evidence[i])} /\ ShowsRisk(evidence[i], f.category)
    BY <1>3, <1>9, RisksAreShown DEF risks
  <2>2. i \in DOMAIN evidence /\ evidence[i].category = "app"
    BY DEF AppEvidence
  <2>3. evidence[i] \in S
    BY <1>3, <2>2
  <2>4. evidence[i] \in chunks /\ evidence[i].app = case.app
    BY <2>2, <2>3 DEF S, AppChunks, StandardChunks
  <2>5. Ref(evidence[i]).chunk = evidence[i].id
    BY DEF Ref
  <2> QED
    BY <2>1, <2>4, <2>5
<1>10. report.overall_risk_level = "critical" => report.must_approve
  <2>1. /\ HighestSeverity(risks) \in DOMAIN SEVERITY_ORDER
        /\ HighestSeverity(risks) = "critical" => \E f \in risks : f.severity = "critical"
    BY <1>3, SeveritiesAreLevels DEF risks
  <2> QED
    BY <1>6, <1>7, <2>1, CriticalMustApprove
<1>11. report.must_approve \in BOOLEAN
  BY <1>7
<1> QED
  BY <1>7, <1>8, <1>9, <1>10, <1>11 DEF CitesWhatShowsIt, StandsUp

-----------------------------------------------------------------------------
(* The invariant. *)

Decisions == {"leave_pending", "deny", "approve"}
Reports(chunks, case) == {NoReport} \cup Made(chunks, case)
Ids(chunks) == {c.id : c \in chunks}

Runs(chunks, case) ==
  [paused : BOOLEAN, draft : Reports(chunks, case), report : Reports(chunks, case),
   evidence : SUBSET Ids(chunks), failed : BOOLEAN]

Outcomes(chunks, case) ==
  [id : Nat \X Nat, decision : Decisions, paused : BOOLEAN, ticket_count : {0, 1},
   report : Reports(chunks, case), evidence : SUBSET Ids(chunks), failed : BOOLEAN]

Results ==
  [runs   : Seq([id : Nat \X Nat, decision : Decisions, ticket_count : {0, 1}]),
   checks : [approval_policy : BOOLEAN, risk_level : BOOLEAN, finding_categories : BOOLEAN,
             evidence_coverage : BOOLEAN, tool_safety : BOOLEAN, no_errors : BOOLEAN,
             removed_claims : BOOLEAN]]

\* a case is in hand
InProgress == Len(results) < Len(Cases)

EvaluationTypes ==
  /\ corpus \in Corpora /\ keep \in BOOLEAN /\ asked \subseteq ApiIds
  /\ results \in Seq(Results) /\ Len(results) <= Len(Cases)
  /\ IF InProgress
     THEN /\ step \in {"create", "run", "decide", "collect", "score", "aborted"}
          /\ run \in Runs(corpus, Case) /\ runs \in Seq(Outcomes(corpus, Case))
          /\ step \in {"create", "run", "decide", "collect"} => Len(runs) < Len(Arms(Case))
          /\ step = "score" => Len(runs) = Len(Arms(Case))
     ELSE step \in {"cleanup", "exited", "aborted"} /\ run = NoRun /\ runs = <<>>

\* arms are numbered as they come
ArmsAreNumbered ==
  /\ \A i \in 1..Len(results) : \A j \in 1..Len(results[i].runs) : results[i].runs[j].id = <<i, j>>
  /\ \A j \in 1..Len(runs) : runs[j].id = <<Len(results) + 1, j>>
                             /\ runs[j].decision = Arms(Case)[j]

RecordedIds == OwnIds \cup {runs[j].id : j \in 1..Len(runs)}
IdWhile(steps) == IF step \in steps THEN {Id} ELSE {}

\* what is where in the database, and of whom
DatabaseIsKnown ==
  /\ asked \subseteq assessments /\ asked \subseteq checkpoints
  /\ (assessments \cup tickets \cup checkpoints)
       \subseteq asked \cup RecordedIds \cup IdWhile({"run", "decide", "collect", "aborted"})
  /\ step = "exited" /\ ~ keep => (assessments \cup tickets \cup checkpoints) \subseteq asked

\* an arm whose report needed approval got it from the gate
WentThroughTheGate(outcome) ==
  ~ outcome.failed /\ outcome.report # NoReport /\ outcome.report.must_approve => outcome.paused

RecordedArmsTell ==
  \A j \in 1..Len(runs) :
    /\ runs[j].failed <=> runs[j].id \in raised
    /\ WentThroughTheGate(runs[j])
    /\ runs[j].ticket_count = IF runs[j].id \in tickets THEN 1 ELSE 0

ArmsTellWhatHappened ==
  /\ raised \subseteq RecordedIds \cup IdWhile({"collect", "aborted"})
  /\ step \in {"create", "run", "score"} => run = NoRun
  /\ step = "decide" => run.paused /\ ~ run.failed
  /\ step = "collect" => (run.failed <=> Id \in raised) /\ WentThroughTheGate(run)
  /\ RecordedArmsTell

EvaluationInv ==
  /\ EvaluationTypes
  /\ ArmsAreNumbered
  /\ DatabaseIsKnown
  /\ ArmsTellWhatHappened
  /\ PassedCasesRanClean

-----------------------------------------------------------------------------
(* Cases, arms and ids. *)

LEMMA CaseInHand ==
  ASSUME EvaluationTypes, InProgress
  PROVE  /\ Caseable(Case)
         /\ Case.expected_approval_required \in BOOLEAN
         /\ Case.expected_finding_categories \subseteq RiskTypes
         /\ Case.expected_approval_required => Case.expected_risk_level = "critical"
         /\ Case = Cases[Len(results) + 1] /\ Len(results) + 1 \in 1..Len(Cases)
<1>1. Len(results) \in Nat /\ Len(Cases) \in Nat
  BY DatasetAssumption DEF EvaluationTypes
<1>2. Len(results) + 1 \in 1..Len(Cases)
  BY <1>1 DEF InProgress
<1>3. /\ Case.expected_approval_required \in BOOLEAN
      /\ Case.expected_finding_categories \subseteq RiskTypes
  <2> DEFINE C == [app : STRING, objective : SUBSET STRING, expected_risk_level : DOMAIN SEVERITY_ORDER,
                   expected_approval_required : BOOLEAN,
                   expected_finding_categories : SUBSET RiskTypes,
                   expected_removed_claims : BOOLEAN \cup {NotAsserted}]
  <2>1. Cases \in Seq(C)
    BY DatasetAssumption
  <2>2. \A c \in C : c.expected_approval_required \in BOOLEAN
                    /\ c.expected_finding_categories \subseteq RiskTypes
    OBVIOUS
  <2> HIDE DEF C
  <2>3. Cases[Len(results) + 1] \in C
    BY <1>2, <2>1
  <2> QED
    BY <2>2, <2>3 DEF Case
<1>4. Caseable(Case)
  BY <1>2, DatasetAssumption DEF Case, Caseable
<1>5. Case.expected_approval_required => Case.expected_risk_level = "critical"
  BY <1>2, GoldenAssumption DEF Case
<1> QED
  BY <1>2, <1>3, <1>4, <1>5 DEF Case

LEMMA ArmsOfACase ==
  ASSUME NEW case, case.expected_approval_required \in BOOLEAN
  PROVE  /\ Len(Arms(case)) \in {1, 3}
         /\ \A j \in 1..Len(Arms(case)) :
              /\ Arms(case)[j] \in Decisions
              /\ Arms(case)[j] = "approve" => case.expected_approval_required /\ j = 3
         /\ case.expected_approval_required => Len(Arms(case)) = 3 /\ Arms(case)[3] = "approve"
BY DEF Arms, Decisions

\* No recorded arm has the number of the next one, and nobody else has any of theirs.
LEMMA IdsAreDistinct ==
  ASSUME EvaluationTypes, ArmsAreNumbered
  PROVE  /\ Id \in Nat \X Nat /\ Id \notin RecordedIds
         /\ RecordedIds \subseteq Nat \X Nat /\ OwnIds \subseteq RecordedIds
         /\ \A a \in ApiIds : a # Id /\ a \notin RecordedIds
         /\ \A i \in 1..Len(results) : \A j \in 1..Len(results[i].runs) : results[i].runs[j].id # Id
<1>1. Len(results) \in Nat /\ Len(runs) \in Nat
  <2>1. results \in Seq(Results)
    BY DEF EvaluationTypes
  <2>2. runs = <<>> \/ runs \in Seq(Outcomes(corpus, Case))
    BY DEF EvaluationTypes
  <2> HIDE DEF Results
  <2> QED
    BY <2>1, <2>2
<1>2. \A i \in 1..Len(results) : Len(results[i].runs) \in Nat
  BY DEF EvaluationTypes, Results
<1>3. Id = <<Len(results) + 1, Len(runs) + 1>> /\ Id \in Nat \X Nat
  BY <1>1 DEF Id
<1>4. \A i \in 1..Len(results) : \A j \in 1..Len(results[i].runs) :
        results[i].runs[j].id \in Nat \X Nat /\ results[i].runs[j].id # Id
  <2> SUFFICES ASSUME NEW i \in 1..Len(results), NEW j \in 1..Len(results[i].runs)
               PROVE  results[i].runs[j].id \in Nat \X Nat /\ results[i].runs[j].id # Id
    OBVIOUS
  <2>1. results[i].runs[j].id = <<i, j>>
    BY DEF ArmsAreNumbered
  <2>2. i \in Nat /\ j \in Nat /\ i # Len(results) + 1
    BY <1>1, <1>2
  <2> QED
    BY <1>3, <2>1, <2>2
<1>5. \A j \in 1..Len(runs) : runs[j].id \in Nat \X Nat /\ runs[j].id # Id
  BY <1>1, <1>3 DEF ArmsAreNumbered
<1>6. OwnIds \subseteq Nat \X Nat /\ Id \notin OwnIds
  BY <1>4 DEF OwnIds
<1>7. RecordedIds \subseteq Nat \X Nat /\ Id \notin RecordedIds /\ OwnIds \subseteq RecordedIds
  BY <1>5, <1>6 DEF RecordedIds
<1> QED
  BY <1>3, <1>4, <1>7, IdsAssumption

\* where no arm is recorded and no case scored
SameArms == UNCHANGED <<corpus, keep, results, runs>>

LEMMA ArmsStay ==
  ASSUME SameArms
  PROVE  /\ Id' = Id /\ Case' = Case /\ Decision' = Decision
         /\ RecordedIds' = RecordedIds /\ OwnIds' = OwnIds
         /\ InProgress' = InProgress /\ (ArmsAreNumbered => ArmsAreNumbered')
BY DEF SameArms, Id, Case, Decision, RecordedIds, OwnIds, InProgress, ArmsAreNumbered

Evaluating == {"create", "run", "decide", "collect", "score", "cleanup"}

\* What passed stays as it was: only the arm in hand raises or gets a ticket.
LEMMA PassedStay ==
  ASSUME EvaluationTypes, ArmsAreNumbered, PassedCasesRanClean, SameArms,
         raised' \subseteq raised \cup {Id},
         step' \in Evaluating =>
           step \in Evaluating /\ \A x : x \notin ApiIds \cup {Id} => (x \in tickets' <=> x \in tickets)
  PROVE  PassedCasesRanClean'
<1>1. results' = results /\ corpus' = corpus
  BY DEF SameArms
<1>2. ASSUME NEW i \in 1..Len(results), NEW arm \in ArmsOf(results[i])
      PROVE  arm.id # Id /\ arm.id \notin ApiIds
  <2>1. PICK j \in 1..Len(results[i].runs) : arm = results[i].runs[j]
    BY DEF ArmsOf
  <2>2. arm.id \in OwnIds
    BY <2>1 DEF OwnIds
  <2> QED
    BY <2>1, <2>2, IdsAreDistinct
<1>3. ASSUME NEW i \in 1..Len(results), Passed(results[i])
      PROVE  /\ \A arm \in ArmsOf(results[i]) : arm.id \notin raised'
             /\ \A category \in Cases[i].expected_finding_categories :
                  \E chunk \in corpus : chunk.app = Cases[i].app /\ ShowsRisk(chunk, category)
             /\ step' \in Evaluating =>
                  \A arm \in ArmsOf(results[i]) : arm.id \in tickets' <=> arm.decision = "approve"
  <2>1. /\ \A arm \in ArmsOf(results[i]) : arm.id \notin raised
        /\ \A category \in Cases[i].expected_finding_categories :
             \E chunk \in corpus : chunk.app = Cases[i].app /\ ShowsRisk(chunk, category)
        /\ step \in Evaluating =>
             \A arm \in ArmsOf(results[i]) : arm.id \in tickets <=> arm.decision = "approve"
    BY <1>3 DEF PassedCasesRanClean, Evaluating
  <2> QED
    BY <1>2, <2>1
<1> QED
  BY <1>1, <1>3 DEF PassedCasesRanClean, Evaluating

-----------------------------------------------------------------------------
(* The steps of an arm, and of others. *)

LEMMA TypesStay ==
  ASSUME EvaluationTypes, SameArms, asked' \subseteq ApiIds,
         IF InProgress
         THEN /\ step' \in {"create", "run", "decide", "collect", "score", "aborted"}
              /\ run' \in Runs(corpus, Case)
              /\ step' \in {"create", "run", "decide", "collect"} => Len(runs) < Len(Arms(Case))
              /\ step' = "score" => Len(runs) = Len(Arms(Case))
         ELSE step' \in {"cleanup", "exited", "aborted"} /\ run' = NoRun
  PROVE  EvaluationTypes'
<1>1. Case' = Case /\ InProgress' = InProgress
  BY ArmsStay
<1>2. /\ corpus' = corpus /\ keep' = keep /\ results' = results /\ runs' = runs
      /\ corpus \in Corpora /\ keep \in BOOLEAN
      /\ results \in Seq(Results) /\ Len(results) <= Len(Cases)
      /\ IF InProgress THEN runs \in Seq(Outcomes(corpus, Case)) ELSE runs = <<>>
  BY DEF SameArms, EvaluationTypes
<1> QED
  BY <1>1, <1>2 DEF EvaluationTypes

LEMMA RecordedArmsStillTell ==
  ASSUME EvaluationTypes, ArmsAreNumbered, RecordedArmsTell, SameArms,
         raised \subseteq raised', raised' \subseteq raised \cup {Id},
         runs = <<>> \/ \A x : x \notin ApiIds \cup {Id} => (x \in tickets' <=> x \in tickets)
  PROVE  RecordedArmsTell'
<1>1. runs' = runs
  BY DEF SameArms
<1>2. ASSUME NEW j \in 1..Len(runs)
      PROVE  /\ runs[j].id \in raised' <=> runs[j].id \in raised
             /\ runs[j].id \in tickets' <=> runs[j].id \in tickets
  <2>1. runs[j].id \in RecordedIds
    BY DEF RecordedIds
  <2>2. runs[j].id \notin ApiIds \cup {Id}
    BY <2>1, IdsAreDistinct
  <2>3. runs # <<>>
    OBVIOUS
  <2> QED
    BY <2>2, <2>3
<1> QED
  BY <1>1, <1>2 DEF RecordedArmsTell, WentThroughTheGate

LEMMA CreateRowStep == EvaluationInv /\ CreateRow => EvaluationInv'
<1> SUFFICES ASSUME EvaluationInv, CreateRow PROVE EvaluationInv'
  OBVIOUS
<1>1. /\ step = "create" /\ step' = "run" /\ assessments' = assessments \cup {Id}
      /\ UNCHANGED <<tickets, checkpoints, run, asked, raised>> /\ SameArms
      /\ EvaluationTypes /\ ArmsAreNumbered /\ DatabaseIsKnown /\ ArmsTellWhatHappened
      /\ PassedCasesRanClean
  BY DEF CreateRow, EvaluationInv, SameArms
<1>2. InProgress /\ asked \subseteq ApiIds /\ run \in Runs(corpus, Case) /\ Len(runs) < Len(Arms(Case))
  BY <1>1 DEF EvaluationTypes
<1>3. /\ Id' = Id /\ RecordedIds' = RecordedIds /\ ArmsAreNumbered'
  BY <1>1, ArmsStay
<1>4. EvaluationTypes'
  BY <1>1, <1>2, TypesStay
<1>5. DatabaseIsKnown'
  BY <1>1, <1>3 DEF DatabaseIsKnown, IdWhile
<1>6. ArmsTellWhatHappened'
  <2>1. RecordedArmsTell'
    BY <1>1, RecordedArmsStillTell DEF ArmsTellWhatHappened
  <2> QED
    BY <1>1, <1>3, <2>1 DEF ArmsTellWhatHappened, IdWhile
<1>7. PassedCasesRanClean'
  BY <1>1, PassedStay DEF Evaluating
<1> QED
  BY <1>3, <1>4, <1>5, <1>6, <1>7 DEF EvaluationInv

LEMMA AbortStep == EvaluationInv /\ Abort => EvaluationInv'
<1> SUFFICES ASSUME EvaluationInv, Abort PROVE EvaluationInv'
  OBVIOUS
<1>1. /\ step \in {"create", "collect", "cleanup"} /\ step' = "aborted"
      /\ UNCHANGED <<assessments, tickets, checkpoints, run, asked, raised>> /\ SameArms
      /\ EvaluationTypes /\ ArmsAreNumbered /\ DatabaseIsKnown /\ ArmsTellWhatHappened
      /\ PassedCasesRanClean
  BY DEF Abort, database, EvaluationInv, SameArms
<1>2. asked \subseteq ApiIds /\ IF InProgress THEN run \in Runs(corpus, Case) ELSE run = NoRun
  BY <1>1 DEF EvaluationTypes
<1>3. /\ Id' = Id /\ RecordedIds' = RecordedIds /\ ArmsAreNumbered'
  BY <1>1, ArmsStay
<1>4. EvaluationTypes'
  BY <1>1, <1>2, TypesStay
<1>5. DatabaseIsKnown'
  BY <1>1, <1>3 DEF DatabaseIsKnown, IdWhile
<1>6. ArmsTellWhatHappened'
  <2>1. RecordedArmsTell'
    BY <1>1, RecordedArmsStillTell DEF ArmsTellWhatHappened
  <2> QED
    BY <1>1, <1>3, <2>1 DEF ArmsTellWhatHappened, IdWhile
<1>7. PassedCasesRanClean'
  BY <1>1, PassedStay DEF Evaluating
<1> QED
  BY <1>3, <1>4, <1>5, <1>6, <1>7 DEF EvaluationInv

LEMMA CleanupStep == EvaluationInv /\ Cleanup => EvaluationInv'
<1> SUFFICES ASSUME EvaluationInv, Cleanup PROVE EvaluationInv'
  OBVIOUS
<1>1. /\ step = "cleanup" /\ step' = "exited"
      /\ assessments' = assessments \ OwnIds /\ tickets' = tickets \ OwnIds
      /\ checkpoints' = checkpoints \ OwnIds
      /\ UNCHANGED <<run, asked, raised>> /\ SameArms
      /\ EvaluationTypes /\ ArmsAreNumbered /\ DatabaseIsKnown /\ ArmsTellWhatHappened
      /\ PassedCasesRanClean
  BY DEF Cleanup, EvaluationInv, SameArms
<1>2. ~ InProgress /\ run = NoRun /\ runs = <<>> /\ asked \subseteq ApiIds
  BY <1>1 DEF EvaluationTypes
<1>3. /\ Id' = Id /\ RecordedIds' = RecordedIds /\ ArmsAreNumbered'
  BY <1>1, ArmsStay
<1>4. EvaluationTypes'
  BY <1>1, <1>2, TypesStay
<1>5. DatabaseIsKnown'
  <2>1. \A a \in asked : a \notin OwnIds
    BY <1>1, <1>2, IdsAreDistinct
  <2>2. RecordedIds = OwnIds
    BY <1>2 DEF RecordedIds
  <2> QED
    BY <1>1, <1>3, <2>1, <2>2 DEF DatabaseIsKnown, IdWhile
<1>6. ArmsTellWhatHappened'
  <2>1. RecordedArmsTell'
    BY <1>1, <1>2, RecordedArmsStillTell DEF ArmsTellWhatHappened
  <2> QED
    BY <1>1, <1>3, <2>1 DEF ArmsTellWhatHappened, IdWhile
<1>7. PassedCasesRanClean'
  BY <1>1, PassedStay DEF Evaluating
<1> QED
  BY <1>3, <1>4, <1>5, <1>6, <1>7 DEF EvaluationInv

LEMMA ApiStep ==
  ASSUME EvaluationInv, NEW a \in ApiIds, ApiCreates(a) \/ ApiApproves(a)
  PROVE  EvaluationInv'
<1>1. /\ UNCHANGED <<step, run, raised>> /\ SameArms
      /\ EvaluationTypes /\ ArmsAreNumbered /\ DatabaseIsKnown /\ ArmsTellWhatHappened
      /\ PassedCasesRanClean
  BY DEF ApiCreates, ApiApproves, EvaluationInv, SameArms
<1>2. \/ /\ asked' = asked \cup {a} /\ assessments' = assessments \cup {a}
         /\ checkpoints' = checkpoints \cup {a} /\ tickets' = tickets
      \/ /\ a \in assessments /\ tickets' = tickets \cup {a}
         /\ UNCHANGED <<asked, assessments, checkpoints>>
  BY DEF ApiCreates, ApiApproves
<1>3. /\ Id' = Id /\ RecordedIds' = RecordedIds /\ ArmsAreNumbered'
  BY <1>1, ArmsStay
<1>4. EvaluationTypes'
  <2>1. /\ asked \subseteq ApiIds
        /\ IF InProgress
           THEN /\ step \in {"create", "run", "decide", "collect", "score", "aborted"}
                /\ run \in Runs(corpus, Case)
                /\ step \in {"create", "run", "decide", "collect"} => Len(runs) < Len(Arms(Case))
                /\ step = "score" => Len(runs) = Len(Arms(Case))
           ELSE step \in {"cleanup", "exited", "aborted"} /\ run = NoRun
    BY <1>1 DEF EvaluationTypes
  <2>2. asked' \subseteq ApiIds
    BY <1>2, <2>1
  <2> QED
    BY <1>1, <2>1, <2>2, TypesStay
<1>5. a \notin RecordedIds /\ a # Id
  BY <1>1, IdsAreDistinct
<1>6. DatabaseIsKnown'
  <2> DEFINE Mine == RecordedIds \cup IdWhile({"run", "decide", "collect", "aborted"})
  <2>1. Mine' = Mine
    BY <1>1, <1>3 DEF IdWhile
  <2>2. a \notin Mine
    BY <1>5 DEF IdWhile
  <2>3. /\ asked \subseteq assessments /\ asked \subseteq checkpoints
        /\ (assessments \cup tickets \cup checkpoints) \subseteq asked \cup Mine
        /\ step = "exited" /\ ~ keep => (assessments \cup tickets \cup checkpoints) \subseteq asked
    BY <1>1 DEF DatabaseIsKnown
  <2>4. keep' = keep /\ step' = step
    BY <1>1 DEF SameArms
  <2>5. /\ asked' \subseteq assessments' /\ asked' \subseteq checkpoints'
        /\ (assessments' \cup tickets' \cup checkpoints') \subseteq asked' \cup Mine
        /\ step = "exited" /\ ~ keep => (assessments' \cup tickets' \cup checkpoints') \subseteq asked'
    <3> HIDE DEF Mine
    <3> QED
      BY <1>2, <2>2, <2>3
  <2> QED
    BY <2>1, <2>4, <2>5 DEF DatabaseIsKnown
<1>7. \A x : x \notin ApiIds \cup {Id} => (x \in tickets' <=> x \in tickets)
  BY <1>2
<1>8. ArmsTellWhatHappened'
  <2>1. RecordedArmsTell'
    BY <1>1, <1>7, RecordedArmsStillTell DEF ArmsTellWhatHappened
  <2> QED
    BY <1>1, <1>3, <2>1 DEF ArmsTellWhatHappened, IdWhile, WentThroughTheGate
<1>9. PassedCasesRanClean'
  BY <1>1, <1>7, PassedStay
<1> QED
  BY <1>3, <1>4, <1>6, <1>8, <1>9 DEF EvaluationInv

LEMMA WhatARunComesTo ==
  ASSUME EvaluationTypes, InProgress,
         NEW evidence \in RetrieveEvidence(corpus, Case.objective, Case.app)
  PROVE  /\ FinalReport(Case.objective, evidence) \in Made(corpus, Case)
         /\ FinalReport(Case.objective, evidence).must_approve \in BOOLEAN
         /\ ChunkIds(evidence) \in SUBSET Ids(corpus)
<1>1. Caseable(Case) /\ corpus \in Corpora
  BY CaseInHand DEF EvaluationTypes
<1>2. FinalReport(Case.objective, evidence) \in Made(corpus, Case)
  BY DEF Made
<1>3. StandsUp(FinalReport(Case.objective, evidence))
  BY <1>1, <1>2, ReportsAreMade
<1>4. Ingested(corpus)
  BY <1>1, CorpusAssumption DEF Ingested
<1> DEFINE S == AppChunks(corpus, Case.app) \cup StandardChunks(corpus)
<1>5. evidence \in Seq(S)
  BY <1>1, <1>4, EvidenceIsOfTheApp DEF Caseable
<1>6. S \in SUBSET corpus
  BY DEF AppChunks, StandardChunks
<1>7. \A i \in DOMAIN evidence : evidence[i] \in corpus
  <2> HIDE DEF S
  <2> QED
    BY <1>5, <1>6
<1>8. ChunkIds(evidence) \in SUBSET Ids(corpus)
  BY <1>7 DEF ChunkIds, ToSet, Ids
<1> QED
  BY <1>2, <1>3, <1>8 DEF StandsUp

LEMMA NoRunIsARun == NoRun \in Runs(corpus, Case)
BY DEF NoRun, Runs, Reports

\* The arm in hand goes on, with what has been recorded left as it is.
LEMMA ArmGoesOn ==
  ASSUME EvaluationInv, InProgress, SameArms, UNCHANGED <<assessments, asked>>,
         step \in {"run", "decide"}, step' \in {"decide", "collect"},
         run' \in Runs(corpus, Case),
         checkpoints \subseteq checkpoints', checkpoints' \subseteq checkpoints \cup {Id},
         tickets \subseteq tickets', tickets' \subseteq tickets \cup {Id},
         \/ raised' = raised /\ ~ run'.failed
         \/ raised' = raised \cup {Id} /\ run'.failed /\ step' = "collect",
         step' = "decide" => run'.paused,
         step' = "collect" => WentThroughTheGate(run')
  PROVE  EvaluationInv'
<1>1. /\ EvaluationTypes /\ ArmsAreNumbered /\ DatabaseIsKnown /\ ArmsTellWhatHappened
      /\ PassedCasesRanClean
  BY DEF EvaluationInv
<1>2. /\ Id' = Id /\ RecordedIds' = RecordedIds /\ ArmsAreNumbered'
  BY <1>1, ArmsStay
<1>3. EvaluationTypes'
  <2>1. asked' \subseteq ApiIds /\ Len(runs) < Len(Arms(Case))
    BY <1>1 DEF EvaluationTypes
  <2> QED
    BY <1>1, <2>1, TypesStay
<1>4. DatabaseIsKnown'
  BY <1>1, <1>2 DEF DatabaseIsKnown, IdWhile
<1>5. Id \notin raised
  <2>1. raised \subseteq RecordedIds
    BY <1>1 DEF ArmsTellWhatHappened, IdWhile
  <2> QED
    BY <1>1, <2>1, IdsAreDistinct
<1>6. ArmsTellWhatHappened'
  <2>1. RecordedArmsTell'
    BY <1>1, RecordedArmsStillTell DEF ArmsTellWhatHappened
  <2>2. raised' \subseteq RecordedIds' \cup IdWhile({"collect", "aborted"})'
    <3>1. raised \subseteq RecordedIds
      BY <1>1 DEF ArmsTellWhatHappened, IdWhile
    <3> QED
      BY <1>2, <3>1 DEF IdWhile
  <2>3. step' = "decide" => run'.paused /\ ~ run'.failed
    OBVIOUS
  <2>4. step' = "collect" => (run'.failed <=> Id' \in raised') /\ WentThroughTheGate(run)'
    BY <1>2, <1>5 DEF WentThroughTheGate
  <2> QED
    BY <2>1, <2>2, <2>3, <2>4 DEF ArmsTellWhatHappened
<1>7. PassedCasesRanClean'
  BY <1>1, PassedStay DEF Evaluating
<1> QED
  BY <1>2, <1>3, <1>4, <1>6, <1>7 DEF EvaluationInv

LEMMA RunAssessmentStep == EvaluationInv /\ RunAssessment => EvaluationInv'
<1> SUFFICES ASSUME EvaluationInv, RunAssessment PROVE EvaluationInv'
  OBVIOUS
<1>1. /\ step = "run" /\ checkpoints' = checkpoints \cup {Id}
      /\ SameArms /\ UNCHANGED <<assessments, tickets, asked>>
  BY DEF RunAssessment, SameArms
<1>2. EvaluationTypes /\ InProgress /\ Id \notin raised
  <2>1. EvaluationTypes /\ InProgress /\ ArmsAreNumbered /\ raised \subseteq RecordedIds
    BY <1>1 DEF EvaluationInv, EvaluationTypes, ArmsTellWhatHappened, IdWhile
  <2> QED
    BY <2>1, IdsAreDistinct
<1>3. PICK evidence \in RetrieveEvidence(corpus, Case.objective, Case.app) :
        LET report == FinalReport(Case.objective, evidence)
            ended  == [paused |-> report.must_approve, draft |-> report, failed |-> FALSE,
                       report |-> IF report.must_approve THEN NoReport ELSE report,
                       evidence |-> ChunkIds(evidence)]
        IN \/ /\ run' = ended
              /\ step' = IF ended.paused /\ Decision # "leave_pending" THEN "decide" ELSE "collect"
              /\ UNCHANGED raised
           \/ Failed(NoRun) \/ Failed(ended)
  BY <1>1 DEF RunAssessment
<1> DEFINE report == FinalReport(Case.objective, evidence)
           ended  == [paused |-> report.must_approve, draft |-> report, failed |-> FALSE,
                      report |-> IF report.must_approve THEN NoReport ELSE report,
                      evidence |-> ChunkIds(evidence)]
<1>4. report \in Made(corpus, Case) /\ report.must_approve \in BOOLEAN /\ ChunkIds(evidence) \in SUBSET Ids(corpus)
  BY <1>2, WhatARunComesTo
<1> HIDE DEF report
<1>5. /\ ended \in Runs(corpus, Case) /\ ~ ended.failed /\ WentThroughTheGate(ended)
      /\ [ended EXCEPT !.failed = TRUE] \in Runs(corpus, Case)
      /\ [ended EXCEPT !.failed = TRUE].failed
  BY <1>4 DEF Runs, Reports, WentThroughTheGate
<1>6. [NoRun EXCEPT !.failed = TRUE] \in Runs(corpus, Case) /\ [NoRun EXCEPT !.failed = TRUE].failed
  BY NoRunIsARun DEF Runs
<1>7. \/ /\ run' = ended /\ raised' = raised
         /\ step' = IF ended.paused /\ Decision # "leave_pending" THEN "decide" ELSE "collect"
      \/ Failed(NoRun) \/ Failed(ended)
  BY <1>3 DEF report
<1> HIDE DEF ended
<1>8. CASE /\ run' = ended /\ raised' = raised
           /\ step' = IF ended.paused /\ Decision # "leave_pending" THEN "decide" ELSE "collect"
  BY <1>1, <1>2, <1>5, <1>8, ArmGoesOn
<1>9. ASSUME NEW outcome, outcome \in {ended, NoRun}, Failed(outcome)
      PROVE  EvaluationInv'
  <2>1. /\ run' = [outcome EXCEPT !.failed = TRUE] /\ raised' = raised \cup {Id} /\ step' = "collect"
    BY <1>9 DEF Failed
  <2>2. run' \in Runs(corpus, Case) /\ run'.failed
    BY <1>5, <1>6, <1>9, <2>1
  <2>3. WentThroughTheGate(run')
    BY <2>2 DEF WentThroughTheGate
  <2> QED
    BY <1>1, <1>2, <2>1, <2>2, <2>3, ArmGoesOn
<1> QED
  BY <1>7, <1>8, <1>9

LEMMA ResumeStep == EvaluationInv /\ Resume => EvaluationInv'
<1> SUFFICES ASSUME EvaluationInv, Resume PROVE EvaluationInv'
  OBVIOUS
<1>1. /\ step = "decide" /\ SameArms /\ UNCHANGED <<assessments, checkpoints, asked>>
      /\ tickets' \in {tickets, tickets \cup {Id}}
  BY DEF Resume, SameArms
<1>2. /\ EvaluationTypes /\ InProgress /\ run.paused /\ ~ run.failed /\ run \in Runs(corpus, Case)
  BY <1>1 DEF EvaluationInv, EvaluationTypes, ArmsTellWhatHappened
<1>3. /\ Ended \in Runs(corpus, Case) /\ ~ Ended.failed /\ Ended.paused
      /\ [Ended EXCEPT !.paused = FALSE] \in Runs(corpus, Case)
      /\ [run EXCEPT !.paused = FALSE] \in Runs(corpus, Case)
  BY <1>2 DEF Ended, Runs
<1>4. \A outcome \in Runs(corpus, Case) :
        [outcome EXCEPT !.failed = TRUE] \in Runs(corpus, Case) /\ [outcome EXCEPT !.failed = TRUE].failed
  BY DEF Runs
<1>5. \/ run' = Ended /\ step' = "collect" /\ raised' = raised
      \/ Failed([Ended EXCEPT !.paused = FALSE])
      \/ Failed([run EXCEPT !.paused = FALSE])
      \/ Failed(run)
  BY DEF Resume
<1>6. CASE run' = Ended /\ step' = "collect" /\ raised' = raised
  <2>1. WentThroughTheGate(run')
    BY <1>3, <1>6 DEF WentThroughTheGate
  <2> QED
    BY <1>1, <1>2, <1>3, <1>6, <2>1, ArmGoesOn
<1>7. ASSUME NEW outcome \in Runs(corpus, Case), Failed(outcome)
      PROVE  EvaluationInv'
  <2>1. /\ run' = [outcome EXCEPT !.failed = TRUE] /\ raised' = raised \cup {Id} /\ step' = "collect"
    BY <1>7 DEF Failed
  <2>2. run' \in Runs(corpus, Case) /\ run'.failed
    BY <1>4, <2>1
  <2>3. WentThroughTheGate(run')
    BY <2>2 DEF WentThroughTheGate
  <2> QED
    BY <1>1, <1>2, <2>1, <2>2, <2>3, ArmGoesOn
<1> QED
  BY <1>2, <1>3, <1>5, <1>6, <1>7

-----------------------------------------------------------------------------
(* An arm is recorded, and a case scored. *)

LEMMA CollectStep == EvaluationInv /\ Collect => EvaluationInv'
<1> SUFFICES ASSUME EvaluationInv, Collect PROVE EvaluationInv'
  OBVIOUS
<1> DEFINE outcome == [id |-> Id, decision |-> Decision, paused |-> run.paused,
                       ticket_count |-> Cardinality({Id} \cap tickets), report |-> run.report,
                       evidence |-> run.evidence, failed |-> run.failed]
           n == Len(runs)
<1>1. /\ step = "collect" /\ runs' = Append(runs, outcome) /\ run' = NoRun
      /\ step' = IF Len(runs') = Len(Arms(Case)) THEN "score" ELSE "create"
      /\ UNCHANGED <<corpus, keep, assessments, tickets, checkpoints, results, asked, raised>>
  BY DEF Collect, database
<1>2. /\ EvaluationTypes /\ ArmsAreNumbered /\ DatabaseIsKnown /\ ArmsTellWhatHappened
      /\ PassedCasesRanClean
  BY DEF EvaluationInv
<1>3. /\ InProgress /\ run \in Runs(corpus, Case) /\ runs \in Seq(Outcomes(corpus, Case))
      /\ n < Len(Arms(Case)) /\ Case.expected_approval_required \in BOOLEAN
  BY <1>1, <1>2, CaseInHand DEF EvaluationTypes
<1>4. n \in Nat /\ Len(Arms(Case)) \in {1, 3} /\ Decision \in Decisions
  <2>1. n \in Nat
    BY <1>3
  <2>2. Len(Arms(Case)) \in {1, 3} /\ \A j \in 1..Len(Arms(Case)) : Arms(Case)[j] \in Decisions
    BY <1>3, ArmsOfACase
  <2> QED
    BY <1>3, <2>1, <2>2 DEF Decision
<1>5. Cardinality({Id} \cap tickets) = IF Id \in tickets THEN 1 ELSE 0
  <2>1. {Id} \cap tickets = IF Id \in tickets THEN {Id} ELSE {}
    OBVIOUS
  <2> QED
    BY <2>1, FS_Singleton, FS_EmptySet
<1>6. outcome \in Outcomes(corpus, Case)
  BY <1>2, <1>3, <1>4, <1>5, IdsAreDistinct DEF Outcomes, Runs
<1>7. /\ outcome.id = Id /\ outcome.decision = Decision /\ outcome.failed = run.failed
      /\ outcome.ticket_count = IF Id \in tickets THEN 1 ELSE 0
      /\ outcome.report = run.report /\ outcome.paused = run.paused
  BY <1>5
<1> HIDE DEF outcome
<1>8. /\ runs' \in Seq(Outcomes(corpus, Case)) /\ Len(runs') = n + 1
      /\ \A j \in 1..n : runs'[j] = runs[j]
      /\ runs'[n + 1] = outcome
  BY <1>1, <1>3, <1>6
<1>9. /\ Case' = Case /\ InProgress' /\ OwnIds' = OwnIds /\ Id = <<Len(results) + 1, n + 1>>
  BY <1>1, <1>3 DEF Case, InProgress, OwnIds, Id
<1> HIDE DEF n
<1>10. RecordedIds' = RecordedIds \cup {Id}
  <2>1. {runs'[j].id : j \in 1..Len(runs')} = {runs[j].id : j \in 1..n} \cup {Id}
    BY <1>4, <1>7, <1>8
  <2> QED
    BY <1>9, <2>1 DEF RecordedIds, n
<1>11. EvaluationTypes'
  <2>1. NoRun \in Runs(corpus, Case)
    BY NoRunIsARun
  <2>2. /\ step' \in {"create", "score"}
        /\ step' = "create" => Len(runs') < Len(Arms(Case))
        /\ step' = "score" => Len(runs') = Len(Arms(Case))
    BY <1>1, <1>3, <1>4, <1>8 DEF n
  <2>3. corpus' \in Corpora /\ keep' \in BOOLEAN /\ asked' \subseteq ApiIds
        /\ results' \in Seq(Results) /\ Len(results') <= Len(Cases)
    BY <1>1, <1>2 DEF EvaluationTypes
  <2> QED
    BY <1>1, <1>8, <1>9, <2>1, <2>2, <2>3 DEF EvaluationTypes
<1>12. ArmsAreNumbered'
  <2>1. \A j \in 1..n : runs[j].id = <<Len(results) + 1, j>> /\ runs[j].decision = Arms(Case)[j]
    BY <1>2 DEF ArmsAreNumbered, n
  <2>2. Decision = Arms(Case)[n + 1]
    BY DEF Decision, n
  <2>3. \A j \in 1..Len(runs') : runs'[j].id = <<Len(results) + 1, j>> /\ runs'[j].decision = Arms(Case)[j]
    BY <1>4, <1>7, <1>8, <1>9, <2>1, <2>2
  <2> QED
    BY <1>1, <1>2, <1>9, <2>3 DEF ArmsAreNumbered
<1>13. DatabaseIsKnown'
  <2>1. step' \in {"create", "score"}
    BY <1>1
  <2> QED
    BY <1>1, <1>2, <1>10, <2>1 DEF DatabaseIsKnown, IdWhile
<1>14. ArmsTellWhatHappened'
  <2>1. step' \in {"create", "score"}
    BY <1>1
  <2>2. /\ run.failed <=> Id \in raised
        /\ WentThroughTheGate(run)
        /\ \A j \in 1..n : /\ runs[j].failed <=> runs[j].id \in raised
                           /\ WentThroughTheGate(runs[j])
                           /\ runs[j].ticket_count = IF runs[j].id \in tickets THEN 1 ELSE 0
        /\ raised \subseteq RecordedIds \cup {Id}
    BY <1>1, <1>2 DEF ArmsTellWhatHappened, RecordedArmsTell, IdWhile, n
  <2>3. WentThroughTheGate(outcome)
    BY <1>7, <2>2 DEF WentThroughTheGate
  <2>4. \A j \in 1..Len(runs') : /\ runs'[j].failed <=> runs'[j].id \in raised
                                 /\ WentThroughTheGate(runs'[j])
                                 /\ runs'[j].ticket_count = IF runs'[j].id \in tickets THEN 1 ELSE 0
    BY <1>4, <1>7, <1>8, <2>2, <2>3
  <2>5. RecordedArmsTell'
    BY <1>1, <2>4 DEF RecordedArmsTell
  <2> QED
    BY <1>1, <1>10, <2>1, <2>2, <2>5 DEF ArmsTellWhatHappened, IdWhile
<1>15. PassedCasesRanClean'
  BY <1>1, <1>2 DEF PassedCasesRanClean
<1> QED
  BY <1>11, <1>12, <1>13, <1>14, <1>15 DEF EvaluationInv

\* A case that passes ran clean in every arm, and its corpus shows what it expects.
LEMMA PassedCaseRanClean ==
  ASSUME EvaluationInv, InProgress, Len(runs) = Len(Arms(Case)),
         \A check \in DOMAIN Checks(Case, runs) : Checks(Case, runs)[check]
  PROVE  /\ \A j \in 1..Len(runs) : runs[j].id \notin raised
         /\ \A category \in Case.expected_finding_categories :
              \E chunk \in corpus : chunk.app = Case.app /\ ShowsRisk(chunk, category)
         /\ \A j \in 1..Len(runs) : runs[j].id \in tickets <=> runs[j].decision = "approve"
<1> DEFINE n       == Len(runs)
           primary == Primary(runs)
           report  == primary.report
           found   == IF report # NoReport THEN {f.category : f \in report.risk_findings} ELSE {}
           c       == Checks(Case, runs)
<1>1. /\ runs \in Seq(Outcomes(corpus, Case)) /\ n \in Nat /\ corpus \in Corpora
      /\ \A j \in 1..n : runs[j] \in Outcomes(corpus, Case)
  <2>1. runs \in Seq(Outcomes(corpus, Case)) /\ corpus \in Corpora
    BY DEF EvaluationInv, EvaluationTypes
  <2> QED
    BY <2>1
<1>2. /\ Caseable(Case) /\ Case.expected_approval_required \in BOOLEAN
      /\ Case.expected_approval_required => Case.expected_risk_level = "critical"
  BY CaseInHand DEF EvaluationInv
<1>3. /\ c.risk_level <=> report # NoReport /\ report.overall_risk_level = Case.expected_risk_level
      /\ c.finding_categories <=> Case.expected_finding_categories \subseteq found
      /\ c.tool_safety <=> ToolSafety(runs)
      /\ c.no_errors <=> \A i \in 1..n : ~ runs[i].failed
      /\ {"risk_level", "finding_categories", "tool_safety", "no_errors"} \subseteq DOMAIN c
  BY DEF Checks
<1>4. c.risk_level /\ c.finding_categories /\ c.tool_safety /\ c.no_errors
  <2> HIDE DEF c
  <2>1. \A check \in DOMAIN c : c[check]
    BY DEF c
  <2> QED
    BY <1>3, <2>1
<1> HIDE DEF c, found, report
<1>5. \A j \in 1..n : /\ runs[j].failed <=> runs[j].id \in raised
                      /\ WentThroughTheGate(runs[j])
                      /\ runs[j].ticket_count = IF runs[j].id \in tickets THEN 1 ELSE 0
                      /\ runs[j].decision = Arms(Case)[j]
  BY DEF EvaluationInv, ArmsTellWhatHappened, RecordedArmsTell, ArmsAreNumbered
<1>6. /\ n \in {1, 3}
      /\ \A j \in 1..n : runs[j].decision = "approve" => Case.expected_approval_required /\ j = 3
      /\ Case.expected_approval_required => n = 3 /\ runs[3].decision = "approve"
  BY <1>1, <1>2, <1>5, ArmsOfACase
<1> DEFINE approved == {i \in 1..n : runs[i].decision = "approve"}
<1>7. \E i \in 1..n : primary = runs[i] /\ (Case.expected_approval_required => i = 3)
  <2>1. primary = runs[IF approved # {} THEN CHOOSE i \in approved : TRUE ELSE n]
    BY DEF Primary
  <2>2. approved = IF Case.expected_approval_required THEN {3} ELSE {}
    BY <1>6
  <2> HIDE DEF approved, primary
  <2> QED
    BY <1>6, <2>1, <2>2
<1>8. report \in Made(corpus, Case)
  <2>1. report \in Reports(corpus, Case)
    BY <1>1, <1>7 DEF Outcomes, report
  <2> QED
    BY <1>3, <1>4, <2>1 DEF Reports
<1>9. CitesWhatShowsIt(report, corpus, Case) /\ StandsUp(report)
  BY <1>1, <1>2, <1>8, ReportsAreMade
<1>10. ASSUME NEW j \in 1..n
       PROVE  runs[j].id \in tickets <=> runs[j].decision = "approve"
  <2>1. runs[j].ticket_count = IF runs[j].decision = "approve" /\ runs[j].paused THEN 1 ELSE 0
    BY <1>3, <1>4 DEF ToolSafety
  <2>2. runs[j].decision = "approve" => runs[j].paused
    <3> SUFFICES ASSUME runs[j].decision = "approve" PROVE runs[j].paused
      OBVIOUS
    <3>1. Case.expected_risk_level = "critical" /\ primary = runs[j]
      BY <1>2, <1>6, <1>7
    <3>2. report.must_approve /\ report # NoReport /\ report = runs[j].report
      BY <1>3, <1>4, <1>9, <3>1 DEF StandsUp, report
    <3> QED
      BY <1>3, <1>4, <1>5, <3>2 DEF WentThroughTheGate
  <2> QED
    BY <1>5, <2>1, <2>2
<1>11. ASSUME NEW category \in Case.expected_finding_categories
       PROVE  \E chunk \in corpus : chunk.app = Case.app /\ ShowsRisk(chunk, category)
  <2>1. PICK f \in report.risk_findings : f.category = category
    BY <1>3, <1>4 DEF found
  <2>2. PICK r \in f.evidence : TRUE
    BY <1>9 DEF StandsUp
  <2> QED
    BY <1>9, <2>1, <2>2 DEF CitesWhatShowsIt
<1>12. \A j \in 1..n : runs[j].id \notin raised
  BY <1>3, <1>4, <1>5
<1> QED
  BY <1>10, <1>11, <1>12

LEMMA ResultIsAResult ==
  ASSUME EvaluationInv, InProgress,
         NEW result, result = [runs   |-> [i \in 1..Len(runs) |-> Printed(runs[i])],
                               checks |-> Checks(Case, runs)]
  PROVE  /\ result \in Results
         /\ Len(result.runs) = Len(runs)
         /\ \A j \in 1..Len(runs) : /\ result.runs[j].id = runs[j].id
                                    /\ result.runs[j].decision = runs[j].decision
<1> DEFINE P == [id : Nat \X Nat, decision : Decisions, ticket_count : {0, 1}]
           Bits == [approval_policy : BOOLEAN, risk_level : BOOLEAN, finding_categories : BOOLEAN,
                    evidence_coverage : BOOLEAN, tool_safety : BOOLEAN, no_errors : BOOLEAN,
                    removed_claims : BOOLEAN]
<1>1. runs \in Seq(Outcomes(corpus, Case))
  BY DEF EvaluationInv, EvaluationTypes
<1>2. Len(runs) \in Nat /\ \A j \in 1..Len(runs) : runs[j] \in Outcomes(corpus, Case)
  BY <1>1
<1>3. \A j \in 1..Len(runs) : Printed(runs[j]) \in P
  BY <1>2 DEF Printed, Outcomes
<1>4. Checks(Case, runs) \in Bits
  <2>1. \A b \in BOOLEAN : b \in BOOLEAN
    OBVIOUS
  <2> QED
    BY DEF Checks, ToolSafety, FullyGrounded
<1> HIDE DEF P, Bits
<1>5. result.runs = [i \in 1..Len(runs) |-> Printed(runs[i])]
  OBVIOUS
<1>6. result.runs \in Seq(P) /\ Len(result.runs) = Len(runs)
  BY <1>2, <1>3, <1>5
<1>7. result \in [runs : Seq(P), checks : Bits]
  BY <1>4, <1>6
<1>8. \A j \in 1..Len(runs) : result.runs[j] = Printed(runs[j])
  BY <1>2, <1>5
<1> QED
  BY <1>6, <1>7, <1>8 DEF P, Bits, Results, Printed

LEMMA EvaluateCaseStep == EvaluationInv /\ EvaluateCase => EvaluationInv'
<1> SUFFICES ASSUME EvaluationInv, EvaluateCase PROVE EvaluationInv'
  OBVIOUS
<1> DEFINE result == [runs   |-> [i \in 1..Len(runs) |-> Printed(runs[i])],
                      checks |-> Checks(Case, runs)]
           n == Len(results)
<1>1. /\ step = "score" /\ results' = Append(results, result) /\ runs' = <<>>
      /\ step' = IF Len(results') < Len(Cases) THEN "create" ELSE IF keep THEN "exited" ELSE "cleanup"
      /\ UNCHANGED <<corpus, keep, assessments, tickets, checkpoints, run, asked, raised>>
  BY DEF EvaluateCase, database
<1>2. /\ EvaluationTypes /\ ArmsAreNumbered /\ DatabaseIsKnown /\ ArmsTellWhatHappened
      /\ PassedCasesRanClean
  BY DEF EvaluationInv
<1>3. /\ InProgress /\ Len(runs) = Len(Arms(Case)) /\ results \in Seq(Results) /\ n \in Nat
      /\ n < Len(Cases) /\ Len(Cases) \in Nat
  <2>1. results \in Seq(Results) /\ InProgress /\ Len(runs) = Len(Arms(Case))
    BY <1>1, <1>2 DEF EvaluationTypes
  <2>2. Len(Cases) \in Nat
    BY DatasetAssumption
  <2> HIDE DEF result
  <2> QED
    BY <2>1, <2>2 DEF InProgress
<1>4. /\ result \in Results /\ Len(result.runs) = Len(runs)
      /\ \A j \in 1..Len(runs) : /\ result.runs[j].id = runs[j].id
                                 /\ result.runs[j].decision = runs[j].decision
  BY <1>3, ResultIsAResult
<1>5. result.checks = Checks(Case, runs)
  OBVIOUS
<1> HIDE DEF result
<1>6. /\ results' \in Seq(Results) /\ Len(results') = n + 1
      /\ \A i \in 1..n : results'[i] = results[i]
      /\ results'[n + 1] = result
  BY <1>1, <1>3, <1>4
<1>7. Case = Cases[n + 1]
  BY DEF Case
<1>8. Len(runs') = 0
  BY <1>1
<1> HIDE DEF n
<1>run. run = NoRun
  BY <1>1, <1>2 DEF ArmsTellWhatHappened
<1>9. EvaluationTypes'
  <2>1. InProgress' <=> n + 1 < Len(Cases)
    BY <1>6 DEF InProgress
  <2>2. NoRun \in Runs(corpus', Case')
    BY DEF NoRun, Runs, Reports
  <2>3. corpus' \in Corpora /\ keep' \in BOOLEAN /\ asked' \subseteq ApiIds
    BY <1>1, <1>2 DEF EvaluationTypes
  <2>4. IF InProgress' THEN step' = "create" ELSE step' \in {"cleanup", "exited"}
    BY <1>1, <1>6, <2>1
  <2>5. runs' \in Seq(Outcomes(corpus', Case'))
    BY <1>1
  <2>6. n + 1 <= Len(Cases)
    BY <1>3
  <2>7. \A case : 0 < Len(Arms(case))
    BY DEF Arms
  <2>8. run' = NoRun /\ runs' = <<>> /\ results' \in Seq(Results) /\ Len(results') <= Len(Cases)
    BY <1>1, <1>6, <1>run, <2>6
  <2>9. InProgress' => Len(runs') < Len(Arms(Case'))
    BY <1>8, <2>7
  <2>10. run' \in Runs(corpus', Case')
    BY <2>2, <2>8
  <2> QED
    BY <2>3, <2>4, <2>5, <2>8, <2>9, <2>10 DEF EvaluationTypes
<1>10. ArmsAreNumbered'
  <2>1. \A j \in 1..Len(runs) : runs[j].id = <<n + 1, j>>
    BY <1>2 DEF ArmsAreNumbered, n
  <2>2. \A i \in 1..n : \A j \in 1..Len(results[i].runs) : results[i].runs[j].id = <<i, j>>
    BY <1>2 DEF ArmsAreNumbered, n
  <2>3. ASSUME NEW i \in 1..Len(results')
        PROVE  \A j \in 1..Len(results'[i].runs) : results'[i].runs[j].id = <<i, j>>
    <3>1. CASE i \in 1..n
      BY <1>6, <2>2, <3>1
    <3>2. CASE i = n + 1
      BY <1>4, <1>6, <2>1, <3>2
    <3> QED
      BY <1>3, <1>6, <3>1, <3>2
  <2> QED
    BY <1>8, <2>3 DEF ArmsAreNumbered
<1>11. RecordedIds' = RecordedIds /\ OwnIds' = RecordedIds
  <2>1. {result.runs[j].id : j \in 1..Len(result.runs)} = {runs[j].id : j \in 1..Len(runs)}
    BY <1>4
  <2>2. OwnIds' = OwnIds \cup {result.runs[j].id : j \in 1..Len(result.runs)}
    <3>1. 1..Len(results') = (1..n) \cup {n + 1}
      BY <1>3, <1>6
    <3>2. \A x : x \in OwnIds' <=>
            \E i \in 1..Len(results') : \E j \in 1..Len(results'[i].runs) : x = results'[i].runs[j].id
      BY DEF OwnIds
    <3>3. \A x : x \in OwnIds <=>
            \E i \in 1..n : \E j \in 1..Len(results[i].runs) : x = results[i].runs[j].id
      BY DEF OwnIds, n
    <3>4. ASSUME NEW x
          PROVE  x \in OwnIds' <=> (x \in OwnIds \/ \E j \in 1..Len(result.runs) : x = result.runs[j].id)
      <4>1. (\E i \in 1..Len(results') : \E j \in 1..Len(results'[i].runs) : x = results'[i].runs[j].id)
              <=> \/ \E i \in 1..n : \E j \in 1..Len(results'[i].runs) : x = results'[i].runs[j].id
                  \/ \E j \in 1..Len(results'[n + 1].runs) : x = results'[n + 1].runs[j].id
        BY <3>1, Zenon
      <4>2. (\E i \in 1..n : \E j \in 1..Len(results'[i].runs) : x = results'[i].runs[j].id)
              <=> \E i \in 1..n : \E j \in 1..Len(results[i].runs) : x = results[i].runs[j].id
        BY <1>6
      <4>3. (\E j \in 1..Len(results'[n + 1].runs) : x = results'[n + 1].runs[j].id)
              <=> \E j \in 1..Len(result.runs) : x = result.runs[j].id
        BY <1>6
      <4> QED
        BY <3>2, <3>3, <4>1, <4>2, <4>3, Zenon
    <3> QED
      BY <3>4
  <2>3. RecordedIds' = OwnIds'
    BY <1>8 DEF RecordedIds
  <2> QED
    BY <2>1, <2>2, <2>3 DEF RecordedIds
<1>12. step' \in {"create", "exited", "cleanup"} /\ (step' = "exited" => keep)
  BY <1>1
<1>13. DatabaseIsKnown'
  BY <1>1, <1>2, <1>11, <1>12 DEF DatabaseIsKnown, IdWhile
<1>14. ArmsTellWhatHappened'
  <2>1. RecordedArmsTell'
    BY <1>8 DEF RecordedArmsTell
  <2>2. raised \subseteq RecordedIds
    BY <1>1, <1>2 DEF ArmsTellWhatHappened, IdWhile
  <2> QED
    BY <1>1, <1>run, <1>11, <1>12, <2>1, <2>2 DEF ArmsTellWhatHappened, IdWhile
<1>15. PassedCasesRanClean'
  <2> DEFINE Clean(i, r) ==
               /\ \A arm \in ArmsOf(r) : arm.id \notin raised
               /\ \A category \in Cases[i].expected_finding_categories :
                    \E chunk \in corpus : chunk.app = Cases[i].app /\ ShowsRisk(chunk, category)
               /\ \A arm \in ArmsOf(r) : arm.id \in tickets <=> arm.decision = "approve"
  <2>1. \A i \in 1..n : Passed(results[i]) => Clean(i, results[i])
    BY <1>1, <1>2 DEF PassedCasesRanClean, n
  <2>2. Passed(result) => Clean(n + 1, result)
    <3> SUFFICES ASSUME Passed(result) PROVE Clean(n + 1, result)
      OBVIOUS
    <3>1. \A check \in DOMAIN Checks(Case, runs) : Checks(Case, runs)[check]
      BY <1>5 DEF Passed
    <3>2. /\ \A j \in 1..Len(runs) : runs[j].id \notin raised
          /\ \A category \in Case.expected_finding_categories :
               \E chunk \in corpus : chunk.app = Case.app /\ ShowsRisk(chunk, category)
          /\ \A j \in 1..Len(runs) : runs[j].id \in tickets <=> runs[j].decision = "approve"
      BY <1>3, <3>1, PassedCaseRanClean
    <3>3. \A arm \in ArmsOf(result) :
            \E j \in 1..Len(runs) : arm.id = runs[j].id /\ arm.decision = runs[j].decision
      BY <1>4 DEF ArmsOf
    <3> QED
      BY <1>7, <3>2, <3>3
  <2>3. \A i \in 1..Len(results') : i \in 1..n \/ i = n + 1
    BY <1>3, <1>6
  <2>4. \A i \in 1..Len(results') : Passed(results'[i]) => Clean(i, results'[i])
    <3> HIDE DEF Clean
    <3> QED
      BY <1>6, <2>1, <2>2, <2>3
  <2> QED
    BY <1>1, <2>4 DEF PassedCasesRanClean
<1> QED
  BY <1>9, <1>10, <1>13, <1>14, <1>15 DEF EvaluationInv

-----------------------------------------------------------------------------
(* The theorems. *)

LEMMA EvaluationInvInit == Init => EvaluationInv
<1> SUFFICES ASSUME Init PROVE EvaluationInv
  OBVIOUS
<1>1. /\ corpus \in Corpora /\ keep \in BOOLEAN /\ step = "create"
      /\ assessments = {} /\ tickets = {} /\ checkpoints = {}
      /\ run = NoRun /\ runs = <<>> /\ results = <<>> /\ asked = {} /\ raised = {}
  BY DEF Init
<1>2. Len(results) = 0 /\ Len(runs) = 0 /\ results \in Seq(Results)
      /\ runs \in Seq(Outcomes(corpus, Case))
  BY <1>1
<1>3. Len(Cases) \in Nat \ {0}
  BY DatasetAssumption
<1>4. InProgress
  BY <1>2, <1>3 DEF InProgress
<1>5. EvaluationTypes
  <2>1. Len(Arms(Case)) \in {1, 3}
    BY DEF Arms
  <2> QED
    BY <1>1, <1>2, <1>3, <1>4, <2>1, NoRunIsARun DEF EvaluationTypes
<1>6. ArmsAreNumbered /\ DatabaseIsKnown /\ ArmsTellWhatHappened /\ PassedCasesRanClean
  BY <1>1, <1>2 DEF ArmsAreNumbered, DatabaseIsKnown, ArmsTellWhatHappened, RecordedArmsTell,
                    PassedCasesRanClean
<1> QED
  BY <1>5, <1>6 DEF EvaluationInv

LEMMA EvaluationInvStep == EvaluationInv /\ [Next]_vars => EvaluationInv'
<1> SUFFICES ASSUME EvaluationInv, [Next]_vars PROVE EvaluationInv'
  OBVIOUS
<1>1. CASE UNCHANGED vars
  <2>1. /\ SameArms /\ asked' \subseteq ApiIds
        /\ UNCHANGED <<assessments, tickets, checkpoints, step, run, asked, raised>>
        /\ EvaluationTypes /\ ArmsAreNumbered /\ DatabaseIsKnown /\ ArmsTellWhatHappened
        /\ PassedCasesRanClean
    BY <1>1 DEF vars, SameArms, EvaluationInv, EvaluationTypes
  <2>2. Id' = Id /\ RecordedIds' = RecordedIds /\ ArmsAreNumbered'
    BY <2>1, ArmsStay
  <2>3. EvaluationTypes'
    BY <2>1, TypesStay DEF EvaluationTypes
  <2>4. DatabaseIsKnown'
    BY <2>1, <2>2 DEF DatabaseIsKnown, IdWhile, SameArms
  <2>5. ArmsTellWhatHappened'
    <3>1. RecordedArmsTell'
      BY <2>1, RecordedArmsStillTell DEF ArmsTellWhatHappened
    <3> QED
      BY <2>1, <2>2, <3>1 DEF ArmsTellWhatHappened, IdWhile, WentThroughTheGate
  <2>6. PassedCasesRanClean'
    BY <2>1, PassedStay
  <2> QED
    BY <2>2, <2>3, <2>4, <2>5, <2>6 DEF EvaluationInv
<1>2. CASE \E a \in ApiIds : ApiCreates(a) \/ ApiApproves(a)
  BY <1>2, ApiStep
<1>3. CASE CreateRow \/ RunAssessment \/ Resume \/ Collect \/ EvaluateCase \/ Cleanup \/ Abort
  BY <1>3, CreateRowStep, RunAssessmentStep, ResumeStep, CollectStep, EvaluateCaseStep,
     CleanupStep, AbortStep
<1> QED
  BY <1>1, <1>2, <1>3 DEF Next

LEMMA EvaluationInvariance == Spec => []EvaluationInv
BY EvaluationInvInit, EvaluationInvStep, PTL DEF Spec

\* Every finding of a report cites a chunk of the assessed application that shows its risk
\* (fake_agents.py), and the review strips the fabricated rewrite and nothing else: for any
\* corpus ingestion leaves, any order the database returns it in, and any objective.
THEOREM FindingsCiteTheirTriggers == Spec => []EveryFindingCitesItsTrigger
<1>1. EvaluationInv => EveryFindingCitesItsTrigger
  <2> SUFFICES ASSUME EvaluationInv, NEW i \in Finished
               PROVE  CitesWhatShowsIt(runs[i].report, corpus, Case)
    BY DEF EveryFindingCitesItsTrigger, CitesWhatShowsIt
  <2>1. i \in 1..Len(runs) /\ runs[i].report # NoReport
    BY DEF Finished
  <2>2. EvaluationTypes
    BY DEF EvaluationInv
  <2>3. InProgress /\ runs \in Seq(Outcomes(corpus, Case)) /\ corpus \in Corpora
    BY <2>1, <2>2 DEF EvaluationTypes
  <2>4. runs[i] \in Outcomes(corpus, Case)
    BY <2>1, <2>3
  <2>5. runs[i].report \in Made(corpus, Case)
    BY <2>1, <2>4 DEF Outcomes, Reports
  <2>6. Caseable(Case)
    BY <2>2, <2>3, CaseInHand
  <2> QED
    BY <2>3, <2>5, <2>6, ReportsAreMade
<1> QED
  BY <1>1, EvaluationInvariance, PTL

\* A case that passes ran clean: in none of its arms did anything raise, the corpus shows
\* what it expects, and a ticket was opened in the approved arm and in no other.
THEOREM PassedCasesAreClean == Spec => []PassedCasesRanClean
<1>1. EvaluationInv => PassedCasesRanClean
  BY DEF EvaluationInv
<1> QED
  BY <1>1, EvaluationInvariance, PTL

\* cleanup() removes what the harness put there, whatever raised, and nothing of the API's
\* users.
THEOREM CleanupIsExact == Spec => []CleanupTakesItsOwn
<1>1. EvaluationInv => CleanupTakesItsOwn
  BY DEF EvaluationInv, DatabaseIsKnown, CleanupTakesItsOwn
<1> QED
  BY <1>1, EvaluationInvariance, PTL

-----------------------------------------------------------------------------
(* The cases the corpus was written for. *)

\* The contract of the dataset: on the corpus it was written for the agents find what it
\* expects, in whatever order the database answers.
ExpectationsAreMet ==
  \A i \in 1..Len(Cases) : \A report \in Made(Shipped, Cases[i]) :
    /\ report.must_approve = Cases[i].expected_approval_required
    /\ report.overall_risk_level = Cases[i].expected_risk_level
    /\ Cases[i].expected_finding_categories \subseteq {f.category : f \in report.risk_findings}
    /\ Cases[i].expected_removed_claims \in {NotAsserted, report.removed_claims # {}}

GroundedIn(report, ids) ==
  \A f \in report.architecture_findings \cup report.risk_findings :
    f.evidence # {} /\ \A r \in f.evidence : r.chunk \in ids

\* what an arm that broke nowhere shows of the report that was made in it
Shows(outcome, decision, ticketed, made) ==
  /\ outcome.paused = made.must_approve
  /\ IF outcome.paused /\ decision = "leave_pending" THEN outcome.report = NoReport
     ELSE outcome.report = made /\ GroundedIn(made, outcome.evidence)
  /\ ticketed <=> (outcome.paused /\ decision = "approve")

ArmShows(outcome, decision, ticketed) ==
  ~ outcome.failed => \E made \in Made(corpus, Case) : Shows(outcome, decision, ticketed, made)

RecordedArmsShow == \A j \in 1..Len(runs) : ArmShows(runs[j], runs[j].decision, runs[j].id \in tickets)

ShownInv ==
  /\ step \in {"run", "decide"} => Id \notin tickets
  /\ step = "decide" => /\ Decision # "leave_pending" /\ run.draft \in Made(corpus, Case)
                        /\ run.draft.must_approve /\ GroundedIn(run.draft, run.evidence)
  /\ step = "collect" => ArmShows(run, Decision, Id \in tickets)
  /\ RecordedArmsShow

UnbrokenCasesPass ==
  corpus = Shipped => \A i \in 1..Len(results) :
    (\A arm \in ArmsOf(results[i]) : arm.id \notin raised) => Passed(results[i])

ExpectationInv == ShownInv /\ (ExpectationsAreMet => UnbrokenCasesPass)

LEMMA FinalReportIsGrounded ==
  ASSUME NEW objective, NEW evidence
  PROVE  GroundedIn(FinalReport(objective, evidence), ChunkIds(evidence))
BY DEF GroundedIn, FinalReport, KeptFindings, Supported

LEMMA RecordedArmsStillShow ==
  ASSUME EvaluationTypes, ArmsAreNumbered, RecordedArmsShow, SameArms,
         runs = <<>> \/ \A x : x \notin ApiIds \cup {Id} => (x \in tickets' <=> x \in tickets)
  PROVE  RecordedArmsShow'
<1>1. runs' = runs /\ corpus' = corpus /\ Case' = Case
  BY ArmsStay DEF SameArms
<1>2. ASSUME NEW j \in 1..Len(runs)
      PROVE  runs[j].id \in tickets' <=> runs[j].id \in tickets
  <2>1. runs[j].id \in RecordedIds
    BY DEF RecordedIds
  <2>2. runs[j].id \notin ApiIds \cup {Id} /\ runs # <<>>
    BY <2>1, IdsAreDistinct
  <2> QED
    BY <2>2
<1> QED
  BY <1>1, <1>2 DEF RecordedArmsShow, ArmShows

LEMMA UnbrokenStay ==
  ASSUME SameArms, raised \subseteq raised', ExpectationsAreMet => UnbrokenCasesPass
  PROVE  (ExpectationsAreMet => UnbrokenCasesPass)'
BY DEF SameArms, UnbrokenCasesPass, ExpectationsAreMet

\* Where no arm is in hand afterwards.
LEMMA BetweenArms ==
  ASSUME EvaluationInv, ExpectationInv, CreateRow \/ Cleanup \/ Abort
  PROVE  ExpectationInv'
<1>1. EvaluationTypes /\ ArmsAreNumbered /\ DatabaseIsKnown
  BY DEF EvaluationInv
<1>2. SameArms /\ raised' = raised /\ step' \in {"run", "exited", "aborted"}
  BY DEF CreateRow, Cleanup, Abort, SameArms
<1>3. runs = <<>> \/ tickets' = tickets
  <2>1. CASE Cleanup
    BY <1>1, <2>1 DEF Cleanup, EvaluationTypes
  <2>2. CASE CreateRow \/ Abort
    BY <2>2 DEF CreateRow, Abort, database
  <2> QED
    BY <2>1, <2>2
<1>4. step' = "run" => Id' \notin tickets'
  <2> SUFFICES ASSUME step' = "run" PROVE Id' \notin tickets'
    OBVIOUS
  <2>1. step = "create" /\ tickets' = tickets /\ Id' = Id
    BY <1>2, ArmsStay DEF CreateRow, Cleanup, Abort
  <2>2. tickets \subseteq asked \cup RecordedIds /\ asked \subseteq ApiIds
    BY <1>1, <2>1 DEF DatabaseIsKnown, IdWhile, EvaluationTypes
  <2> QED
    BY <1>1, <2>1, <2>2, IdsAreDistinct
<1>5. RecordedArmsShow'
  BY <1>1, <1>2, <1>3, RecordedArmsStillShow DEF ExpectationInv, ShownInv
<1>6. (ExpectationsAreMet => UnbrokenCasesPass)'
  BY <1>2, UnbrokenStay DEF ExpectationInv
<1> QED
  BY <1>2, <1>4, <1>5, <1>6 DEF ExpectationInv, ShownInv

LEMMA ApiLeavesTheArms ==
  ASSUME EvaluationInv, ExpectationInv, NEW a \in ApiIds, ApiCreates(a) \/ ApiApproves(a)
  PROVE  ExpectationInv'
<1>1. EvaluationTypes /\ ArmsAreNumbered
  BY DEF EvaluationInv
<1>2. SameArms /\ UNCHANGED <<raised, step, run>> /\ tickets' \in {tickets, tickets \cup {a}}
  BY DEF ApiCreates, ApiApproves, SameArms
<1>3. a # Id
  BY <1>1, IdsAreDistinct
<1>4. Id' = Id /\ Case' = Case /\ Decision' = Decision /\ corpus' = corpus
  BY <1>2, ArmsStay DEF SameArms
<1>5. RecordedArmsShow'
  BY <1>1, <1>2, RecordedArmsStillShow DEF ExpectationInv, ShownInv
<1>6. (ExpectationsAreMet => UnbrokenCasesPass)'
  BY <1>2, UnbrokenStay DEF ExpectationInv
<1>7. Id \in tickets' <=> Id \in tickets
  BY <1>2, <1>3
<1>8. ArmShows(run, Decision, Id \in tickets) => ArmShows(run, Decision, Id \in tickets)'
  BY <1>2, <1>4, <1>7 DEF ArmShows
<1> QED
  BY <1>2, <1>4, <1>5, <1>6, <1>7, <1>8 DEF ExpectationInv, ShownInv

LEMMA RunShows ==
  ASSUME EvaluationInv, ExpectationInv, RunAssessment
  PROVE  ExpectationInv'
<1>1. EvaluationTypes /\ ArmsAreNumbered
  BY DEF EvaluationInv
<1>2. /\ step = "run" /\ SameArms /\ tickets' = tickets /\ raised \subseteq raised'
      /\ Id \notin tickets /\ InProgress
  BY <1>1 DEF RunAssessment, Failed, SameArms, ExpectationInv, ShownInv, EvaluationTypes
<1>3. Id' = Id /\ Case' = Case /\ Decision' = Decision /\ corpus' = corpus
  BY <1>2, ArmsStay DEF SameArms
<1>4. PICK evidence \in RetrieveEvidence(corpus, Case.objective, Case.app) :
        LET report == FinalReport(Case.objective, evidence)
            ended  == [paused |-> report.must_approve, draft |-> report, failed |-> FALSE,
                       report |-> IF report.must_approve THEN NoReport ELSE report,
                       evidence |-> ChunkIds(evidence)]
        IN \/ /\ run' = ended
              /\ step' = IF ended.paused /\ Decision # "leave_pending" THEN "decide" ELSE "collect"
              /\ UNCHANGED raised
           \/ Failed(NoRun) \/ Failed(ended)
  BY <1>2 DEF RunAssessment
<1> DEFINE report == FinalReport(Case.objective, evidence)
           ended  == [paused |-> report.must_approve, draft |-> report, failed |-> FALSE,
                      report |-> IF report.must_approve THEN NoReport ELSE report,
                      evidence |-> ChunkIds(evidence)]
<1>5. \/ /\ run' = ended
         /\ step' = IF ended.paused /\ Decision # "leave_pending" THEN "decide" ELSE "collect"
      \/ run' = [NoRun EXCEPT !.failed = TRUE] /\ step' = "collect"
      \/ run' = [ended EXCEPT !.failed = TRUE] /\ step' = "collect"
  BY <1>4 DEF Failed
<1>6. /\ report \in Made(corpus, Case) /\ report.must_approve \in BOOLEAN
      /\ GroundedIn(report, ChunkIds(evidence))
  BY <1>1, <1>2, WhatARunComesTo, FinalReportIsGrounded
<1> HIDE DEF report
<1>7. /\ step' \in {"decide", "collect"}
      /\ step' = "decide" => /\ Decision # "leave_pending" /\ run'.draft = report
                             /\ report.must_approve /\ run'.evidence = ChunkIds(evidence)
      /\ step' = "collect" => run'.failed \/ (run' = ended /\ (ended.paused => Decision = "leave_pending"))
  BY <1>5 DEF NoRun
<1>8. step' = "collect" => ArmShows(run', Decision, FALSE)
  <2> SUFFICES ASSUME run' = ended, ended.paused => Decision = "leave_pending"
               PROVE  Shows(run', Decision, FALSE, report)
    <3> QED
      BY <1>6, <1>7 DEF ArmShows
  <2> QED
    BY <1>6 DEF Shows
<1> HIDE DEF ended
<1>9. RecordedArmsShow'
  BY <1>1, <1>2, RecordedArmsStillShow DEF ExpectationInv, ShownInv
<1>10. (ExpectationsAreMet => UnbrokenCasesPass)'
  BY <1>2, UnbrokenStay DEF ExpectationInv
<1>11. step' = "collect" => ArmShows(run, Decision, Id \in tickets)'
  BY <1>2, <1>3, <1>8 DEF ArmShows, Shows
<1> QED
  BY <1>2, <1>3, <1>6, <1>7, <1>9, <1>10, <1>11 DEF ExpectationInv, ShownInv

LEMMA ResumeShows ==
  ASSUME EvaluationInv, ExpectationInv, Resume
  PROVE  ExpectationInv'
<1>1. EvaluationTypes /\ ArmsAreNumbered /\ ArmsTellWhatHappened
  BY DEF EvaluationInv
<1>2. /\ step = "decide" /\ step' = "collect" /\ SameArms /\ raised \subseteq raised'
      /\ tickets' \in {tickets, tickets \cup {Id}}
  BY DEF Resume, Failed, SameArms
<1>3. Id' = Id /\ Case' = Case /\ Decision' = Decision /\ corpus' = corpus
  BY <1>2, ArmsStay DEF SameArms
<1>4. /\ Id \notin tickets /\ Decision # "leave_pending" /\ run.draft \in Made(corpus, Case)
      /\ run.draft.must_approve /\ GroundedIn(run.draft, run.evidence)
  BY <1>2 DEF ExpectationInv, ShownInv
<1>5. /\ run \in Runs(corpus, Case) /\ run.paused /\ InProgress
  BY <1>1, <1>2 DEF EvaluationTypes, ArmsTellWhatHappened
<1>6. /\ run'.failed \/ (run' = Ended /\ (Decision = "deny" \/ Id \in tickets'))
      /\ Decision # "approve" => tickets' = tickets
  <2>1. \/ run' = Ended /\ (Decision = "deny" \/ Id \in tickets')
        \/ run' = [[Ended EXCEPT !.paused = FALSE] EXCEPT !.failed = TRUE]
        \/ run' = [[run EXCEPT !.paused = FALSE] EXCEPT !.failed = TRUE]
        \/ run' = [run EXCEPT !.failed = TRUE]
    BY DEF Resume, Failed
  <2>2. Decision # "approve" => tickets' = tickets
    BY DEF Resume
  <2> QED
    BY <1>5, <2>1, <2>2 DEF Ended, Runs
<1>7. Decision \in Decisions
  BY <1>1, <1>2, <1>5, CaseInHand, ArmsOfACase DEF Decision, EvaluationTypes
<1>8. ArmShows(run', Decision, Id \in tickets')
  <2> SUFFICES ASSUME run' = Ended, Decision = "deny" \/ Id \in tickets'
               PROVE  Shows(run', Decision, Id \in tickets', run.draft)
    BY <1>4, <1>6 DEF ArmShows
  <2>1. Ended.paused = run.paused /\ Ended.report = run.draft /\ Ended.evidence = run.evidence
    BY <1>5 DEF Ended, Runs
  <2>2. run.paused = TRUE /\ run.draft.must_approve = TRUE
    <3>1. run.draft.must_approve \in BOOLEAN
      BY <1>1, <1>4, <1>5, CaseInHand, ReportsAreMade DEF EvaluationTypes, StandsUp
    <3> QED
      BY <1>4, <1>5, <3>1 DEF Runs
  <2>3. Id \in tickets' <=> Decision = "approve"
    BY <1>2, <1>4, <1>6, <1>7 DEF Decisions
  <2> QED
    BY <1>4, <2>1, <2>2, <2>3 DEF Shows
<1>9. RecordedArmsShow'
  BY <1>1, <1>2, RecordedArmsStillShow DEF ExpectationInv, ShownInv
<1>10. (ExpectationsAreMet => UnbrokenCasesPass)'
  BY <1>2, UnbrokenStay DEF ExpectationInv
<1>11. ArmShows(run, Decision, Id \in tickets)'
  BY <1>3, <1>8 DEF ArmShows
<1> QED
  BY <1>2, <1>9, <1>10, <1>11 DEF ExpectationInv, ShownInv

LEMMA CollectShows ==
  ASSUME EvaluationInv, ExpectationInv, Collect
  PROVE  ExpectationInv'
<1> DEFINE outcome == [id |-> Id, decision |-> Decision, paused |-> run.paused,
                       ticket_count |-> Cardinality({Id} \cap tickets), report |-> run.report,
                       evidence |-> run.evidence, failed |-> run.failed]
           n == Len(runs)
<1>1. /\ step = "collect" /\ runs' = Append(runs, outcome) /\ step' \in {"create", "score"}
      /\ UNCHANGED <<corpus, tickets, results, raised>>
  BY DEF Collect, database
<1>2. runs \in Seq(Outcomes(corpus, Case)) /\ Case' = Case
  BY <1>1 DEF EvaluationInv, EvaluationTypes, Case
<1>3. ArmShows(run, Decision, Id \in tickets) /\ RecordedArmsShow
  BY <1>1 DEF ExpectationInv, ShownInv
<1>4. outcome.id = Id /\ outcome.decision = Decision /\ ArmShows(outcome, Decision, Id \in tickets)
  BY <1>3 DEF ArmShows, Shows
<1> HIDE DEF outcome
<1>5. /\ n \in Nat /\ Len(runs') = n + 1 /\ runs'[n + 1] = outcome
      /\ \A j \in 1..n : runs'[j] = runs[j]
  BY <1>1, <1>2
<1>6. ASSUME NEW j \in 1..Len(runs')
      PROVE  ArmShows(runs'[j], runs'[j].decision, runs'[j].id \in tickets)
  <2>1. CASE j \in 1..n
    BY <1>3, <1>5, <2>1 DEF RecordedArmsShow
  <2>2. CASE j = n + 1
    BY <1>4, <1>5, <2>2
  <2> QED
    BY <1>5, <2>1, <2>2
<1>7. RecordedArmsShow'
  BY <1>1, <1>2, <1>6 DEF RecordedArmsShow, ArmShows
<1>8. (ExpectationsAreMet => UnbrokenCasesPass)'
  BY <1>1 DEF ExpectationInv, UnbrokenCasesPass, ExpectationsAreMet
<1> QED
  BY <1>1, <1>7, <1>8 DEF ExpectationInv, ShownInv

\* A case in which nothing raised passes, on the corpus it was written for.
LEMMA UnbrokenCasePasses ==
  ASSUME EvaluationInv, ShownInv, ExpectationsAreMet, step = "score", corpus = Shipped,
         \A j \in 1..Len(runs) : runs[j].id \notin raised
  PROVE  \A check \in DOMAIN Checks(Case, runs) : Checks(Case, runs)[check]
<1> DEFINE n == Len(runs)
           primary == Primary(runs)
<1>1. /\ EvaluationTypes /\ InProgress /\ n = Len(Arms(Case))
      /\ runs \in Seq(Outcomes(corpus, Case))
  BY DEF EvaluationInv, EvaluationTypes
<1>2. /\ Case = Cases[Len(results) + 1] /\ Len(results) + 1 \in 1..Len(Cases)
      /\ Case.expected_approval_required \in BOOLEAN
  BY <1>1, CaseInHand
<1>3. \A report \in Made(corpus, Case) :
        /\ report.must_approve = Case.expected_approval_required
        /\ report.overall_risk_level = Case.expected_risk_level
        /\ Case.expected_finding_categories \subseteq {f.category : f \in report.risk_findings}
        /\ Case.expected_removed_claims \in {NotAsserted, report.removed_claims # {}}
        /\ report # NoReport
  <2>1. corpus \in Corpora
    BY <1>1 DEF EvaluationTypes
  <2>2. \A report \in Made(corpus, Case) : report # NoReport
    BY <1>2, <2>1, ReportAssumption DEF Made
  <2>3. \A report \in Made(corpus, Case) :
          /\ report.must_approve = Case.expected_approval_required
          /\ report.overall_risk_level = Case.expected_risk_level
          /\ Case.expected_finding_categories \subseteq {f.category : f \in report.risk_findings}
          /\ Case.expected_removed_claims \in {NotAsserted, report.removed_claims # {}}
    BY <1>2, Zenon DEF ExpectationsAreMet
  <2> QED
    BY <2>2, <2>3, Zenon
<1>4. \A j \in 1..n :
        /\ ~ runs[j].failed
        /\ runs[j].ticket_count = IF runs[j].id \in tickets THEN 1 ELSE 0
        /\ runs[j].decision = Arms(Case)[j]
        /\ \E made \in Made(corpus, Case) :
             Shows(runs[j], runs[j].decision, runs[j].id \in tickets, made)
  BY DEF EvaluationInv, ArmsTellWhatHappened, RecordedArmsTell, ArmsAreNumbered, ShownInv,
         RecordedArmsShow, ArmShows
<1>5. /\ n \in {1, 3}
      /\ \A j \in 1..n : runs[j].decision = "approve" => Case.expected_approval_required /\ j = 3
      /\ Case.expected_approval_required => n = 3 /\ runs[3].decision = "approve"
  BY <1>1, <1>2, <1>4, ArmsOfACase
<1>6. primary = runs[n]
  <2> DEFINE approved == {i \in 1..n : runs[i].decision = "approve"}
  <2>1. primary = runs[IF approved # {} THEN CHOOSE i \in approved : TRUE ELSE n]
    BY DEF Primary
  <2>2. approved = IF Case.expected_approval_required THEN {3} ELSE {}
    BY <1>5
  <2> HIDE DEF approved, primary
  <2> QED
    BY <1>5, <2>1, <2>2
<1>7. n \in 1..n /\ 1 \in 1..n
  BY <1>5
<1>8. PICK made \in Made(corpus, Case) :
        Shows(runs[n], runs[n].decision, runs[n].id \in tickets, made)
  BY <1>4, <1>7
<1>9. primary.report = made /\ GroundedIn(made, primary.evidence)
  <2>1. ~ (runs[n].paused /\ runs[n].decision = "leave_pending")
    BY <1>3, <1>5, <1>8 DEF Shows
  <2> QED
    BY <1>6, <1>8, <2>1 DEF Shows
<1>10. \A j \in 1..n : runs[j].paused = Case.expected_approval_required
  BY <1>3, <1>4 DEF Shows
<1>11. \A j \in 1..n : runs[j].ticket_count = IF runs[j].decision = "approve" /\ runs[j].paused THEN 1 ELSE 0
  BY <1>4 DEF Shows
<1>12. made # NoReport
  BY <1>3
<1> HIDE DEF primary, n
<1>13. Checks(Case, runs) = [approval_policy |-> TRUE, risk_level |-> TRUE, finding_categories |-> TRUE,
                             evidence_coverage |-> TRUE, tool_safety |-> TRUE, no_errors |-> TRUE,
                             removed_claims |-> TRUE]
  <2>1. runs[1].paused = Case.expected_approval_required
    BY <1>7, <1>10
  <2>2. made.overall_risk_level = Case.expected_risk_level
    BY <1>3
  <2>3. Case.expected_finding_categories \subseteq {f.category : f \in made.risk_findings}
    BY <1>3
  <2>4. FullyGrounded(primary) = TRUE
    BY <1>9 DEF FullyGrounded, GroundedIn
  <2>5. ToolSafety(runs) = TRUE
    BY <1>11 DEF ToolSafety, n
  <2>6. (\A i \in 1..Len(runs) : ~ runs[i].failed) = TRUE
    BY <1>4 DEF n
  <2>7. (Case.expected_removed_claims \in {NotAsserted, made # NoReport /\ made.removed_claims # {}}) = TRUE
    BY <1>3, <1>12
  <2> QED
    BY <1>9, <1>12, <2>1, <2>2, <2>3, <2>4, <2>5, <2>6, <2>7 DEF Checks, primary
<1> QED
  BY <1>13

LEMMA ScoreShows ==
  ASSUME EvaluationInv, ExpectationInv, EvaluateCase
  PROVE  ExpectationInv'
<1> DEFINE result == [runs   |-> [i \in 1..Len(runs) |-> Printed(runs[i])],
                      checks |-> Checks(Case, runs)]
           n == Len(results)
<1>1. /\ step = "score" /\ results' = Append(results, result) /\ runs' = <<>>
      /\ step' \in {"create", "exited", "cleanup"} /\ UNCHANGED <<corpus, tickets, raised>>
  BY DEF EvaluateCase, database
<1>2. InProgress /\ results \in Seq(Results)
  BY <1>1 DEF EvaluationInv, EvaluationTypes
<1>3. /\ result \in Results /\ Len(result.runs) = Len(runs)
      /\ \A j \in 1..Len(runs) : result.runs[j].id = runs[j].id
  BY <1>2, ResultIsAResult
<1>4. result.checks = Checks(Case, runs)
  OBVIOUS
<1> HIDE DEF result
<1>5. /\ n \in Nat /\ Len(results') = n + 1 /\ results'[n + 1] = result
      /\ \A i \in 1..n : results'[i] = results[i]
  BY <1>1, <1>2
<1>6. Len(runs') = 0
  BY <1>1
<1>7. ASSUME ExpectationsAreMet, corpus = Shipped, \A arm \in ArmsOf(result) : arm.id \notin raised
      PROVE  Passed(result)
  <2>1. \A j \in 1..Len(runs) : runs[j].id \notin raised
    BY <1>3, <1>7 DEF ArmsOf
  <2> QED
    BY <1>1, <1>4, <1>7, <2>1, UnbrokenCasePasses DEF Passed, ExpectationInv
<1>8. ASSUME ExpectationsAreMet, corpus = Shipped, NEW i \in 1..Len(results'),
             \A arm \in ArmsOf(results'[i]) : arm.id \notin raised
      PROVE  Passed(results'[i])
  <2>1. CASE i \in 1..n
    BY <1>5, <1>8, <2>1 DEF ExpectationInv, UnbrokenCasesPass
  <2>2. CASE i = n + 1
    BY <1>5, <1>7, <1>8, <2>2
  <2> QED
    BY <1>5, <2>1, <2>2
<1>9. (ExpectationsAreMet => UnbrokenCasesPass)'
  BY <1>1, <1>8 DEF UnbrokenCasesPass, ExpectationsAreMet
<1>10. RecordedArmsShow'
  BY <1>6 DEF RecordedArmsShow
<1> QED
  BY <1>1, <1>9, <1>10 DEF ExpectationInv, ShownInv

LEMMA ExpectationInvStep ==
  EvaluationInv /\ ExpectationInv /\ [Next]_vars => ExpectationInv'
<1> SUFFICES ASSUME EvaluationInv, ExpectationInv, [Next]_vars PROVE ExpectationInv'
  OBVIOUS
<1>1. CASE UNCHANGED vars
  <2>1. /\ SameArms /\ UNCHANGED <<tickets, step, run, raised>>
        /\ EvaluationTypes /\ ArmsAreNumbered
    BY <1>1 DEF vars, SameArms, EvaluationInv
  <2>2. Id' = Id /\ Case' = Case /\ Decision' = Decision /\ corpus' = corpus
    BY <2>1, ArmsStay DEF SameArms
  <2>3. RecordedArmsShow' /\ (ExpectationsAreMet => UnbrokenCasesPass)'
    BY <2>1, RecordedArmsStillShow, UnbrokenStay DEF ExpectationInv, ShownInv
  <2> QED
    BY <2>1, <2>2, <2>3 DEF ExpectationInv, ShownInv, ArmShows
<1>2. CASE \E a \in ApiIds : ApiCreates(a) \/ ApiApproves(a)
  BY <1>2, ApiLeavesTheArms
<1>3. CASE CreateRow \/ RunAssessment \/ Resume \/ Collect \/ EvaluateCase \/ Cleanup \/ Abort
  BY <1>3, BetweenArms, RunShows, ResumeShows, CollectShows, ScoreShows
<1> QED
  BY <1>1, <1>2, <1>3 DEF Next

\* "One broken case still yields a full report" (harness.py): whatever raises, a golden case
\* none of whose arms broke passes on the corpus whose findings meet the expectations of the
\* dataset, whatever the API's users do meanwhile; the exit status tells that nothing raised,
\* and an evaluation that exits has scored every case.
THEOREM BrokenCasesAloneFail ==
  ASSUME ExpectationsAreMet
  PROVE  Spec => []OnlyBrokenCasesFail
<1>1. Init => ExpectationInv
  <2> SUFFICES ASSUME Init PROVE ExpectationInv
    OBVIOUS
  <2>1. step = "create" /\ Len(runs) = 0 /\ Len(results) = 0
    BY DEF Init
  <2> QED
    BY <2>1 DEF ExpectationInv, ShownInv, RecordedArmsShow, UnbrokenCasesPass
<1>2. EvaluationInv /\ ExpectationInv => OnlyBrokenCasesFail
  <2> SUFFICES ASSUME EvaluationInv, ExpectationInv PROVE OnlyBrokenCasesFail
    OBVIOUS
  <2>1. UnbrokenCasesPass
    BY DEF ExpectationInv
  <2>2. ASSUME step = "exited"
        PROVE  Len(results) = Len(Cases) /\ (ExitStatus = 0 => raised = {})
    <3>1. /\ ~ InProgress /\ runs = <<>> /\ Len(results) <= Len(Cases) /\ results \in Seq(Results)
      BY <2>2 DEF EvaluationInv, EvaluationTypes
    <3>2. Len(results) \in Nat /\ Len(Cases) \in Nat
      BY <3>1, DatasetAssumption
    <3>3. Len(results) = Len(Cases)
      BY <3>1, <3>2 DEF InProgress
    <3>4. raised \subseteq OwnIds
      <4>1. RecordedIds = OwnIds
        BY <3>1 DEF RecordedIds
      <4> QED
        BY <2>2, <4>1 DEF EvaluationInv, ArmsTellWhatHappened, IdWhile
    <3>5. ASSUME ExitStatus = 0 PROVE raised = {}
      <4>1. \A i \in 1..Len(results) : Passed(results[i])
        BY <3>5 DEF ExitStatus
      <4>2. \A i \in 1..Len(results) : \A arm \in ArmsOf(results[i]) : arm.id \notin raised
        BY <4>1 DEF EvaluationInv, PassedCasesRanClean
      <4>3. \A x \in OwnIds : x \notin raised
        BY <4>2 DEF OwnIds, ArmsOf
      <4> QED
        BY <3>4, <4>3
    <3> QED
      BY <3>3, <3>5
  <2> QED
    BY <2>1, <2>2 DEF OnlyBrokenCasesFail, UnbrokenCasesPass
<1> QED
  BY <1>1, <1>2, ExpectationInvStep, EvaluationInvariance, PTL DEF Spec
=============================================================================
