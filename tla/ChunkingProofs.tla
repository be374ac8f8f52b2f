---------------------------- MODULE ChunkingProofs ----------------------------
(***************************************************************************)
(* The chunks of a file partition its lines, for every file, every cap and *)
(* every window.                                                           *)
(***************************************************************************)
EXTENDS Chunking, NaturalsInduction, FiniteSetTheorems,
        WellFoundedInduction, TLAPS

\* A set of lines that is not empty has a first one, and one below a bound has a
\* last one.
LEMMA FirstOf ==
  ASSUME NEW S \in SUBSET Nat, S # {}
  PROVE  \E m \in S : \A k \in S : m <= k
<1>1. IsWellFoundedOn(OpToRel(<, Nat), Nat)
  BY NatLessThanWellFounded, Zenon
<1>2. \E m \in S : \A k \in S : ~ (<<k, m>> \in OpToRel(<, Nat))
  BY <1>1, WFMin, Zenon
<1>3. ASSUME NEW k \in Nat, NEW m \in Nat, k < m
      PROVE  <<k, m>> \in OpToRel(<, Nat)
  BY <1>3, Zenon DEF OpToRel
<1>4. \E m \in S : \A k \in S : ~ (k < m)
  BY <1>2, <1>3, Zenon
<1>5. QED
  BY <1>4

LEMMA LastOf ==
  ASSUME NEW n \in Nat, NEW S \in SUBSET (0 .. n), S # {}
  PROVE  \E m \in S : \A k \in S : k <= m
<1> DEFINE Mirror == {n - k : k \in S}
<1>1. Mirror \in SUBSET Nat /\ Mirror # {}
  <2>1. \A k \in S : n - k \in Nat
    OBVIOUS
  <2>2. Mirror \subseteq Nat
    BY <2>1
  <2>3. PICK k \in S : TRUE
    OBVIOUS
  <2>4. n - k \in Mirror
    OBVIOUS
  <2>5. QED
    BY <2>2, <2>4
<1>2. PICK f \in Mirror : \A k \in Mirror : f <= k
  BY <1>1, FirstOf
<1>3. PICK m \in S : f = n - m
  OBVIOUS
<1>4. \A k \in S : n - m <= n - k
  BY <1>2, <1>3
<1>5. \A k \in S : k <= m
  BY <1>4
<1>6. QED
  BY <1>5

LEMMA MultipleOf ==
  ASSUME NEW m \in Nat \ {0}, NEW q \in Nat
  PROVE  (m * q) % m = 0
<1> DEFINE x == m * q
           d == x \div m
           r == x % m
<1>1. x \in Nat /\ d \in Int /\ r \in 0 .. m - 1 /\ x = m * d + r
  OBVIOUS
<1>2. m * (q - d) = r
  BY <1>1
<1>3. q - d \in Int
  BY <1>1
<1>4. ~ (q - d >= 1)
  <2>1. q - d >= 1 => m * (q - d) >= m
    BY <1>3
  <2>2. QED
    BY <1>1, <1>2, <2>1
<1>5. ~ (q - d <= -1)
  <2>1. q - d <= -1 => m * (q - d) <= -m
    BY <1>3
  <2>2. QED
    BY <1>1, <1>2, <2>1
<1>6. q - d = 0
  BY <1>3, <1>4, <1>5
<1>7. QED
  BY <1>2, <1>6

\* Euclid: the multiple of the cap at or below a number; two multiples are apart.
LEMMA MultipleBelow ==
  ASSUME NEW k \in Nat, NEW m \in Nat \ {0}
  PROVE  \E j \in 0 .. k : j % m = 0 /\ k < j + m
<1>1. k % m \in 0 .. m - 1
  OBVIOUS
<1>2. k - (k % m) \in 0 .. k
  OBVIOUS
<1>3. (k - (k % m)) % m = 0
  <2>1. k \div m \in Nat /\ k - (k % m) = m * (k \div m)
    OBVIOUS
  <2>2. QED
    BY <2>1, MultipleOf
<1>4. k < (k - (k % m)) + m
  BY <1>1
<1>5. QED
  BY <1>2, <1>3, <1>4

LEMMA MultiplesApart ==
  ASSUME NEW k \in Nat, NEW l \in Nat, NEW m \in Nat \ {0}, k % m = 0, l % m = 0, k < l
  PROVE  k + m <= l
<1>1. PICK p \in Int : k = m * p
  BY k = m * (k \div m) + (k % m), k \div m \in Int
<1>2. PICK q \in Int : l = m * q
  BY l = m * (l \div m) + (l % m), l \div m \in Int
<1>3. p < q
  BY <1>1, <1>2
<1>4. q = p + 1 + (q - p - 1) /\ q - p - 1 \in Nat
  BY <1>3
<1>5. m * q = m * p + m + m * (q - p - 1)
  BY <1>4
<1>6. m * (q - p - 1) \in Nat
  BY <1>4
<1>7. QED
  BY <1>1, <1>2, <1>5, <1>6

-----------------------------------------------------------------------------
(* Spans. *)

LEMMA SpanShape ==
  ASSUME NEW total \in Nat, NEW starts \in SUBSET (1 .. total),
         NEW span \in SpansBetween(starts, total)
  PROVE  /\ span = <<span[1], span[2]>>
         /\ span[1] \in 1 .. total /\ span[2] \in 1 .. total /\ span[1] <= span[2]
         /\ span[1] = 1 \/ span[1] \in starts
         /\ span[2] = total \/ span[2] + 1 \in starts
         /\ \A i \in starts : i <= span[1] \/ span[2] < i
  BY DEF SpansBetween

\* Every line lies in a span: from the last start at or before it to the line before
\* the next start.
LEMMA SpansCover ==
  ASSUME NEW total \in Nat, NEW starts \in SUBSET (1 .. total), NEW i \in 1 .. total
  PROVE  \E span \in SpansBetween(starts, total) : Holds(span, i)
<1> DEFINE Before == {k \in starts \cup {1} : k <= i}
           After == {k \in starts : i < k}
<1>1. PICK a \in Before : \A k \in Before : k <= a
  <2>1. Before \subseteq 0 .. total
    <3>1. \A k \in starts \cup {1} : k \in 0 .. total
      OBVIOUS
    <3>2. QED
      BY <3>1
  <2>2. 1 \in Before
    OBVIOUS
  <2> HIDE DEF Before
  <2>3. QED
    BY <2>1, <2>2, LastOf
<1>2. PICK b \in i .. total :
        /\ b = total \/ b + 1 \in starts
        /\ \A k \in After : b < k
  <2>1. CASE After = {}
    <3>1. total \in i .. total /\ \A k \in After : total < k
      BY <2>1
    <3>2. QED
      BY <3>1
  <2>2. CASE After # {}
    <3>1. PICK n \in After : \A k \in After : n <= k
      <4>1. After \subseteq Nat
        <5>1. \A k \in starts : k \in Nat
          OBVIOUS
        <5>2. QED
          BY <5>1
      <4> HIDE DEF After
      <4>2. QED
        BY <2>2, <4>1, FirstOf
    <3>2. n \in Nat /\ i < n /\ n <= total /\ n \in starts
      OBVIOUS
    <3>3. n - 1 \in i .. total /\ (n - 1) + 1 = n
      BY <3>2
    <3>4. \A k \in After : n - 1 < k
      BY <3>1, <3>2
    <3>5. QED
      BY <3>2, <3>3, <3>4
  <2>3. QED
    BY <2>1, <2>2
<1>3. a \in 1 .. total /\ a <= i /\ (a = 1 \/ a \in starts)
  OBVIOUS
<1>4. \A k \in starts : k <= a \/ b < k
  <2> SUFFICES ASSUME NEW k \in starts
               PROVE  k <= a \/ b < k
    OBVIOUS
  <2>1. CASE k <= i
    BY <2>1, <1>1
  <2>2. CASE ~ (k <= i)
    BY <2>2, <1>2
  <2>3. QED
    BY <2>1, <2>2
<1>5. <<a, b>> \in SpansBetween(starts, total)
  BY <1>2, <1>3, <1>4 DEF SpansBetween
<1>6. Holds(<<a, b>>, i)
  BY <1>2, <1>3 DEF Holds
<1>7. QED
  BY <1>5, <1>6

LEMMA SpansDisjoint ==
  ASSUME NEW total \in Nat, NEW starts \in SUBSET (1 .. total), NEW i \in 1 .. total,
         NEW p \in SpansBetween(starts, total), NEW q \in SpansBetween(starts, total),
         Holds(p, i), Holds(q, i)
  PROVE  p = q
<1>1. ~ (p[1] < q[1])
  BY SpanShape DEF Holds
<1>2. ~ (q[1] < p[1])
  BY SpanShape DEF Holds
<1>3. p[1] = q[1]
  BY <1>1, <1>2, SpanShape
<1>4. ~ (p[2] < q[2])
  BY <1>3, SpanShape DEF Holds
<1>5. ~ (q[2] < p[2])
  BY <1>3, SpanShape DEF Holds
<1>6. p[2] = q[2]
  BY <1>4, <1>5, SpanShape
<1>7. QED
  BY <1>3, <1>6, SpanShape

-----------------------------------------------------------------------------
(* The pieces of a span that is longer than the cap. *)

LEMMA PieceShape ==
  ASSUME NEW a \in Nat, NEW b \in Nat, a <= b, NEW piece \in CapSpan(<<a, b>>)
  PROVE  /\ piece = <<piece[1], piece[2]>>
         /\ piece[1] \in a .. b /\ piece[2] \in a .. b /\ piece[1] <= piece[2]
         /\ (piece[1] - a) % MAX_CHUNK_LINES = 0
         /\ piece[2] < piece[1] + MAX_CHUNK_LINES
         /\ piece[2] = b \/ piece[2] + 1 = piece[1] + MAX_CHUNK_LINES
<1> USE ChunkingAssumption
<1>1. PICK s \in a .. b :
        /\ (s - a) % MAX_CHUNK_LINES = 0
        /\ piece = <<s, IF s + MAX_CHUNK_LINES - 1 <= b THEN s + MAX_CHUNK_LINES - 1 ELSE b>>
  BY DEF CapSpan
<1>2. CASE s + MAX_CHUNK_LINES - 1 <= b
  BY <1>1, <1>2
<1>3. CASE ~ (s + MAX_CHUNK_LINES - 1 <= b)
  BY <1>1, <1>3
<1>4. QED
  BY <1>2, <1>3

LEMMA PiecesCover ==
  ASSUME NEW a \in Nat, NEW b \in Nat, NEW i \in a .. b
  PROVE  \E piece \in CapSpan(<<a, b>>) : Holds(piece, i)
<1> USE ChunkingAssumption
<1>1. PICK j \in 0 .. i - a : j % MAX_CHUNK_LINES = 0 /\ i - a < j + MAX_CHUNK_LINES
  <2>1. i - a \in Nat /\ MAX_CHUNK_LINES \in Nat \ {0}
    OBVIOUS
  <2>2. QED
    BY <2>1, MultipleBelow
<1> DEFINE s == a + j
           piece == <<s, IF s + MAX_CHUNK_LINES - 1 <= b THEN s + MAX_CHUNK_LINES - 1 ELSE b>>
<1>2. s \in a .. b /\ s <= i /\ i < s + MAX_CHUNK_LINES /\ s - a = j
  BY <1>1
<1>3. piece \in CapSpan(<<a, b>>)
  BY <1>1, <1>2 DEF CapSpan
<1>4. Holds(piece, i)
  BY <1>2 DEF Holds
<1>5. QED
  BY <1>3, <1>4

LEMMA PiecesDisjoint ==
  ASSUME NEW a \in Nat, NEW b \in Nat, NEW i \in a .. b,
         NEW p \in CapSpan(<<a, b>>), NEW q \in CapSpan(<<a, b>>), Holds(p, i), Holds(q, i)
  PROVE  p = q
<1> USE ChunkingAssumption
<1>1. /\ p[1] \in a .. b /\ p[1] <= i /\ i < p[1] + MAX_CHUNK_LINES
      /\ (p[1] - a) % MAX_CHUNK_LINES = 0
  BY PieceShape DEF Holds
<1>2. /\ q[1] \in a .. b /\ q[1] <= i /\ i < q[1] + MAX_CHUNK_LINES
      /\ (q[1] - a) % MAX_CHUNK_LINES = 0
  BY PieceShape DEF Holds
<1>3. ~ (p[1] < q[1])
  BY <1>1, <1>2, MultiplesApart
<1>4. ~ (q[1] < p[1])
  BY <1>1, <1>2, MultiplesApart
<1>5. p[1] = q[1]
  BY <1>1, <1>2, <1>3, <1>4
<1>6. QED
  BY <1>5 DEF CapSpan

-----------------------------------------------------------------------------
(* The chunks of a file. *)

LEMMA SpansAreBetweenStarts ==
  ASSUME NEW V, NEW doc_type, NEW file, file.lines \in Seq(V)
  PROVE  \E starts \in SUBSET (1 .. Len(file.lines)) :
           Spans(doc_type, file) = SpansBetween(starts, Len(file.lines))
<1> DEFINE total == Len(file.lines)
           headers == LinesThatAre(Header, file.lines)
           defs == LinesThatAre(Def, file.lines)
           windows == {i \in 1 .. total : (i - 1) % WINDOW_LINES = 0}
<1>1. headers \in SUBSET (1 .. total) /\ defs \in SUBSET (1 .. total)
  BY DEF LinesThatAre
<1>2. windows \in SUBSET (1 .. total)
  OBVIOUS
<1>3. Spans(doc_type, file) \in {SpansBetween(headers, total), SpansBetween(defs, total),
                                 SpansBetween(windows, total)}
  BY Zenon DEF Spans, MarkdownSpans, PythonSpans, WindowSpans
<1>4. QED
  BY <1>1, <1>2, <1>3

\* The spans and their pieces are of lines of the file.
LEMMA PieceOfSpan ==
  ASSUME NEW V, NEW doc_type, NEW file, file.lines \in Seq(V),
         NEW piece \in CappedSpans(doc_type, file)
  PROVE  \E a, b \in 1 .. Len(file.lines) :
           a <= b /\ <<a, b>> \in Spans(doc_type, file) /\ piece \in CapSpan(<<a, b>>)
<1>1. Len(file.lines) \in Nat
  OBVIOUS
<1>2. PICK starts \in SUBSET (1 .. Len(file.lines)) :
        Spans(doc_type, file) = SpansBetween(starts, Len(file.lines))
  BY SpansAreBetweenStarts
<1>3. PICK span \in Spans(doc_type, file) : piece \in CapSpan(span)
  BY DEF CappedSpans
<1>4. /\ span = <<span[1], span[2]>> /\ span[1] <= span[2]
      /\ span[1] \in 1 .. Len(file.lines) /\ span[2] \in 1 .. Len(file.lines)
  BY <1>1, <1>2, <1>3, SpanShape
<1>5. QED
  BY <1>3, <1>4

\* Every line that is not blank is in exactly one chunk of its file, and no chunk is
\* longer than the cap: chunk_file neither loses nor doubles a line, for any file, any
\* cap and any window.
THEOREM ChunksPartitionTheLines ==
  ASSUME NEW V, NEW doc_type, NEW file, file.lines \in Seq(V)
  PROVE  PartitionsTheLines(doc_type, file)
<1> DEFINE total == Len(file.lines)
           kept == KeptSpans(doc_type, file)
<1>1. total \in Nat /\ MAX_CHUNK_LINES \in Nat
  BY ChunkingAssumption
<1>2. PICK starts \in SUBSET (1 .. total) : Spans(doc_type, file) = SpansBetween(starts, total)
  BY SpansAreBetweenStarts
<1>3. \A i \in 1 .. total : (\E span \in kept : Holds(span, i)) \/ file.lines[i] = Blank
  <2> SUFFICES ASSUME NEW i \in 1 .. total, file.lines[i] # Blank
               PROVE  \E span \in kept : Holds(span, i)
    OBVIOUS
  <2>1. PICK span \in SpansBetween(starts, total) : Holds(span, i)
    BY <1>1, SpansCover
  <2>2. span = <<span[1], span[2]>> /\ span[1] \in Nat /\ span[2] \in Nat
    BY <1>1, <2>1, SpanShape
  <2>3. i \in span[1] .. span[2]
    BY <2>1, <2>2 DEF Holds
  <2>4. PICK piece \in CapSpan(span) : Holds(piece, i)
    BY <2>2, <2>3, PiecesCover
  <2>5. piece \in CappedSpans(doc_type, file)
    BY <1>2, <2>1, <2>4 DEF CappedSpans
  <2>6. piece[1] \in Int /\ piece[2] \in Int
    BY <2>2, <2>3, <2>4, PieceShape
  <2>7. i \in piece[1] .. piece[2]
    BY <2>4, <2>6 DEF Holds
  <2>8. ~ IsBlank(file.lines, piece)
    BY <2>7 DEF IsBlank
  <2>9. QED
    BY <2>4, <2>5, <2>8 DEF KeptSpans
<1>4. \A i \in 1 .. total : \A p, q \in kept : Holds(p, i) /\ Holds(q, i) => p = q
  <2> SUFFICES ASSUME NEW i \in 1 .. total, NEW p \in kept, NEW q \in kept,
                      Holds(p, i), Holds(q, i)
               PROVE  p = q
    OBVIOUS
  <2>1. p \in CappedSpans(doc_type, file) /\ q \in CappedSpans(doc_type, file)
    BY DEF KeptSpans
  <2>2. PICK a \in 1 .. total, b \in 1 .. total :
          a <= b /\ <<a, b>> \in Spans(doc_type, file) /\ p \in CapSpan(<<a, b>>)
    BY <2>1, PieceOfSpan
  <2>3. PICK c \in 1 .. total, d \in 1 .. total :
          c <= d /\ <<c, d>> \in Spans(doc_type, file) /\ q \in CapSpan(<<c, d>>)
    BY <2>1, PieceOfSpan
  <2>4. p[1] \in a .. b /\ p[2] \in a .. b /\ q[1] \in c .. d /\ q[2] \in c .. d
    BY <1>1, <2>2, <2>3, PieceShape
  <2>5. Holds(<<a, b>>, i) /\ Holds(<<c, d>>, i)
    BY <1>1, <2>4 DEF Holds
  <2>6. <<a, b>> = <<c, d>>
    BY <1>1, <1>2, <2>2, <2>3, <2>5, SpansDisjoint
  <2>7. i \in a .. b /\ q \in CapSpan(<<a, b>>)
    BY <2>3, <2>5, <2>6 DEF Holds
  <2>8. QED
    BY <1>1, <2>2, <2>7, PiecesDisjoint
<1>5. \A span \in kept : span[1] <= span[2] /\ span[2] < span[1] + MAX_CHUNK_LINES
  <2> SUFFICES ASSUME NEW span \in kept
               PROVE  span[1] <= span[2] /\ span[2] < span[1] + MAX_CHUNK_LINES
    OBVIOUS
  <2>1. span \in CappedSpans(doc_type, file)
    BY DEF KeptSpans
  <2>2. PICK a \in 1 .. total, b \in 1 .. total : a <= b /\ span \in CapSpan(<<a, b>>)
    BY <2>1, PieceOfSpan
  <2>3. QED
    BY <1>1, <2>2, PieceShape
<1>6. QED
  BY <1>3, <1>4, <1>5 DEF PartitionsTheLines

-----------------------------------------------------------------------------
(* Order. *)

LEMMA RanksAreDistinct ==
  ASSUME NEW S, IsFiniteSet(S), \A s \in S : s[1] \in Nat,
         NEW a \in S, NEW b \in S, a[1] < b[1]
  PROVE  Cardinality({s \in S : s[1] <= a[1]}) < Cardinality({s \in S : s[1] <= b[1]})
<1> DEFINE A == {s \in S : s[1] <= a[1]}
           B == {s \in S : s[1] <= b[1]}
<1>1. IsFiniteSet(A) /\ IsFiniteSet(B)
  BY FS_Subset
<1>2. A \in SUBSET B /\ b \in B /\ b \notin A
  OBVIOUS
<1>3. Cardinality(A) <= Cardinality(B) /\ (Cardinality(A) = Cardinality(B) => A = B)
  BY <1>1, <1>2, FS_Subset
<1>4. Cardinality(A) \in Nat /\ Cardinality(B) \in Nat
  BY <1>1, FS_CardinalityType
<1> QED
  BY <1>2, <1>3, <1>4

\* InOrder lists the spans, each once, by the line they start on.
LEMMA InOrderLists ==
  ASSUME NEW S, IsFiniteSet(S), \A s \in S : s[1] \in Nat,
         \A a, b \in S : a[1] = b[1] => a = b
  PROVE  /\ Cardinality(S) \in Nat /\ InOrder(S) \in [1 .. Cardinality(S) -> S]
         /\ \A s \in S : \E k \in 1 .. Cardinality(S) : InOrder(S)[k] = s
         /\ \A j, k \in 1 .. Cardinality(S) : j < k => InOrder(S)[j][1] < InOrder(S)[k][1]
<1> DEFINE n == Cardinality(S)
           Upto(s) == {t \in S : t[1] <= s[1]}
           rank == [s \in S |-> Cardinality(Upto(s))]
<1>1. n \in Nat
  BY FS_CardinalityType
<1>2. ASSUME NEW s \in S PROVE Cardinality(Upto(s)) \in 1 .. n
  <2>1. Upto(s) \in SUBSET S /\ s \in Upto(s)
    OBVIOUS
  <2>2. IsFiniteSet(Upto(s)) /\ Cardinality(Upto(s)) <= n
    BY <2>1, FS_Subset
  <2>3. Cardinality(Upto(s)) \in Nat
    BY <2>2, FS_CardinalityType
  <2>4. Cardinality(Upto(s)) # 0
    BY <2>1, <2>2, FS_EmptySet
  <2> HIDE DEF Upto
  <2> QED
    BY <1>1, <2>2, <2>3, <2>4
<1>3. ASSUME NEW a \in S, NEW b \in S, a[1] < b[1]
      PROVE  Cardinality(Upto(a)) < Cardinality(Upto(b))
  BY <1>3, RanksAreDistinct
<1> HIDE DEF Upto
<1>4. rank \in [S -> 1 .. n]
  BY <1>2
<1>5. \A a, b \in S : rank[a] = rank[b] => a = b
  <2> SUFFICES ASSUME NEW a \in S, NEW b \in S, a # b PROVE rank[a] # rank[b]
    OBVIOUS
  <2>1. a[1] < b[1] \/ b[1] < a[1]
    OBVIOUS
  <2> QED
    BY <1>2, <1>3, <2>1
<1>6. rank \in Injection(S, 1 .. n)
  BY <1>4, <1>5 DEF Injection, IsInjective
<1>7. IsFiniteSet(1 .. n) /\ Cardinality(1 .. n) = n
  BY <1>1, FS_Interval
<1>8. rank \in Surjection(S, 1 .. n)
  BY <1>6, <1>7, FS_Injection
<1>9. \A k \in 1 .. n : \E s \in S : Cardinality(Upto(s)) = k
  BY <1>8 DEF Surjection
<1>10. ASSUME NEW k \in 1 .. n
       PROVE  InOrder(S)[k] \in S /\ Cardinality(Upto(InOrder(S)[k])) = k
  <2>1. InOrder(S)[k] = CHOOSE s \in S : Cardinality(Upto(s)) = k
    BY DEF InOrder, Upto
  <2> QED
    BY <1>9, <2>1
<1>11. InOrder(S) \in [1 .. n -> S]
  BY <1>10 DEF InOrder
<1>12. ASSUME NEW s \in S PROVE \E k \in 1 .. n : InOrder(S)[k] = s
  <2>1. Cardinality(Upto(s)) \in 1 .. n
    BY <1>2
  <2>2. InOrder(S)[Cardinality(Upto(s))] = s
    BY <1>5, <1>10, <2>1
  <2> QED
    BY <2>1, <2>2
<1>13. ASSUME NEW j \in 1 .. n, NEW k \in 1 .. n, j < k
       PROVE  InOrder(S)[j][1] < InOrder(S)[k][1]
  <2> DEFINE a == InOrder(S)[j]
             b == InOrder(S)[k]
  <2>1. a \in S /\ b \in S /\ Cardinality(Upto(a)) = j /\ Cardinality(Upto(b)) = k
    BY <1>10
  <2> HIDE DEF a, b
  <2>2. ~ (b[1] < a[1])
    BY <1>3, <1>13, <2>1
  <2>3. a[1] # b[1]
    BY <1>13, <2>1
  <2>4. a[1] \in Nat /\ b[1] \in Nat
    BY <2>1
  <2>5. a[1] < b[1]
    BY <2>2, <2>3, <2>4
  <2> QED
    BY <2>5 DEF a, b
<1> QED
  BY <1>1, <1>11, <1>12, <1>13

LEMMA KeptSpansAreLines ==
  ASSUME NEW V, NEW doc_type, NEW file, file.lines \in Seq(V)
  PROVE  /\ IsFiniteSet(KeptSpans(doc_type, file))
         /\ \A span \in KeptSpans(doc_type, file) :
              span[1] \in 1 .. Len(file.lines) /\ span[2] \in 1 .. Len(file.lines)
         /\ \A a, b \in KeptSpans(doc_type, file) : a[1] = b[1] => a = b
<1> DEFINE total == Len(file.lines)
           kept == KeptSpans(doc_type, file)
<1>1. total \in Nat
  OBVIOUS
<1>2. ASSUME NEW span \in kept
      PROVE  /\ span[1] \in 1 .. total /\ span[2] \in 1 .. total /\ span[1] <= span[2]
             /\ span = <<span[1], span[2]>>
  <2>1. PICK a \in 1 .. total, b \in 1 .. total : a <= b /\ span \in CapSpan(<<a, b>>)
    BY PieceOfSpan DEF KeptSpans
  <2>2. /\ span = <<span[1], span[2]>> /\ span[1] <= span[2]
        /\ span[1] \in a .. b /\ span[2] \in a .. b
    BY <1>1, <2>1, PieceShape
  <2> QED
    BY <1>1, <2>1, <2>2
<1>3. kept \in SUBSET ((1 .. total) \X (1 .. total))
  <2> SUFFICES ASSUME NEW span \in kept PROVE span \in (1 .. total) \X (1 .. total)
    OBVIOUS
  <2> HIDE DEF kept
  <2> QED
    BY <1>2
<1>4. IsFiniteSet((1 .. total) \X (1 .. total))
  <2>1. IsFiniteSet(1 .. total)
    BY <1>1, FS_Interval
  <2> QED
    BY <2>1, FS_Product
<1>5. IsFiniteSet(kept)
  BY <1>3, <1>4, FS_Subset
<1>6. ASSUME NEW a \in kept, NEW b \in kept, a[1] = b[1] PROVE a = b
  <2>1. Holds(a, a[1]) /\ Holds(b, a[1]) /\ a[1] \in 1 .. total
    BY <1>2, <1>6 DEF Holds
  <2>2. PartitionsTheLines(doc_type, file)
    BY ChunksPartitionTheLines
  <2> QED
    BY <2>1, <2>2 DEF PartitionsTheLines
<1> QED
  BY <1>2, <1>5, <1>6

ListsInOrder(chunks, lines, kept) ==
  /\ Len(chunks) \in Nat /\ DOMAIN chunks = 1 .. Len(chunks)
  /\ \A k \in DOMAIN chunks : \E span \in kept : chunks[k] = Chunk(lines, span)
  /\ \A span \in kept : \E k \in DOMAIN chunks : chunks[k] = Chunk(lines, span)
  /\ \A j, k \in DOMAIN chunks : j < k => chunks[j].start_line < chunks[k].start_line

\* chunk_file returns the chunks of the spans that are kept, each once, in the order of
\* the file: the index of a chunk is its place in the file.
THEOREM ChunksComeInOrder ==
  ASSUME NEW V, NEW doc_type, NEW file, file.lines \in Seq(V)
  PROVE  ListsInOrder(chunk_file(doc_type, file), file.lines, KeptSpans(doc_type, file))
<1> DEFINE kept == KeptSpans(doc_type, file)
           chunks == chunk_file(doc_type, file)
           n == Cardinality(kept)
<1>1. /\ IsFiniteSet(kept) /\ \A span \in kept : span[1] \in Nat
      /\ \A a, b \in kept : a[1] = b[1] => a = b
  <2>1. /\ IsFiniteSet(kept) /\ \A span \in kept : span[1] \in 1 .. Len(file.lines)
        /\ \A a, b \in kept : a[1] = b[1] => a = b
    BY KeptSpansAreLines
  <2>2. Len(file.lines) \in Nat
    OBVIOUS
  <2> HIDE DEF kept
  <2> QED
    BY <2>1, <2>2
<1>2. /\ n \in Nat /\ InOrder(kept) \in [1 .. n -> kept]
      /\ \A s \in kept : \E k \in 1 .. n : InOrder(kept)[k] = s
      /\ \A j, k \in 1 .. n : j < k => InOrder(kept)[j][1] < InOrder(kept)[k][1]
  <2> HIDE DEF kept
  <2> QED
    BY <1>1, InOrderLists
<1>3. chunks = [k \in 1 .. n |-> Chunk(file.lines, InOrder(kept)[k])]
  BY <1>2 DEF chunk_file
<1> HIDE DEF kept, chunks, n
<1>4. DOMAIN chunks = 1 .. n /\ \A k \in 1 .. n : chunks[k] = Chunk(file.lines, InOrder(kept)[k])
  BY <1>3
<1>5. Len(chunks) = n
  BY <1>2, <1>3
<1>6. \A span : Chunk(file.lines, span).start_line = span[1]
  BY DEF Chunk
<1>7. /\ \A k \in 1 .. n : \E span \in kept : chunks[k] = Chunk(file.lines, span)
      /\ \A span \in kept : \E k \in 1 .. n : chunks[k] = Chunk(file.lines, span)
  BY <1>2, <1>4
<1>8. \A j, k \in 1 .. n : j < k => chunks[j].start_line < chunks[k].start_line
  BY <1>2, <1>4, <1>6
<1> QED
  BY <1>2, <1>4, <1>5, <1>7, <1>8 DEF kept, chunks, ListsInOrder
=============================================================================
