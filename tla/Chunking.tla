------------------------------- MODULE Chunking -------------------------------
(***************************************************************************)
(* How a file is cut into chunks (services/chunking.py).                   *)
(*                                                                         *)
(* A line is one of a few values: only whether it opens a unit and whether *)
(* it is blank decides where a file is cut, and two chunks have the same   *)
(* content exactly when they have the same sequence of lines.  A span is   *)
(* the pair of its first and its last line, counted from 1.  The code      *)
(* appends spans in the order of the lines; here they are sets, and        *)
(* chunk_file puts them in that order.                                     *)
(***************************************************************************)
EXTENDS Naturals, Sequences, SequencesExt

CONSTANTS
  MAX_CHUNK_LINES,  \* 60 in the code
  WINDOW_LINES      \* 40 in the code

ASSUME ChunkingAssumption ==
  MAX_CHUNK_LINES \in Nat \ {0} /\ WINDOW_LINES \in Nat \ {0}

(* The values of a line that matter.  A "def" line is the one a top-level  *)
(* def or class statement is on, which is after its decorators: these end  *)
(* the span before.                                                        *)
Header == "#"
Def == "def"
Blank == ""

LinesThatAre(value, lines) == {i \in DOMAIN lines : lines[i] = value}

\* What lies between one start and the next; the first span starts at line 1,
\* whether or not that line opens a unit.
SpansBetween(starts, total) ==
  {span \in (1 .. total) \X (1 .. total) :
     /\ span[1] = 1 \/ span[1] \in starts
     /\ span[2] = total \/ span[2] + 1 \in starts
     /\ span[1] <= span[2]
     /\ \A i \in starts : i <= span[1] \/ span[2] < i}

MarkdownSpans(lines) == SpansBetween(LinesThatAre(Header, lines), Len(lines))

WindowSpans(lines) ==
  SpansBetween({i \in 1 .. Len(lines) : (i - 1) % WINDOW_LINES = 0}, Len(lines))

\* parses: ast.parse accepts the file
PythonSpans(lines, parses) ==
  IF parses /\ LinesThatAre(Def, lines) # {}
    THEN SpansBetween(LinesThatAre(Def, lines), Len(lines))
    ELSE WindowSpans(lines)

\* a variant that steps one line short
CapSpan_overlapping(span) ==
  {<<s, IF s + MAX_CHUNK_LINES <= span[2] THEN s + MAX_CHUNK_LINES ELSE span[2]>> :
     s \in {i \in span[1] .. span[2] : (i - span[1]) % MAX_CHUNK_LINES = 0}}

CapSpan(span) ==
  {<<s, IF s + MAX_CHUNK_LINES - 1 <= span[2] THEN s + MAX_CHUNK_LINES - 1 ELSE span[2]>> :
     s \in {i \in span[1] .. span[2] : (i - span[1]) % MAX_CHUNK_LINES = 0}}

Spans(doc_type, file) ==
  IF doc_type = "markdown" THEN MarkdownSpans(file.lines)
  ELSE IF doc_type = "python" THEN PythonSpans(file.lines, file.parses)
  ELSE WindowSpans(file.lines)

CappedSpans(doc_type, file) == UNION {CapSpan(span) : span \in Spans(doc_type, file)}

IsBlank(lines, span) == \A i \in span[1] .. span[2] : lines[i] = Blank

\* chunks of nothing but blank lines are dropped
KeptSpans(doc_type, file) ==
  {span \in CappedSpans(doc_type, file) : ~ IsBlank(file.lines, span)}

Chunk(lines, span) ==
  [content |-> SubSeq(lines, span[1], span[2]), start_line |-> span[1], end_line |-> span[2]]

\* the k-th is the one with k spans that start no later
InOrder(spans) ==
  [k \in 1 .. Cardinality(spans) |->
     CHOOSE span \in spans : Cardinality({s \in spans : s[1] <= span[1]}) = k]

chunk_file(doc_type, file) ==
  LET inOrder == InOrder(KeptSpans(doc_type, file))
  IN [k \in DOMAIN inOrder |-> Chunk(file.lines, inOrder[k])]

-----------------------------------------------------------------------------
(* What is promised of the chunks of a file. *)

Holds(span, i) == span[1] <= i /\ i <= span[2]

\* Every line is in exactly one chunk, unless it is blank and in none; no chunk is
\* longer than the cap.
PartitionsTheLines(doc_type, file) ==
  LET kept == KeptSpans(doc_type, file)
  IN /\ \A i \in 1 .. Len(file.lines) :
          \/ \E span \in kept : Holds(span, i)
          \/ file.lines[i] = Blank
     /\ \A i \in 1 .. Len(file.lines) : \A a, b \in kept : Holds(a, i) /\ Holds(b, i) => a = b
     /\ \A span \in kept : span[1] <= span[2] /\ span[2] < span[1] + MAX_CHUNK_LINES
=============================================================================
