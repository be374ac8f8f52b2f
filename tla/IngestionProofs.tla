---------------------------- MODULE IngestionProofs ----------------------------
(***************************************************************************)
(* Whatever runs overlap, fail or restart, and whatever the files become:  *)
(* the table keeps its constraints, vectors are of the contents they are   *)
(* stored with, and every version of a file is cut without loss.  A run    *)
(* that nothing came across leaves exactly the chunks of the files;        *)
(* TableInv and ExactInv, the invariants that say why, relate what a       *)
(* session has noted to the table and the disk.                            *)
(***************************************************************************)
EXTENDS Ingestion, ChunkingProofs

-----------------------------------------------------------------------------
(* Files. *)

LEMMA DiskStaysDisk == Spec => []IsDisk(disk)
<1>1. Init => IsDisk(disk)
  BY IngestionAssumption DEF Init
<1>2. IsDisk(disk) /\ [Next]_vars => IsDisk(disk)'
  <2> SUFFICES ASSUME IsDisk(disk), [Next]_vars
               PROVE  IsDisk(disk')
    OBVIOUS
  <2>1. CASE \E path \in Paths : Edit(path)
    <3> PICK path \in Paths : Edit(path)
      BY <2>1
    <3>1. PICK file \in Edits[path] : disk' = [disk EXCEPT ![path] = file]
      BY DEF Edit
    <3>2. IsFileOrNone(file)
      BY IngestionAssumption
    <3>3. QED
      BY <3>1, <3>2 DEF IsDisk
  <2>2. CASE disk' = disk
    BY <2>2
  <2>3. QED
    BY <2>1, <2>2 DEF Next, vars, Start, Purge, ReadFile, Reconcile, Commit, CommitFails, Rollback
<1>3. QED
  BY <1>1, <1>2, PTL DEF Spec

\* Every version of every file is partitioned by its chunks.
THEOREM EveryVersionIsPartitioned == Spec => []ChunksPartitionTheFile
<1>1. IsDisk(disk) => ChunksPartitionTheFile
  BY ChunksPartitionTheLines DEF IsDisk, IsFileOrNone, ChunksPartitionTheFile, OnDisk
<1>2. QED
  BY <1>1, DiskStaysDisk, PTL

-----------------------------------------------------------------------------
(* Vectors. *)

Belongs(row) == "embedding" \in DOMAIN row /\ "content" \in DOMAIN row
                  /\ row["embedding"].of = row["content"]

\* What a session is going to write: rows whose vector is of their content, and changes
\* of a content to another one, of which UPDATE cannot write one without the other.
SessionOK(session) ==
  /\ {"inserts", "updates"} \subseteq DOMAIN session
  /\ \A row \in session.inserts : Belongs(row)
  /\ \A u \in session.updates :
       Belongs(u.old) /\ Belongs(u.new) /\ u.new.content # u.old.content

VectorInv ==
  /\ \A row \in rows : Belongs(row)
  /\ DOMAIN run = Runs
  /\ \A r \in Runs : SessionOK(run[r])

LEMMA IdleOK == ASSUME NEW at PROVE SessionOK([Idle EXCEPT !.at = at])
  BY DEF Idle, SessionOK

LEMMA IdleIsOK == SessionOK(Idle)
  BY DEF Idle, SessionOK

LEMMA FlushedBelongs ==
  ASSUME NEW row, Belongs(row), NEW session, SessionOK(session)
  PROVE  Belongs(Flushed(row, session.updates))
<1> DEFINE own == {u \in session.updates : u.old.id = row.id}
<1>1. CASE own = {}
  BY <1>1 DEF Flushed
<1>2. CASE own # {}
  <2>1. PICK u \in session.updates : Flushed(row, session.updates) = Updated(row, u)
    BY <1>2 DEF Flushed
  <2>2. u.new.content # u.old.content /\ u.new["embedding"] # u.old["embedding"]
    BY DEF SessionOK, Belongs
  <2>3. Updated(row, u)["content"] = u.new["content"]
        /\ Updated(row, u)["embedding"] = u.new["embedding"]
    BY <2>2 DEF Updated, Columns
  <2>4. DOMAIN Updated(row, u) = Columns
    BY DEF Updated
  <2>5. QED
    BY <2>1, <2>3, <2>4 DEF SessionOK, Belongs, Columns
<1>3. QED
  BY <1>1, <1>2

LEMMA RowForBelongs ==
  ASSUME NEW id, NEW path, NEW idx, NEW chunk, NEW model
  PROVE  Belongs(RowFor(id, path, idx, chunk, model))
         /\ RowFor(id, path, idx, chunk, model).content = chunk.content
  BY DEF RowFor, Belongs

LEMMA WrittenBelongs ==
  ASSUME NEW r \in Runs, VectorInv
  PROVE  \A row \in Written(r) : Belongs(row)
<1> SUFFICES ASSUME NEW row \in Written(r)
             PROVE  Belongs(row)
  OBVIOUS
<1>1. SessionOK(run[r])
  BY DEF VectorInv
<1>2. CASE \E x \in rows : row = Flushed(x, run[r].updates)
  BY <1>1, <1>2, FlushedBelongs DEF VectorInv
<1>3. CASE \E new \in run[r].inserts : row = [new EXCEPT !.id = NewId(new)]
  BY <1>1, <1>3 DEF SessionOK, Belongs
<1>4. QED
  BY <1>2, <1>3 DEF Written

LEMMA DisturbKeepsSessions ==
  ASSUME NEW others, VectorInv
  PROVE  /\ DOMAIN Disturb(others) = Runs
         /\ \A r \in Runs : SessionOK(Disturb(others)[r])
  BY DEF Disturb, VectorInv, SessionOK

LEMMA ReconcileKeepsSession ==
  ASSUME VectorInv, NEW r \in Runs, Reconcile(r)
  PROVE  VectorInv'
<1> DEFINE path == Corpus[run[r].pos]
           chunks == run[r].chunks
           existing == Existing(path)
           model == run[r].model
           new == IndexesOf(chunks) \ {row.chunk_index : row \in existing}
           changed == {row \in existing : row.chunk_index \in IndexesOf(chunks)
                                            /\ ~ Unchanged(row, chunks)}
           added == {RowFor(None, path, i, chunks[i + 1], model) : i \in new}
           updated == {[old |-> row, new |-> NewVersion(row, chunks[row.chunk_index + 1], model)] :
                         row \in changed}
<1>1. \A row \in added : Belongs(row)
  BY RowForBelongs
<1>2. \A u \in updated : Belongs(u.old) /\ Belongs(u.new) /\ u.new.content # u.old.content
  <2> SUFFICES ASSUME NEW row \in changed
               PROVE  /\ Belongs(row) /\ Belongs(NewVersion(row, chunks[row.chunk_index + 1], model))
                      /\ NewVersion(row, chunks[row.chunk_index + 1], model).content # row.content
    OBVIOUS
  <2>1. Belongs(row)
    BY DEF VectorInv, Existing
  <2>2. row.content # chunks[row.chunk_index + 1].content
    BY DEF Unchanged
  <2>3. QED
    BY <2>1, <2>2, RowForBelongs DEF NewVersion
<1>3. run' = [run EXCEPT ![r] = [run[r] EXCEPT
                 !.at = "read", !.pos = @ + 1, !.chunks = <<>>,
                 !.inserts = @ \cup added, !.updates = @ \cup updated,
                 !.deletes = @ \cup {row.id : row \in {x \in existing : Stale(x, chunks)}}]]
  BY DEF Reconcile
<1> HIDE DEF added, updated
<1>4. SessionOK(run'[r])
  BY <1>1, <1>2, <1>3 DEF VectorInv, SessionOK
<1>5. rows' = rows
  BY DEF Reconcile
<1>6. QED
  BY <1>3, <1>4, <1>5 DEF VectorInv

\* Whatever runs overlap or fail, every committed vector was made of the content in its
\* row.
THEOREM VectorsStayWithContents == Spec => []VectorsBelongToContents
<1>1. Init => VectorInv
  BY IdleIsOK DEF Init, VectorInv
<1>2. VectorInv /\ [Next]_vars => VectorInv'
  <2> SUFFICES ASSUME VectorInv, [Next]_vars
               PROVE  VectorInv'
    OBVIOUS
  <2>1. CASE \E path \in Paths : Edit(path)
    BY <2>1, DisturbKeepsSessions DEF Edit, VectorInv
  <2>2. ASSUME NEW r \in Runs, NEW model \in Models, NEW reingest \in BOOLEAN,
               Start(r, model, reingest)
        PROVE  VectorInv'
    <3>1. SessionOK([Idle EXCEPT !.at = IF reingest THEN "purge" ELSE "read",
                                 !.model = model, !.reingest = reingest, !.pos = 1])
      BY DEF SessionOK, Idle
    <3>2. QED
      BY <2>2, <3>1 DEF Start, VectorInv
  <2>3. ASSUME NEW r \in Runs, Purge(r)
        PROVE  VectorInv'
    <3>1. DOMAIN Disturb(Runs \ {r}) = Runs /\ \A x \in Runs : SessionOK(Disturb(Runs \ {r})[x])
      BY DisturbKeepsSessions
    <3>2. QED
      BY <2>3, <3>1 DEF Purge, VectorInv, SessionOK
  <2>4. ASSUME NEW r \in Runs, ReadFile(r)
        PROVE  VectorInv'
    <3>1. \E session : /\ run' = [run EXCEPT ![r] = session]
                       /\ session.inserts = run[r].inserts /\ session.updates = run[r].updates
                       /\ DOMAIN session = DOMAIN run[r]
      BY <2>4 DEF ReadFile, VectorInv, SessionOK
    <3>2. rows' = rows
      BY <2>4 DEF ReadFile
    <3>3. QED
      BY <3>1, <3>2 DEF VectorInv, SessionOK
  <2>5. ASSUME NEW r \in Runs, Reconcile(r)
        PROVE  VectorInv'
    BY <2>5, ReconcileKeepsSession
  <2>6. ASSUME NEW r \in Runs, Commit(r)
        PROVE  VectorInv'
    <3>1. \A row \in Written(r) : Belongs(row)
      BY WrittenBelongs
    <3>2. DOMAIN Disturb(Runs \ {r}) = Runs /\ \A x \in Runs : SessionOK(Disturb(Runs \ {r})[x])
      BY DisturbKeepsSessions
    <3>3. SessionOK([Idle EXCEPT !.at = "done"])
      BY IdleOK
    <3>4. QED
      BY <2>6, <3>1, <3>2, <3>3 DEF Commit, VectorInv
  <2>7. ASSUME NEW r \in Runs, CommitFails(r) \/ Rollback(r)
        PROVE  VectorInv'
    BY <2>7, IdleOK DEF CommitFails, Rollback, VectorInv
  <2>8. CASE UNCHANGED vars
    BY <2>8 DEF vars, VectorInv
  <2>9. QED
    BY <2>1, <2>2, <2>3, <2>4, <2>5, <2>6, <2>7, <2>8 DEF Next
<1>3. VectorInv => VectorsBelongToContents
  BY DEF VectorInv, Belongs, VectorsBelongToContents
<1>4. QED
  BY <1>1, <1>2, <1>3, PTL DEF Spec

-----------------------------------------------------------------------------
(* Rows and what a session is going to do with them. *)

Places == {"idle", "purge", "read", "reconcile", "commit", "done", "failed"}
Ended == {"idle", "done", "failed"}
Fields == {"at", "model", "reingest", "pos", "chunks", "inserts", "updates", "deletes", "disturbed"}

RowOK(row) ==
  /\ DOMAIN row = Columns
  /\ row["file_path"] \in Paths /\ row["chunk_index"] \in Nat
  /\ row["start_line"] \in Nat \ {0} /\ row["end_line"] \in Nat \ {0}
  /\ row["embedding"].model \in Models

\* An id is one of a few for its path and index.
IdFor(id, path, idx) == \E n \in 0 .. Cardinality(Runs) : id = <<path, idx, n>>
IdOK(row) == IdFor(row["id"], row["file_path"], row["chunk_index"])

Rank(path, pos) == \E i \in 1 .. pos - 1 : i \in DOMAIN Corpus /\ path = Corpus[i]

UpdateOK(u, pos) ==
  /\ RowOK(u.old) /\ IdOK(u.old) /\ RowOK(u.new)
  /\ u.new["id"] = u.old["id"] /\ Key(u.new) = Key(u.old)
  /\ Rank(u.old["file_path"], pos)

Remembered(updates, deletes) == {u.old["id"] : u \in updates} \cup deletes

ChunksOK(chunks) ==
  \A i \in IndexesOf(chunks) :
    chunks[i + 1].start_line \in Nat \ {0} /\ chunks[i + 1].end_line \in Nat \ {0}

SessionTyped(s) ==
  /\ DOMAIN s = Fields /\ s.at \in Places
  /\ s.pos \in Nat /\ (s.at \notin Ended => s.pos > 0 /\ s.model \in Models)
  /\ s.at = "reconcile" => s.pos \in DOMAIN Corpus /\ ChunksOK(s.chunks)

WritesTyped(inserts, updates, deletes, pos) ==
  /\ \A new \in inserts : RowOK(new) /\ Rank(new["file_path"], pos)
  /\ \A a, b \in inserts : Key(a) = Key(b) => a = b
  /\ \A u \in updates : UpdateOK(u, pos)
  /\ \A id \in deletes : \E path, k : Rank(path, pos) /\ IdFor(id, path, k)
  /\ \A x, y \in Remembered(updates, deletes) : x[1] = y[1] /\ x[2] = y[2] => x = y

RowsTyped(table) ==
  /\ \A row \in table : RowOK(row) /\ IdOK(row)
  /\ \A a, b \in table : Key(a) = Key(b) => a = b

TableInv ==
  /\ RowsTyped(rows) /\ DOMAIN run = Runs
  /\ \A r \in Runs : /\ SessionTyped(run[r])
                     /\ WritesTyped(run[r].inserts, run[r].updates, run[r].deletes, run[r].pos)
  /\ starts \in 0 .. MaxStarts /\ edits \in 0 .. MaxEdits

-----------------------------------------------------------------------------
(* What a run has noted while nothing came across it. *)

\* the files it has been through and read
Ingested(s, d) == {path \in Paths : Rank(path, s.pos) /\ d[path] # None /\ doc_type_for[path] # None}

Given(row, d) == Chunks(row["file_path"], d[row["file_path"]])
InFile(row, d) == row["chunk_index"] \in IndexesOf(Given(row, d))
Content(row, d) == Given(row, d)[row["chunk_index"] + 1].content

InsertsExact(s, table, d) ==
  /\ \A new \in s.inserts :
       /\ new["file_path"] \in Ingested(s, d) /\ InFile(new, d)
       /\ new["content"] = Content(new, d) /\ new["embedding"].model = s.model
  /\ \A path \in Ingested(s, d) : \A i \in IndexesOf(Chunks(path, d[path])) :
       \E row \in table \cup s.inserts : Key(row) = <<path, i>>

UpdatesExact(s, table, d) ==
  /\ \A u \in s.updates :
       /\ u.old \in table /\ u.old["file_path"] \in Ingested(s, d) /\ InFile(u.old, d)
       /\ u.new["content"] = Content(u.old, d) /\ u.old["content"] # Content(u.old, d)
  /\ \A row \in table :
       row["file_path"] \in Ingested(s, d) /\ InFile(row, d) /\ row["content"] # Content(row, d) =>
         \E u \in s.updates : u.old = row

DeletesExact(s, table, d) ==
  /\ \A id \in s.deletes : \E row \in table :
       row["id"] = id /\ row["file_path"] \in Ingested(s, d) /\ Stale(row, Given(row, d))
  /\ \A row \in table :
       row["file_path"] \in Ingested(s, d) /\ Stale(row, Given(row, d)) => row["id"] \in s.deletes

PlaceExact(s, table, d) ==
  /\ s.at = "reconcile" =>
       LET path == Corpus[s.pos]
       IN d[path] # None /\ doc_type_for[path] # None /\ s.chunks = Chunks(path, d[path])
  /\ s.at = "commit" => s.pos > Len(Corpus)
  /\ s.at = "purge" => s.pos = 1
  /\ s.reingest => s.model = "fake"
  /\ s.reingest /\ s.at # "purge" => table = {}

Exact(s, table, d) ==
  /\ PlaceExact(s, table, d)
  /\ InsertsExact(s, table, d) /\ UpdatesExact(s, table, d) /\ DeletesExact(s, table, d)

ExactInv == \A r \in Runs : Underway(r) /\ ~ run[r].disturbed => Exact(run[r], rows, disk)

-----------------------------------------------------------------------------
(* Rows. *)

LEMMA ChunksAreOK ==
  ASSUME NEW path, NEW file, file.lines \in Seq(STRING)
  PROVE  ChunksOK(Chunks(path, file)) /\ Len(Chunks(path, file)) \in Nat
<1> DEFINE type == doc_type_for[path]
           chunks == Chunks(path, file)
           kept == KeptSpans(type, file)
<1>1. /\ Len(chunks) \in Nat /\ DOMAIN chunks = 1 .. Len(chunks)
      /\ \A k \in DOMAIN chunks : \E span \in kept : chunks[k] = Chunk(file.lines, span)
  <2>1. chunks = chunk_file(type, file)
    BY DEF Chunks
  <2>2. ListsInOrder(chunk_file(type, file), file.lines, KeptSpans(type, file))
    <3> HIDE DEF type, chunks, kept
    <3> DEFINE V == STRING
    <3>1. file.lines \in Seq(V)
      OBVIOUS
    <3> HIDE DEF V
    <3> QED
      BY <3>1, ChunksComeInOrder
  <2> HIDE DEF chunks
  <2> QED
    BY <2>1, <2>2 DEF ListsInOrder
<1>2. \A span \in kept : span[1] \in 1 .. Len(file.lines) /\ span[2] \in 1 .. Len(file.lines)
  BY KeptSpansAreLines
<1>3. Len(file.lines) \in Nat
  OBVIOUS
<1> HIDE DEF chunks, kept
<1>4. ASSUME NEW i \in IndexesOf(chunks)
      PROVE  chunks[i + 1].start_line \in Nat \ {0} /\ chunks[i + 1].end_line \in Nat \ {0}
  <2>1. i + 1 \in DOMAIN chunks
    BY <1>1 DEF IndexesOf
  <2>2. PICK span \in kept : chunks[i + 1] = Chunk(file.lines, span)
    BY <1>1, <2>1
  <2>3. chunks[i + 1].start_line = span[1] /\ chunks[i + 1].end_line = span[2]
    BY <2>2 DEF Chunk
  <2> QED
    BY <1>2, <1>3, <2>3
<1> QED
  BY <1>1, <1>4 DEF ChunksOK, chunks

LEMMA RowForOK ==
  ASSUME NEW id, NEW path \in Paths, NEW idx \in Nat, NEW chunk, NEW model \in Models,
         chunk.start_line \in Nat \ {0}, chunk.end_line \in Nat \ {0}
  PROVE  /\ RowOK(RowFor(id, path, idx, chunk, model))
         /\ RowFor(id, path, idx, chunk, model)["id"] = id
         /\ Key(RowFor(id, path, idx, chunk, model)) = <<path, idx>>
         /\ RowFor(id, path, idx, chunk, model)["file_path"] = path
         /\ RowFor(id, path, idx, chunk, model)["chunk_index"] = idx
         /\ RowFor(id, path, idx, chunk, model)["content"] = chunk.content
         /\ RowFor(id, path, idx, chunk, model)["embedding"].model = model
BY DEF RowFor, RowOK, Columns, Key

\* An update leaves the row its id and its key.
LEMMA UpdatedOK ==
  ASSUME NEW row, RowOK(row), NEW u, NEW pos, UpdateOK(u, pos)
  PROVE  /\ RowOK(Updated(row, u))
         /\ Updated(row, u)["id"] = row["id"]
         /\ Updated(row, u)["file_path"] = row["file_path"]
         /\ Updated(row, u)["chunk_index"] = row["chunk_index"]
<1> DEFINE next == Updated(row, u)
<1>1. DOMAIN next = Columns /\ \A c \in Columns : next[c] = row[c] \/ next[c] = u.new[c]
  BY DEF Updated
<1>2. next["id"] = row["id"] /\ next["file_path"] = row["file_path"]
      /\ next["chunk_index"] = row["chunk_index"]
  BY DEF Updated, UpdateOK, Columns, Key
<1>3. RowOK(u.new)
  BY DEF UpdateOK
<1> HIDE DEF next
<1>4. next["start_line"] \in Nat \ {0} /\ next["end_line"] \in Nat \ {0}
      /\ next["embedding"].model \in Models
  BY <1>1, <1>3 DEF RowOK, Columns
<1>5. RowOK(next)
  BY <1>1, <1>2, <1>4 DEF RowOK
<1> QED
  BY <1>2, <1>5 DEF next

LEMMA FlushedOK ==
  ASSUME NEW row, RowOK(row), NEW updates, NEW pos, \A u \in updates : UpdateOK(u, pos)
  PROVE  /\ RowOK(Flushed(row, updates))
         /\ Flushed(row, updates)["id"] = row["id"]
         /\ Flushed(row, updates)["file_path"] = row["file_path"]
         /\ Flushed(row, updates)["chunk_index"] = row["chunk_index"]
<1> DEFINE own == {u \in updates : u.old.id = row.id}
<1>1. CASE own = {}
  BY <1>1 DEF Flushed
<1>2. CASE own # {}
  <2>1. PICK u \in updates : Flushed(row, updates) = Updated(row, u)
    BY <1>2 DEF Flushed
  <2> QED
    BY <2>1, UpdatedOK
<1> QED
  BY <1>1, <1>2

-----------------------------------------------------------------------------
(* Ids: there are more of them for a key than can be in use. *)

LEMMA IdsDiffer ==
  ASSUME NEW id, NEW path, NEW idx, IdFor(id, path, idx)
  PROVE  id[1] = path /\ id[2] = idx
BY DEF IdFor

LEMMA NewIdIsFree ==
  ASSUME TableInv, NEW row, \A x \in rows : Key(x) # Key(row)
  PROVE  IdFor(NewId(row), row["file_path"], row["chunk_index"])
<1> DEFINE n == Cardinality(Runs)
           path == row["file_path"]
           idx == row["chunk_index"]
           ids == {<<path, idx, k>> : k \in 0 .. n}
           memory(r) == Remembered(run[r].updates, run[r].deletes)
<1>1. IsFiniteSet(Runs) /\ n \in Nat
  BY IngestionAssumption, FS_CardinalityType
<1>2. Known = {x["id"] : x \in rows} \cup UNION {memory(r) : r \in Runs}
  BY DEF Known, Remembered
<1>3. \A id \in ids : id \notin {x["id"] : x \in rows}
  <2> SUFFICES ASSUME NEW k \in 0 .. n, NEW x \in rows, x["id"] = <<path, idx, k>>
               PROVE  FALSE
    OBVIOUS
  <2>1. IdOK(x)
    BY DEF TableInv, RowsTyped
  <2>2. x["file_path"] = path /\ x["chunk_index"] = idx
    BY <2>1 DEF IdOK, IdFor
  <2> QED
    BY <2>2 DEF Key
<1>4. ASSUME NEW r \in Runs, NEW k \in 0 .. n, NEW l \in 0 .. n,
             <<path, idx, k>> \in memory(r), <<path, idx, l>> \in memory(r)
      PROVE  k = l
  <2>1. \A x, y \in memory(r) : x[1] = y[1] /\ x[2] = y[2] => x = y
    BY DEF TableInv, WritesTyped
  <2> HIDE DEF memory
  <2>2. <<path, idx, k>> = <<path, idx, l>>
    BY <1>4, <2>1
  <2> QED
    BY <2>2
<1> HIDE DEF memory
<1>5. \E id \in ids : id \notin Known
  <2> SUFFICES ASSUME \A id \in ids : id \in Known
               PROVE  FALSE
    OBVIOUS
  <2>1. \A k \in 0 .. n : \E r \in Runs : <<path, idx, k>> \in memory(r)
    BY <1>2, <1>3
  <2> DEFINE who == [k \in 0 .. n |-> CHOOSE r \in Runs : <<path, idx, k>> \in memory(r)]
  <2>2. \A k \in 0 .. n : who[k] \in Runs /\ <<path, idx, k>> \in memory(who[k])
    BY <2>1
  <2>3. who \in [0 .. n -> Runs]
    BY <2>2
  <2>4. IsFiniteSet(0 .. n) /\ Cardinality(0 .. n) = n + 1
    BY <1>1, FS_Interval
  <2>5. n < Cardinality(0 .. n)
    BY <1>1, <2>4
  <2> HIDE DEF who, ids
  <2>6. \E k, l \in 0 .. n : k # l /\ who[k] = who[l]
    BY <1>1, <2>3, <2>4, <2>5, FS_PigeonHole
  <2> QED
    BY <1>4, <2>2, <2>6
<1>6. NewId(row) \in ids
  <2>1. NewId(row) = CHOOSE id \in ids : id \notin Known
    BY DEF NewId
  <2> HIDE DEF ids
  <2> QED
    BY <1>5, <2>1
<1> QED
  BY <1>6 DEF IdFor

-----------------------------------------------------------------------------
(* Steps. *)

SessionOKAt(s) == SessionTyped(s) /\ WritesTyped(s.inserts, s.updates, s.deletes, s.pos)

LEMMA NothingNoted == ASSUME NEW pos PROVE WritesTyped({}, {}, {}, pos)
BY DEF WritesTyped, Remembered

LEMMA FreshSession ==
  ASSUME NEW at \in Places, NEW model, NEW reingest, NEW pos \in Nat,
         at # "reconcile", at \notin Ended => pos > 0 /\ model \in Models
  PROVE  SessionOKAt([Idle EXCEPT !.at = at, !.model = model, !.reingest = reingest, !.pos = pos])
<1> DEFINE s == [Idle EXCEPT !.at = at, !.model = model, !.reingest = reingest, !.pos = pos]
<1>1. /\ DOMAIN s = Fields /\ s.at = at /\ s.model = model /\ s.pos = pos
      /\ s.inserts = {} /\ s.updates = {} /\ s.deletes = {}
  BY DEF Idle, Fields
<1> HIDE DEF s
<1>2. SessionTyped(s)
  BY <1>1 DEF SessionTyped
<1>3. SessionOKAt(s)
  BY <1>1, <1>2, NothingNoted DEF SessionOKAt
<1> QED
  BY <1>3 DEF s

LEMMA IdleSession ==
  ASSUME NEW at \in Ended
  PROVE  SessionOKAt([Idle EXCEPT !.at = at])
<1> DEFINE s == [Idle EXCEPT !.at = at]
<1>1. /\ DOMAIN s = Fields /\ s.at = at /\ s.pos = 0
      /\ s.inserts = {} /\ s.updates = {} /\ s.deletes = {}
  BY DEF Idle, Fields
<1> HIDE DEF s
<1>2. SessionTyped(s)
  BY <1>1 DEF SessionTyped, Places, Ended
<1>3. SessionOKAt(s)
  BY <1>1, <1>2, NothingNoted DEF SessionOKAt
<1> QED
  BY <1>3 DEF s

\* what others do leaves a session as it was, but for the history
LEMMA DisturbedSession ==
  ASSUME NEW others, TableInv, NEW r \in Runs
  PROVE  /\ Disturb(others)[r] = [run[r] EXCEPT !.disturbed = @ \/ (r \in others /\ Underway(r))]
         /\ \A f \in Fields \ {"disturbed"} : Disturb(others)[r][f] = run[r][f]
         /\ DOMAIN Disturb(others)[r] = Fields
         /\ SessionOKAt(Disturb(others)[r])
<1> DEFINE s == Disturb(others)[r]
<1>1. DOMAIN run[r] = Fields /\ SessionTyped(run[r])
      /\ WritesTyped(run[r].inserts, run[r].updates, run[r].deletes, run[r].pos)
  BY DEF TableInv, SessionTyped
<1>2. s = [run[r] EXCEPT !.disturbed = @ \/ (r \in others /\ Underway(r))]
  BY DEF Disturb
<1>3. DOMAIN s = Fields /\ \A f \in Fields \ {"disturbed"} : s[f] = run[r][f]
  BY <1>1, <1>2 DEF Fields
<1> HIDE DEF s
<1>4. /\ s.at = run[r].at /\ s.pos = run[r].pos /\ s.model = run[r].model /\ s.chunks = run[r].chunks
      /\ s.inserts = run[r].inserts /\ s.updates = run[r].updates /\ s.deletes = run[r].deletes
  BY <1>3 DEF Fields
<1>5. SessionOKAt(s)
  BY <1>1, <1>3, <1>4 DEF SessionOKAt, SessionTyped
<1> QED
  BY <1>2, <1>3, <1>5 DEF s

\* One session has become s, the others are as before, or disturbed.
LEMMA SessionsKept ==
  ASSUME TableInv, NEW r \in Runs, NEW s, SessionOKAt(s), NEW others,
         run' = [run EXCEPT ![r] = s] \/ run' = [Disturb(others) EXCEPT ![r] = s]
  PROVE  /\ DOMAIN run' = Runs
         /\ \A x \in Runs : /\ SessionTyped(run'[x])
                            /\ WritesTyped(run'[x].inserts, run'[x].updates,
                                           run'[x].deletes, run'[x].pos)
<1>1. DOMAIN run = Runs /\ DOMAIN Disturb(others) = Runs
  BY DEF TableInv, Disturb
<1>2. ASSUME NEW x \in Runs PROVE SessionOKAt(run'[x])
  <2>1. CASE x = r
    BY <1>1, <2>1
  <2>2. CASE x # r /\ run' = [run EXCEPT ![r] = s]
    <3>1. run'[x] = run[x]
      BY <1>1, <2>2
    <3> QED
      BY <3>1 DEF TableInv, SessionOKAt
  <2>3. CASE x # r /\ run' = [Disturb(others) EXCEPT ![r] = s]
    <3>1. run'[x] = Disturb(others)[x]
      BY <1>1, <2>3
    <3> QED
      BY <3>1, DisturbedSession
  <2> QED
    BY <2>1, <2>2, <2>3
<1> QED
  BY <1>1, <1>2 DEF SessionOKAt

LEMMA OfSession ==
  ASSUME TableInv, NEW r \in Runs
  PROVE  /\ DOMAIN run[r] = Fields /\ SessionOKAt(run[r])
         /\ run[r].pos \in Nat
         /\ Underway(r) => run[r].pos > 0 /\ run[r].model \in Models
BY DEF TableInv, SessionOKAt, SessionTyped, Underway, Ended

LEMMA EditKeepsTable ==
  ASSUME TableInv, NEW path \in Paths, Edit(path) PROVE TableInv'
<1>1. rows' = rows /\ starts' = starts /\ edits' = edits + 1 /\ edits < MaxEdits /\ run' = Disturb(Runs)
  BY DEF Edit
<1>2. DOMAIN run' = Runs /\ \A x \in Runs : SessionOKAt(run'[x])
  <2>1. DOMAIN Disturb(Runs) = Runs /\ \A x \in Runs : SessionOKAt(Disturb(Runs)[x])
    BY DisturbedSession DEF Disturb
  <2> QED
    BY <1>1, <2>1
<1> QED
  BY <1>1, <1>2, IngestionAssumption DEF TableInv, SessionOKAt

LEMMA StartKeepsTable ==
  ASSUME TableInv, NEW r \in Runs, NEW model \in Models, NEW reingest \in BOOLEAN,
         Start(r, model, reingest)
  PROVE  TableInv'
<1> DEFINE at == IF reingest THEN "purge" ELSE "read"
           s == [Idle EXCEPT !.at = at, !.model = model, !.reingest = reingest, !.pos = 1]
<1>1. /\ rows' = rows /\ starts' = starts + 1 /\ starts < MaxStarts /\ edits' = edits
      /\ run' = [run EXCEPT ![r] = s]
  BY DEF Start
<1>2. at \in {"purge", "read"}
  OBVIOUS
<1> HIDE DEF at
<1>3. SessionOKAt(s)
  <2>1. /\ at \in Places /\ at # "reconcile" /\ 1 \in Nat
        /\ at \notin Ended => 1 > 0 /\ model \in Models
    BY <1>2 DEF Places, Ended
  <2> QED
    BY <2>1, FreshSession
<1> HIDE DEF s
<1>4. /\ DOMAIN run' = Runs
      /\ \A x \in Runs : /\ SessionTyped(run'[x])
                         /\ WritesTyped(run'[x].inserts, run'[x].updates, run'[x].deletes, run'[x].pos)
  BY <1>1, <1>3, SessionsKept
<1> QED
  BY <1>1, <1>4, IngestionAssumption DEF TableInv

LEMMA PurgeKeepsTable ==
  ASSUME TableInv, NEW r \in Runs, Purge(r) PROVE TableInv'
<1> DEFINE before == Disturb(Runs \ {r})[r]
           s == [before EXCEPT !.at = "read"]
<1>1. /\ rows' = {} /\ starts' = starts /\ edits' = edits /\ run[r].at = "purge"
      /\ run' = [Disturb(Runs \ {r}) EXCEPT ![r] = s]
  BY DEF Purge
<1>2. DOMAIN before = Fields /\ SessionOKAt(before) /\ before.at = "purge"
  <2>1. DOMAIN before = Fields /\ SessionOKAt(before)
        /\ \A f \in Fields \ {"disturbed"} : before[f] = run[r][f]
    BY DisturbedSession
  <2>2. "at" \in Fields \ {"disturbed"}
    BY DEF Fields
  <2> HIDE DEF before
  <2>3. before["at"] = run[r]["at"]
    BY <2>1, <2>2
  <2> QED
    BY <1>1, <2>1, <2>3
<1> HIDE DEF before
<1>3. /\ DOMAIN s = Fields /\ s.at = "read" /\ s.pos = before.pos /\ s.model = before.model
      /\ s.inserts = before.inserts /\ s.updates = before.updates /\ s.deletes = before.deletes
  BY <1>2 DEF Fields
<1> HIDE DEF s
<1>4. SessionOKAt(s)
  BY <1>2, <1>3 DEF SessionOKAt, SessionTyped, Places, Ended
<1>5. /\ DOMAIN run' = Runs
      /\ \A x \in Runs : /\ SessionTyped(run'[x])
                         /\ WritesTyped(run'[x].inserts, run'[x].updates, run'[x].deletes, run'[x].pos)
  BY <1>1, <1>4, SessionsKept
<1> QED
  BY <1>1, <1>5 DEF TableInv, RowsTyped

LEMMA ReadFileKeepsTable ==
  ASSUME TableInv, IsDisk(disk), NEW r \in Runs, ReadFile(r) PROVE TableInv'
<1> DEFINE path == Corpus[run[r].pos]
<1>1. run[r].at = "read" /\ rows' = rows /\ starts' = starts /\ edits' = edits
  BY DEF ReadFile
<1>2. /\ DOMAIN run[r] = Fields /\ SessionOKAt(run[r]) /\ run[r].pos \in Nat \ {0}
      /\ run[r].model \in Models
  BY <1>1, OfSession DEF Underway
<1>3. \E s : SessionOKAt(s) /\ run' = [run EXCEPT ![r] = s]
  <2>1. CASE run[r].pos > Len(Corpus)
    <3> DEFINE s == [run[r] EXCEPT !.at = "commit"]
    <3>1. run' = [run EXCEPT ![r] = s]
      BY <2>1 DEF ReadFile
    <3>2. /\ DOMAIN s = Fields /\ s.at = "commit" /\ s.pos = run[r].pos /\ s.model = run[r].model
          /\ s.inserts = run[r].inserts /\ s.updates = run[r].updates /\ s.deletes = run[r].deletes
      BY <1>2 DEF Fields
    <3> HIDE DEF s
    <3>3. SessionOKAt(s)
      BY <1>2, <3>2 DEF SessionOKAt, SessionTyped, Places
    <3> QED
      BY <3>1, <3>3
  <2>2. CASE ~ (run[r].pos > Len(Corpus)) /\ (disk[path] = None \/ doc_type_for[path] = None)
    <3> DEFINE s == [run[r] EXCEPT !.pos = run[r].pos + 1]
    <3>1. run' = [run EXCEPT ![r] = s]
      BY <2>2 DEF ReadFile
    <3>2. /\ DOMAIN s = Fields /\ s.at = "read" /\ s.pos = run[r].pos + 1 /\ s.model = run[r].model
          /\ s.inserts = run[r].inserts /\ s.updates = run[r].updates /\ s.deletes = run[r].deletes
      BY <1>1, <1>2 DEF Fields
    <3> HIDE DEF s
    <3>3. \A p : Rank(p, run[r].pos) => Rank(p, s.pos)
      BY <1>2, <3>2 DEF Rank
    <3>4. WritesTyped(s.inserts, s.updates, s.deletes, s.pos)
      BY <1>2, <3>2, <3>3 DEF SessionOKAt, WritesTyped, UpdateOK
    <3>5. SessionTyped(s)
      BY <1>2, <3>2 DEF SessionOKAt, SessionTyped, Places
    <3> QED
      BY <3>1, <3>4, <3>5 DEF SessionOKAt
  <2>3. CASE ~ (run[r].pos > Len(Corpus)) /\ ~ (disk[path] = None \/ doc_type_for[path] = None)
    <3> DEFINE chunks == Chunks(path, disk[path])
               s == [run[r] EXCEPT !.at = "reconcile", !.chunks = chunks]
    <3>1. run' = [run EXCEPT ![r] = s]
      BY <2>3 DEF ReadFile
    <3>2. Len(Corpus) \in Nat /\ DOMAIN Corpus = 1 .. Len(Corpus)
      BY IngestionAssumption
    <3>3. run[r].pos \in DOMAIN Corpus /\ path \in Paths
      BY <1>2, <2>3, <3>2 DEF Paths, Range
    <3>4. disk[path].lines \in Seq(STRING)
      BY <2>3, <3>3 DEF IsDisk, IsFileOrNone
    <3>5. ChunksOK(chunks)
      BY <3>4, ChunksAreOK
    <3> HIDE DEF chunks, path
    <3>6. /\ DOMAIN s = Fields /\ s.at = "reconcile" /\ s.pos = run[r].pos /\ s.model = run[r].model
          /\ s.inserts = run[r].inserts /\ s.updates = run[r].updates /\ s.deletes = run[r].deletes
          /\ s.chunks = chunks
      BY <1>2 DEF Fields
    <3> HIDE DEF s
    <3>7. SessionOKAt(s)
      BY <1>2, <3>3, <3>5, <3>6 DEF SessionOKAt, SessionTyped, Places
    <3> QED
      BY <3>1, <3>7
  <2> QED
    BY <2>1, <2>2, <2>3
<1>4. /\ DOMAIN run' = Runs
      /\ \A x \in Runs : /\ SessionTyped(run'[x])
                         /\ WritesTyped(run'[x].inserts, run'[x].updates, run'[x].deletes, run'[x].pos)
  BY <1>3, SessionsKept
<1> QED
  BY <1>1, <1>4 DEF TableInv

-----------------------------------------------------------------------------
(* What reconciling one file adds to what a session has noted. *)

New(path, chunks, table) ==
  IndexesOf(chunks) \ {row.chunk_index : row \in {x \in table : x.file_path = path}}
Changed(path, chunks, table) ==
  {row \in {x \in table : x.file_path = path} :
     row.chunk_index \in IndexesOf(chunks) /\ ~ Unchanged(row, chunks)}

NewInserts(path, chunks, model, table) ==
  {RowFor(None, path, i, chunks[i + 1], model) : i \in New(path, chunks, table)}
NewUpdates(path, chunks, model, table) ==
  {[old |-> row, new |-> NewVersion(row, chunks[row.chunk_index + 1], model)] :
     row \in Changed(path, chunks, table)}
NewDeletes(path, chunks, table) ==
  {row.id : row \in {x \in {y \in table : y.file_path = path} : Stale(x, chunks)}}

Reconciled(s, table) ==
  [s EXCEPT !.at = "read", !.pos = s.pos + 1, !.chunks = <<>>,
     !.inserts = s.inserts \cup NewInserts(Corpus[s.pos], s.chunks, s.model, table),
     !.updates = s.updates \cup NewUpdates(Corpus[s.pos], s.chunks, s.model, table),
     !.deletes = s.deletes \cup NewDeletes(Corpus[s.pos], s.chunks, table)]

LEMMA ReconcileIs ==
  ASSUME NEW r \in Runs, Reconcile(r)
  PROVE  /\ run[r].at = "reconcile"
         /\ run' = [run EXCEPT ![r] = Reconciled(run[r], rows)]
         /\ rows' = rows /\ disk' = disk /\ starts' = starts /\ edits' = edits
BY DEF Reconcile, Reconciled, NewInserts, NewUpdates, NewDeletes, New, Changed, Existing

LEMMA ReconciledFields ==
  ASSUME NEW s, DOMAIN s = Fields, NEW table
  PROVE  /\ DOMAIN Reconciled(s, table) = Fields
         /\ Reconciled(s, table).at = "read" /\ Reconciled(s, table).pos = s.pos + 1
         /\ Reconciled(s, table).model = s.model /\ Reconciled(s, table).reingest = s.reingest
         /\ Reconciled(s, table).disturbed = s.disturbed
         /\ Reconciled(s, table).inserts =
              s.inserts \cup NewInserts(Corpus[s.pos], s.chunks, s.model, table)
         /\ Reconciled(s, table).updates =
              s.updates \cup NewUpdates(Corpus[s.pos], s.chunks, s.model, table)
         /\ Reconciled(s, table).deletes =
              s.deletes \cup NewDeletes(Corpus[s.pos], s.chunks, table)
BY DEF Reconciled, Fields

LEMMA NewInsertsAre ==
  ASSUME NEW path \in Paths, NEW chunks, ChunksOK(chunks), NEW model \in Models, NEW table
  PROVE  \A row \in NewInserts(path, chunks, model, table) :
           /\ RowOK(row) /\ row["file_path"] = path
           /\ row["chunk_index"] \in New(path, chunks, table)
           /\ row = RowFor(None, path, row["chunk_index"], chunks[row["chunk_index"] + 1], model)
           /\ row["content"] = chunks[row["chunk_index"] + 1].content
           /\ row["embedding"].model = model
<1> SUFFICES ASSUME NEW i \in New(path, chunks, table)
             PROVE  LET row == RowFor(None, path, i, chunks[i + 1], model)
                    IN /\ RowOK(row) /\ row["file_path"] = path /\ row["chunk_index"] = i
                       /\ row["content"] = chunks[i + 1].content /\ row["embedding"].model = model
  BY DEF NewInserts
<1>1. i \in Nat /\ i \in IndexesOf(chunks)
  BY DEF New, IndexesOf
<1>2. chunks[i + 1].start_line \in Nat \ {0} /\ chunks[i + 1].end_line \in Nat \ {0}
  BY <1>1 DEF ChunksOK
<1> QED
  BY <1>1, <1>2, RowForOK

LEMMA NewUpdatesAre ==
  ASSUME NEW path \in Paths, NEW chunks, ChunksOK(chunks), NEW model \in Models, NEW table,
         RowsTyped(table)
  PROVE  \A u \in NewUpdates(path, chunks, model, table) :
           /\ u.old \in Changed(path, chunks, table)
           /\ RowOK(u.old) /\ IdOK(u.old) /\ RowOK(u.new)
           /\ u.new["id"] = u.old["id"] /\ Key(u.new) = Key(u.old)
           /\ u.old["file_path"] = path
           /\ u.new["content"] = chunks[u.old["chunk_index"] + 1].content
<1> SUFFICES ASSUME NEW row \in Changed(path, chunks, table)
             PROVE  LET new == NewVersion(row, chunks[row.chunk_index + 1], model)
                    IN /\ RowOK(row) /\ IdOK(row) /\ RowOK(new)
                       /\ new["id"] = row["id"] /\ Key(new) = Key(row) /\ row["file_path"] = path
                       /\ new["content"] = chunks[row["chunk_index"] + 1].content
  BY DEF NewUpdates
<1>1. row \in table /\ row["file_path"] = path /\ row["chunk_index"] \in IndexesOf(chunks)
  BY DEF Changed
<1>2. RowOK(row) /\ IdOK(row)
  BY <1>1 DEF RowsTyped
<1> DEFINE k == row["chunk_index"]
           chunk == chunks[k + 1]
<1>3. k \in Nat /\ chunk.start_line \in Nat \ {0} /\ chunk.end_line \in Nat \ {0}
  BY <1>1, <1>2 DEF ChunksOK, RowOK
<1>4. NewVersion(row, chunk, model) = RowFor(row["id"], path, k, chunk, model)
  BY <1>1 DEF NewVersion
<1>5. Key(row) = <<path, k>>
  BY <1>1 DEF Key
<1> HIDE DEF chunk
<1>6. LET new == RowFor(row["id"], path, k, chunk, model)
      IN /\ RowOK(new) /\ new["id"] = row["id"] /\ Key(new) = <<path, k>>
         /\ new["content"] = chunk.content
  BY <1>3, RowForOK
<1> QED
  BY <1>1, <1>2, <1>4, <1>5, <1>6 DEF chunk

LEMMA RankGrows ==
  ASSUME NEW pos \in Nat, NEW path
  PROVE  /\ Rank(path, pos) => Rank(path, pos + 1)
         /\ pos \in DOMAIN Corpus /\ pos > 0 => Rank(Corpus[pos], pos + 1) /\ ~ Rank(Corpus[pos], pos)
         /\ Rank(path, pos + 1) => Rank(path, pos) \/ (pos \in DOMAIN Corpus /\ path = Corpus[pos])
BY IngestionAssumption DEF Rank

LEMMA RememberedAre ==
  ASSUME NEW inserts, NEW updates, NEW deletes, NEW pos, WritesTyped(inserts, updates, deletes, pos)
  PROVE  \A id \in Remembered(updates, deletes) : \E path, k : Rank(path, pos) /\ IdFor(id, path, k)
<1>1. ASSUME NEW u \in updates
      PROVE  Rank(u.old["file_path"], pos) /\ IdFor(u.old["id"], u.old["file_path"], u.old["chunk_index"])
  BY DEF WritesTyped, UpdateOK, IdOK
<1> QED
  BY <1>1 DEF WritesTyped, Remembered

LEMMA ReconciledWrites ==
  ASSUME NEW table, RowsTyped(table), NEW inserts, NEW updates, NEW deletes, NEW pos \in Nat,
         WritesTyped(inserts, updates, deletes, pos), pos \in DOMAIN Corpus, pos > 0,
         NEW chunks, ChunksOK(chunks), NEW model \in Models
  PROVE  WritesTyped(inserts \cup NewInserts(Corpus[pos], chunks, model, table),
                     updates \cup NewUpdates(Corpus[pos], chunks, model, table),
                     deletes \cup NewDeletes(Corpus[pos], chunks, table), pos + 1)
<1> DEFINE path == Corpus[pos]
           added == NewInserts(path, chunks, model, table)
           updated == NewUpdates(path, chunks, model, table)
           deleted == NewDeletes(path, chunks, table)
<1>1. path \in Paths
  BY DEF Paths, Range
<1>2. /\ \A p : Rank(p, pos) => Rank(p, pos + 1)
      /\ Rank(path, pos + 1) /\ ~ Rank(path, pos)
  BY RankGrows
<1>3. \A row \in added : RowOK(row) /\ row["file_path"] = path
        /\ row = RowFor(None, path, row["chunk_index"], chunks[row["chunk_index"] + 1], model)
  <2> HIDE DEF path
  <2> QED
    BY <1>1, NewInsertsAre
<1>4. \A u \in updated : /\ u.old \in table /\ RowOK(u.old) /\ IdOK(u.old) /\ RowOK(u.new)
                         /\ u.new["id"] = u.old["id"] /\ Key(u.new) = Key(u.old)
                         /\ u.old["file_path"] = path
  <2> HIDE DEF path
  <2>1. \A u \in updated :
           /\ u.old \in Changed(path, chunks, table)
           /\ RowOK(u.old) /\ IdOK(u.old) /\ RowOK(u.new)
           /\ u.new["id"] = u.old["id"] /\ Key(u.new) = Key(u.old)
           /\ u.old["file_path"] = path
    BY <1>1, NewUpdatesAre
  <2> HIDE DEF updated
  <2> QED
    BY <2>1 DEF Changed
<1>5. \A id \in deleted : \E row \in table : id = row["id"] /\ row["file_path"] = path
  BY DEF NewDeletes
<1> HIDE DEF path, added, updated, deleted
<1>6. \A row \in table : RowOK(row) /\ IdOK(row)
  BY DEF RowsTyped
<1>7. \A new \in inserts \cup added : RowOK(new) /\ Rank(new["file_path"], pos + 1)
  BY <1>2, <1>3 DEF WritesTyped
<1>8. \A a, b \in inserts \cup added : Key(a) = Key(b) => a = b
  <2> SUFFICES ASSUME NEW a \in inserts \cup added, NEW b \in inserts \cup added, Key(a) = Key(b)
               PROVE  a = b
    OBVIOUS
  <2>1. a["file_path"] = b["file_path"] /\ a["chunk_index"] = b["chunk_index"]
    BY DEF Key
  <2>2. a \in inserts \ added => a["file_path"] # path
    BY <1>2 DEF WritesTyped
  <2>3. b \in inserts \ added => b["file_path"] # path
    BY <1>2 DEF WritesTyped
  <2>4. CASE a \in added /\ b \in added
    BY <1>3, <2>1, <2>4
  <2>5. CASE a \in inserts /\ b \in inserts
    BY <2>5 DEF WritesTyped
  <2> QED
    BY <1>3, <2>1, <2>2, <2>3, <2>4, <2>5
<1>9. \A u \in updates \cup updated : UpdateOK(u, pos + 1)
  BY <1>2, <1>4 DEF WritesTyped, UpdateOK
<1>10. \A id \in deleted : \E p, k : Rank(p, pos + 1) /\ IdFor(id, p, k)
  BY <1>2, <1>5, <1>6 DEF IdOK
<1>11. \A id \in deletes : \E p, k : Rank(p, pos + 1) /\ IdFor(id, p, k)
  BY <1>2 DEF WritesTyped
<1> DEFINE old == Remembered(updates, deletes)
           more == Remembered(updated, deleted)
<1>12. Remembered(updates \cup updated, deletes \cup deleted) = old \cup more
  BY DEF Remembered
<1>13. \A id \in old : \E p, k : Rank(p, pos) /\ IdFor(id, p, k)
  BY RememberedAre
<1>14. \A id \in more : \E row \in table : id = row["id"] /\ row["file_path"] = path
  BY <1>4, <1>5 DEF Remembered
<1>15. \A x, y \in old : x[1] = y[1] /\ x[2] = y[2] => x = y
  BY DEF WritesTyped
<1> HIDE DEF old, more
<1>16. \A x \in old : \A y \in more : x[1] # y[1]
  <2> SUFFICES ASSUME NEW x \in old, NEW y \in more PROVE x[1] # y[1]
    OBVIOUS
  <2>1. PICK p, k : Rank(p, pos) /\ IdFor(x, p, k)
    BY <1>13
  <2>2. PICK row \in table : y = row["id"] /\ row["file_path"] = path
    BY <1>14
  <2>3. IdFor(y, path, row["chunk_index"])
    BY <1>6, <2>2 DEF IdOK
  <2>4. x[1] = p /\ y[1] = path
    BY <2>1, <2>3, IdsDiffer
  <2> QED
    BY <1>2, <2>1, <2>4
<1>17. \A x, y \in more : x[2] = y[2] => x = y
  <2> SUFFICES ASSUME NEW x \in more, NEW y \in more, x[2] = y[2] PROVE x = y
    OBVIOUS
  <2>1. PICK a \in table : x = a["id"] /\ a["file_path"] = path
    BY <1>14
  <2>2. PICK b \in table : y = b["id"] /\ b["file_path"] = path
    BY <1>14
  <2>3. IdFor(x, path, a["chunk_index"]) /\ IdFor(y, path, b["chunk_index"])
    BY <1>6, <2>1, <2>2 DEF IdOK
  <2>4. x[2] = a["chunk_index"] /\ y[2] = b["chunk_index"]
    BY <2>3, IdsDiffer
  <2>5. Key(a) = Key(b)
    BY <2>1, <2>2, <2>4 DEF Key
  <2> QED
    BY <2>1, <2>2, <2>5 DEF RowsTyped
<1>18. \A x, y \in old \cup more : x[1] = y[1] /\ x[2] = y[2] => x = y
  BY <1>15, <1>16, <1>17
<1>19. WritesTyped(inserts \cup added, updates \cup updated, deletes \cup deleted, pos + 1)
  BY <1>7, <1>8, <1>9, <1>10, <1>11, <1>12, <1>18 DEF WritesTyped
<1> QED
  BY <1>19 DEF path, added, updated, deleted

LEMMA ReconcileKeepsTable ==
  ASSUME TableInv, NEW r \in Runs, Reconcile(r) PROVE TableInv'
<1> DEFINE s == run[r]
           t == Reconciled(s, rows)
<1>1. /\ s.at = "reconcile" /\ run' = [run EXCEPT ![r] = t]
      /\ rows' = rows /\ starts' = starts /\ edits' = edits
  BY ReconcileIs
<1>2. /\ DOMAIN s = Fields /\ SessionOKAt(s) /\ s.pos \in Nat /\ s.pos > 0 /\ s.model \in Models
  BY <1>1, OfSession DEF Underway
<1>3. s.pos \in DOMAIN Corpus /\ ChunksOK(s.chunks)
      /\ WritesTyped(s.inserts, s.updates, s.deletes, s.pos) /\ RowsTyped(rows)
  BY <1>1, <1>2 DEF SessionOKAt, SessionTyped, TableInv
<1> HIDE DEF s
<1>4. WritesTyped(s.inserts \cup NewInserts(Corpus[s.pos], s.chunks, s.model, rows),
                  s.updates \cup NewUpdates(Corpus[s.pos], s.chunks, s.model, rows),
                  s.deletes \cup NewDeletes(Corpus[s.pos], s.chunks, rows), s.pos + 1)
  BY <1>2, <1>3, ReconciledWrites
<1>5. DOMAIN t = Fields /\ t.at = "read" /\ t.pos = s.pos + 1 /\ t.model = s.model
      /\ WritesTyped(t.inserts, t.updates, t.deletes, t.pos)
  BY <1>2, <1>4, ReconciledFields
<1> HIDE DEF t
<1>6. SessionOKAt(t)
  BY <1>2, <1>5 DEF SessionOKAt, SessionTyped, Places
<1>7. /\ DOMAIN run' = Runs
      /\ \A x \in Runs : /\ SessionTyped(run'[x])
                         /\ WritesTyped(run'[x].inserts, run'[x].updates, run'[x].deletes, run'[x].pos)
  BY <1>1, <1>6, SessionsKept
<1> QED
  BY <1>1, <1>7 DEF TableInv

-----------------------------------------------------------------------------
(* The end of a run. *)

Inserted(new) == [new EXCEPT !.id = NewId(new)]

LEMMA WrittenIs ==
  ASSUME NEW r, NEW row \in Written(r)
  PROVE  \/ \E x \in rows : x.id \notin run[r].deletes /\ row = Flushed(x, run[r].updates)
         \/ \E new \in run[r].inserts : row = Inserted(new)
BY DEF Written, Inserted

LEMMA InsertedIs ==
  ASSUME NEW new, RowOK(new)
  PROVE  /\ RowOK(Inserted(new)) /\ Inserted(new)["id"] = NewId(new)
         /\ Key(Inserted(new)) = Key(new)
         /\ Inserted(new)["file_path"] = new["file_path"]
         /\ Inserted(new)["chunk_index"] = new["chunk_index"]
         /\ Inserted(new)["content"] = new["content"]
         /\ Inserted(new)["embedding"] = new["embedding"]
BY DEF Inserted, RowOK, Columns, Key

\* The unique constraint holds of what a run writes without an error.
LEMMA WrittenTyped ==
  ASSUME TableInv, NEW r \in Runs, ~ InsertConflicts(r)
  PROVE  RowsTyped(Written(r))
<1> DEFINE updates == run[r].updates
           inserts == run[r].inserts
<1>1. /\ \A x \in rows : RowOK(x) /\ IdOK(x)
      /\ \A a, b \in rows : Key(a) = Key(b) => a = b
  BY DEF TableInv, RowsTyped
<1>2. /\ \A new \in inserts : RowOK(new)
      /\ \A a, b \in inserts : Key(a) = Key(b) => a = b
      /\ \A u \in updates : UpdateOK(u, run[r].pos)
  BY DEF TableInv, WritesTyped
<1>3. \A new \in inserts : \A x \in rows : Key(x) # Key(new)
  BY DEF InsertConflicts
<1>4. \A row \in Written(r) :
        \/ \E x \in rows : row = Flushed(x, updates)
        \/ \E new \in inserts : row = Inserted(new)
  BY WrittenIs
<1> HIDE DEF updates, inserts
<1>5. ASSUME NEW x \in rows
      PROVE  /\ RowOK(Flushed(x, updates)) /\ IdOK(Flushed(x, updates))
             /\ Key(Flushed(x, updates)) = Key(x)
  <2>1. RowOK(x) /\ IdOK(x)
    BY <1>1
  <2>2. /\ RowOK(Flushed(x, updates))
        /\ Flushed(x, updates)["id"] = x["id"]
        /\ Flushed(x, updates)["file_path"] = x["file_path"]
        /\ Flushed(x, updates)["chunk_index"] = x["chunk_index"]
    BY <1>2, <2>1, FlushedOK
  <2> QED
    BY <2>1, <2>2 DEF IdOK, Key
<1>6. ASSUME NEW new \in inserts
      PROVE  RowOK(Inserted(new)) /\ IdOK(Inserted(new)) /\ Key(Inserted(new)) = Key(new)
  <2>1. IdFor(NewId(new), new["file_path"], new["chunk_index"])
    BY <1>3, NewIdIsFree
  <2> QED
    BY <1>2, <2>1, InsertedIs DEF IdOK
<1>7. \A row \in Written(r) : RowOK(row) /\ IdOK(row)
  BY <1>4, <1>5, <1>6
<1>8. ASSUME NEW a \in Written(r), NEW b \in Written(r), Key(a) = Key(b)
      PROVE  a = b
  <2>1. CASE \E x, y \in rows : a = Flushed(x, updates) /\ b = Flushed(y, updates)
    BY <1>1, <1>5, <1>8, <2>1
  <2>2. CASE \E x, y \in inserts : a = Inserted(x) /\ b = Inserted(y)
    BY <1>2, <1>6, <1>8, <2>2
  <2>3. CASE \E x \in rows, y \in inserts : a = Flushed(x, updates) /\ b = Inserted(y)
    BY <1>3, <1>5, <1>6, <1>8, <2>3
  <2>4. CASE \E x \in inserts, y \in rows : a = Inserted(x) /\ b = Flushed(y, updates)
    BY <1>3, <1>5, <1>6, <1>8, <2>4
  <2> QED
    BY <1>4, <2>1, <2>2, <2>3, <2>4
<1> QED
  BY <1>7, <1>8 DEF RowsTyped

LEMMA CommitKeepsTable ==
  ASSUME TableInv, NEW r \in Runs, Commit(r) PROVE TableInv'
<1> DEFINE s == [Idle EXCEPT !.at = "done"]
<1>1. SessionOKAt(s)
  BY IdleSession DEF Ended
<1>2. /\ rows' = Written(r) /\ ~ InsertConflicts(r) /\ starts' = starts /\ edits' = edits
      /\ run' = [run EXCEPT ![r] = s] \/ run' = [Disturb(Runs \ {r}) EXCEPT ![r] = s]
  BY DEF Commit
<1> HIDE DEF s
<1>3. /\ DOMAIN run' = Runs
      /\ \A x \in Runs : /\ SessionTyped(run'[x])
                         /\ WritesTyped(run'[x].inserts, run'[x].updates, run'[x].deletes, run'[x].pos)
  BY <1>1, <1>2, SessionsKept
<1>4. RowsTyped(Written(r))
  BY <1>2, WrittenTyped
<1>5. RowsTyped(rows')
  BY <1>2, <1>4
<1> QED
  BY <1>2, <1>3, <1>5 DEF TableInv

LEMMA FailureKeepsTable ==
  ASSUME TableInv, NEW r \in Runs, CommitFails(r) \/ Rollback(r) PROVE TableInv'
<1> DEFINE s == [Idle EXCEPT !.at = "failed"]
<1>1. SessionOKAt(s)
  BY IdleSession DEF Ended
<1>2. /\ rows' = rows /\ starts' = starts /\ edits' = edits /\ run' = [run EXCEPT ![r] = s]
  BY DEF CommitFails, Rollback
<1> HIDE DEF s
<1>3. /\ DOMAIN run' = Runs
      /\ \A x \in Runs : /\ SessionTyped(run'[x])
                         /\ WritesTyped(run'[x].inserts, run'[x].updates, run'[x].deletes, run'[x].pos)
  BY <1>1, <1>2, SessionsKept
<1> QED
  BY <1>2, <1>3 DEF TableInv

LEMMA TableInvariant == Spec => []TableInv
<1>1. Init => TableInv
  <2> SUFFICES ASSUME Init PROVE TableInv
    OBVIOUS
  <2>1. SessionOKAt(Idle)
    <3>1. /\ DOMAIN Idle = Fields /\ Idle.at = "idle" /\ Idle.pos = 0
          /\ Idle.inserts = {} /\ Idle.updates = {} /\ Idle.deletes = {}
      BY DEF Idle, Fields
    <3>2. SessionTyped(Idle)
      BY <3>1 DEF SessionTyped, Places, Ended
    <3> QED
      BY <3>1, <3>2, NothingNoted DEF SessionOKAt
  <2>2. RowsTyped(rows)
    BY DEF Init, RowsTyped
  <2>3. DOMAIN run = Runs /\ \A r \in Runs : run[r] = Idle
    BY DEF Init
  <2> QED
    BY <2>1, <2>2, <2>3, IngestionAssumption DEF Init, TableInv, SessionOKAt
<1>2. IsDisk(disk) /\ TableInv /\ [Next]_vars => TableInv'
  <2> SUFFICES ASSUME IsDisk(disk), TableInv, [Next]_vars PROVE TableInv'
    OBVIOUS
  <2>1. CASE UNCHANGED vars
    BY <2>1 DEF vars, TableInv
  <2>2. CASE Next
    BY <2>2, EditKeepsTable, StartKeepsTable, PurgeKeepsTable, ReadFileKeepsTable,
       ReconcileKeepsTable, CommitKeepsTable, FailureKeepsTable DEF Next
  <2> QED
    BY <2>1, <2>2
<1> QED
  BY <1>1, <1>2, DiskStaysDisk, PTL DEF Spec

LEMMA IdsAreUnique ==
  ASSUME NEW table, RowsTyped(table), NEW a \in table, NEW b \in table, a["id"] = b["id"]
  PROVE  a = b
<1>1. IdFor(a["id"], a["file_path"], a["chunk_index"])
      /\ IdFor(a["id"], b["file_path"], b["chunk_index"])
  BY DEF RowsTyped, IdOK
<1>2. a["file_path"] = b["file_path"] /\ a["chunk_index"] = b["chunk_index"]
  BY <1>1, IdsDiffer
<1>3. Key(a) = Key(b)
  BY <1>2 DEF Key
<1> QED
  BY <1>3 DEF RowsTyped

\* The table keeps its constraints, whatever runs overlap or fail: a row for a path and
\* an index, its own id, and every column of the right type.
THEOREM IngestionTypeCorrect == Spec => []TypeOK
<1>1. TableInv => TypeOK
  <2> SUFFICES ASSUME TableInv PROVE TypeOK
    OBVIOUS
  <2>1. \A row \in rows : RowOK(row)
    BY DEF TableInv, RowsTyped
  <2>2. \A row \in rows :
          /\ DOMAIN row = Columns /\ row.file_path \in Paths /\ row.chunk_index \in Nat
          /\ row.start_line \in Nat \ {0} /\ row.end_line \in Nat \ {0}
          /\ row.embedding.model \in Models
    BY <2>1 DEF RowOK
  <2>3. \A a, b \in rows : Key(a) = Key(b) \/ a.id = b.id => a = b
    <3>1. RowsTyped(rows)
      BY DEF TableInv
    <3>2. \A a, b \in rows : Key(a) = Key(b) => a = b
      BY <3>1 DEF RowsTyped
    <3>3. \A a, b \in rows : a["id"] = b["id"] => a = b
      BY <3>1, IdsAreUnique
    <3> QED
      BY <3>2, <3>3
  <2>4. \A r \in Runs :
          run[r].at \in {"idle", "purge", "read", "reconcile", "commit", "done", "failed"}
    BY DEF TableInv, SessionTyped, Places
  <2> QED
    BY <2>2, <2>3, <2>4 DEF TypeOK, TableInv
<1> QED
  BY <1>1, TableInvariant, PTL

-----------------------------------------------------------------------------
(* Steps of a run that nothing came across. *)

\* a run that has visited no file has noted nothing
LEMMA NothingIngested ==
  ASSUME NEW s, s.pos = 1, NEW d
  PROVE  Ingested(s, d) = {}
BY DEF Ingested, Rank

LEMMA FreshIsExact ==
  ASSUME NEW s, s.pos = 1, s.inserts = {}, s.updates = {}, s.deletes = {}, NEW table, NEW d,
         s.at # "reconcile", s.at # "commit", s.reingest => s.model = "fake",
         s.reingest /\ s.at # "purge" => table = {}
  PROVE  Exact(s, table, d)
<1>1. Ingested(s, d) = {}
  BY NothingIngested
<1>2. PlaceExact(s, table, d)
  BY DEF PlaceExact
<1>3. InsertsExact(s, table, d) /\ UpdatesExact(s, table, d) /\ DeletesExact(s, table, d)
  BY <1>1 DEF InsertsExact, UpdatesExact, DeletesExact
<1> QED
  BY <1>2, <1>3 DEF Exact

LEMMA UntouchedIsExact ==
  ASSUME ExactInv, NEW r \in Runs, run'[r] = run[r], rows' = rows, disk' = disk
  PROVE  Underway(r)' /\ ~ run'[r].disturbed => Exact(run'[r], rows', disk')
BY DEF ExactInv, Underway

\* Others are disturbed by what a step does, so that nothing is asked of them.
LEMMA DisturbedIsFree ==
  ASSUME TableInv, NEW others, NEW r \in others, r \in Runs, run'[r] = Disturb(others)[r]
  PROVE  ~ (Underway(r)' /\ ~ run'[r].disturbed)
<1>1. run'[r] = [run[r] EXCEPT !.disturbed = @ \/ (r \in others /\ Underway(r))]
  BY DisturbedSession
<1>2. DOMAIN run[r] = Fields
  BY OfSession
<1>3. run'[r].at = run[r].at /\ run'[r].disturbed = (run[r].disturbed \/ (r \in others /\ Underway(r)))
  BY <1>1, <1>2 DEF Fields
<1> QED
  BY <1>3 DEF Underway

LEMMA EditKeepsExact ==
  ASSUME TableInv, NEW path \in Paths, Edit(path) PROVE ExactInv'
<1>1. run' = Disturb(Runs)
  BY DEF Edit
<1>2. ASSUME NEW x \in Runs PROVE ~ (Underway(x)' /\ ~ run'[x].disturbed)
  <2>1. run'[x] = Disturb(Runs)[x]
    BY <1>1
  <2> DEFINE all == Runs
  <2>2. x \in all /\ run'[x] = Disturb(all)[x]
    BY <2>1
  <2> HIDE DEF all
  <2> QED
    BY <2>2, DisturbedIsFree
<1> QED
  BY <1>2 DEF ExactInv

LEMMA StartKeepsExact ==
  ASSUME TableInv, ExactInv, NEW r \in Runs, NEW model \in Models, NEW reingest \in BOOLEAN,
         Start(r, model, reingest)
  PROVE  ExactInv'
<1> DEFINE at == IF reingest THEN "purge" ELSE "read"
           s == [Idle EXCEPT !.at = at, !.model = model, !.reingest = reingest, !.pos = 1]
<1>1. /\ rows' = rows /\ disk' = disk /\ run' = [run EXCEPT ![r] = s] /\ (reingest => model = "fake")
  BY DEF Start
<1>2. DOMAIN run = Runs
  BY DEF TableInv
<1>3. /\ s.pos = 1 /\ s.inserts = {} /\ s.updates = {} /\ s.deletes = {}
      /\ s.at = at /\ s.model = model /\ s.reingest = reingest
  BY DEF Idle
<1>4. at # "reconcile" /\ at # "commit" /\ (reingest => at = "purge")
  OBVIOUS
<1> HIDE DEF s, at
<1>5. Exact(s, rows, disk)
  <2>1. /\ s.at # "reconcile" /\ s.at # "commit" /\ (s.reingest => s.model = "fake")
        /\ (s.reingest /\ s.at # "purge" => rows = {})
    BY <1>1, <1>3, <1>4
  <2> QED
    BY <1>3, <2>1, FreshIsExact
<1>6. ASSUME NEW x \in Runs
      PROVE  Underway(x)' /\ ~ run'[x].disturbed => Exact(run'[x], rows', disk')
  <2>1. CASE x = r
    BY <1>1, <1>2, <1>5, <2>1
  <2>2. CASE x # r
    <3>1. run'[x] = run[x]
      BY <1>1, <1>2, <2>2
    <3> QED
      BY <1>1, <3>1, UntouchedIsExact
  <2> QED
    BY <2>1, <2>2
<1> QED
  BY <1>6 DEF ExactInv

\* One session has become s, the others are as they were.
LEMMA OneSessionExact ==
  ASSUME TableInv, ExactInv, NEW r \in Runs, NEW s, run' = [run EXCEPT ![r] = s],
         rows' = rows, disk' = disk, s.at \notin Ended /\ ~ s.disturbed => Exact(s, rows, disk)
  PROVE  ExactInv'
<1>1. DOMAIN run = Runs
  BY DEF TableInv
<1>2. ASSUME NEW x \in Runs
      PROVE  Underway(x)' /\ ~ run'[x].disturbed => Exact(run'[x], rows', disk')
  <2>1. CASE x = r
    BY <1>1, <2>1 DEF Underway, Ended
  <2>2. CASE x # r
    <3>1. run'[x] = run[x]
      BY <1>1, <2>2
    <3> QED
      BY <3>1, UntouchedIsExact
  <2> QED
    BY <2>1, <2>2
<1> QED
  BY <1>2 DEF ExactInv

\* One session has become s, the others are disturbed.
LEMMA OneSessionFree ==
  ASSUME TableInv, NEW r \in Runs, NEW s, run' = [Disturb(Runs \ {r}) EXCEPT ![r] = s],
         s.at \notin Ended /\ ~ s.disturbed => Exact(s, rows', disk')
  PROVE  ExactInv'
<1>1. DOMAIN Disturb(Runs \ {r}) = Runs
  BY DEF Disturb
<1>2. ASSUME NEW x \in Runs
      PROVE  Underway(x)' /\ ~ run'[x].disturbed => Exact(run'[x], rows', disk')
  <2>1. CASE x = r
    BY <1>1, <2>1 DEF Underway, Ended
  <2>2. CASE x # r
    <3> DEFINE others == Runs \ {r}
    <3>1. run'[x] = Disturb(others)[x] /\ x \in others
      BY <1>1, <2>2
    <3> HIDE DEF others
    <3> QED
      BY <3>1, DisturbedIsFree
  <2> QED
    BY <2>1, <2>2
<1> QED
  BY <1>2 DEF ExactInv

LEMMA PurgeKeepsExact ==
  ASSUME TableInv, ExactInv, NEW r \in Runs, Purge(r) PROVE ExactInv'
<1> DEFINE others == Runs \ {r}
           before == Disturb(others)[r]
           s == [before EXCEPT !.at = "read"]
<1>1. /\ rows' = {} /\ disk' = disk /\ run[r].at = "purge"
      /\ run' = [Disturb(others) EXCEPT ![r] = s]
  BY DEF Purge
<1>2. /\ before = [run[r] EXCEPT !.disturbed = @ \/ (r \in others /\ Underway(r))]
      /\ DOMAIN run[r] = Fields
  BY OfSession, DisturbedSession
<1>3. /\ s.at = "read" /\ s.pos = run[r].pos /\ s.reingest = run[r].reingest /\ s.model = run[r].model
      /\ s.inserts = run[r].inserts /\ s.updates = run[r].updates /\ s.deletes = run[r].deletes
      /\ s.disturbed = (run[r].disturbed \/ (r \in others /\ Underway(r)))
  BY <1>2 DEF Fields
<1> HIDE DEF s, before
<1>4. ASSUME ~ s.disturbed PROVE Exact(s, rows', disk')
  <2>1. Exact(run[r], rows, disk)
    BY <1>1, <1>3, <1>4 DEF ExactInv, Underway
  <2>2. run[r].pos = 1 /\ (run[r].reingest => run[r].model = "fake")
    BY <1>1, <2>1 DEF Exact, PlaceExact
  <2>3. Ingested(run[r], disk) = {}
    BY <2>2, NothingIngested
  <2>4. run[r].inserts = {} /\ run[r].updates = {} /\ run[r].deletes = {}
    BY <2>1, <2>3 DEF Exact, InsertsExact, UpdatesExact, DeletesExact
  <2>5. /\ s.pos = 1 /\ s.inserts = {} /\ s.updates = {} /\ s.deletes = {}
        /\ s.at # "reconcile" /\ s.at # "commit" /\ (s.reingest => s.model = "fake")
    BY <1>3, <2>2, <2>4
  <2>6. rows' = {}
    BY <1>1
  <2> QED
    BY <2>5, <2>6, FreshIsExact
<1> QED
  BY <1>1, <1>4, OneSessionFree

LEMMA SameIngested ==
  ASSUME NEW s, NEW t, NEW table, NEW d,
         t.inserts = s.inserts, t.updates = s.updates, t.deletes = s.deletes, t.model = s.model,
         Ingested(t, d) = Ingested(s, d),
         InsertsExact(s, table, d), UpdatesExact(s, table, d), DeletesExact(s, table, d)
  PROVE  InsertsExact(t, table, d) /\ UpdatesExact(t, table, d) /\ DeletesExact(t, table, d)
BY DEF InsertsExact, UpdatesExact, DeletesExact

LEMMA ReadFileKeepsExact ==
  ASSUME TableInv, ExactInv, NEW r \in Runs, ReadFile(r) PROVE ExactInv'
<1> DEFINE path == Corpus[run[r].pos]
<1>1. run[r].at = "read" /\ rows' = rows /\ disk' = disk
  BY DEF ReadFile
<1>2. /\ DOMAIN run[r] = Fields /\ run[r].pos \in Nat /\ run[r].pos > 0
      /\ (~ run[r].disturbed => Exact(run[r], rows, disk))
  BY <1>1, OfSession DEF Underway, ExactInv
<1>3. CASE run[r].pos > Len(Corpus)
  <2> DEFINE s == [run[r] EXCEPT !.at = "commit"]
  <2>1. run' = [run EXCEPT ![r] = s]
    BY <1>3 DEF ReadFile
  <2>2. /\ s.at = "commit" /\ s.pos = run[r].pos /\ s.model = run[r].model
        /\ s.reingest = run[r].reingest /\ s.disturbed = run[r].disturbed
        /\ s.inserts = run[r].inserts /\ s.updates = run[r].updates /\ s.deletes = run[r].deletes
    BY <1>2 DEF Fields
  <2> HIDE DEF s
  <2>3. Ingested(s, disk) = Ingested(run[r], disk)
    BY <2>2 DEF Ingested
  <2>4. ASSUME ~ s.disturbed PROVE Exact(s, rows, disk)
    <3>1. Exact(run[r], rows, disk)
      BY <1>2, <2>2, <2>4
    <3>2. PlaceExact(s, rows, disk)
      BY <1>1, <1>3, <2>2, <3>1 DEF Exact, PlaceExact
    <3>3. InsertsExact(run[r], rows, disk) /\ UpdatesExact(run[r], rows, disk)
          /\ DeletesExact(run[r], rows, disk)
      BY <3>1 DEF Exact
    <3>4. InsertsExact(s, rows, disk) /\ UpdatesExact(s, rows, disk) /\ DeletesExact(s, rows, disk)
      BY <2>2, <2>3, <3>3, SameIngested
    <3> QED
      BY <3>2, <3>4 DEF Exact
  <2> QED
    BY <1>1, <2>1, <2>4, OneSessionExact
<1>4. CASE ~ (run[r].pos > Len(Corpus)) /\ (disk[path] = None \/ doc_type_for[path] = None)
  <2> DEFINE s == [run[r] EXCEPT !.pos = run[r].pos + 1]
  <2>1. run' = [run EXCEPT ![r] = s]
    BY <1>4 DEF ReadFile
  <2>2. /\ s.at = "read" /\ s.pos = run[r].pos + 1 /\ s.model = run[r].model
        /\ s.reingest = run[r].reingest /\ s.disturbed = run[r].disturbed
        /\ s.inserts = run[r].inserts /\ s.updates = run[r].updates /\ s.deletes = run[r].deletes
    BY <1>1, <1>2 DEF Fields
  <2> HIDE DEF s
  <2>3. Ingested(s, disk) = Ingested(run[r], disk)
    BY <1>2, <1>4, <2>2, RankGrows DEF Ingested
  <2>4. ASSUME ~ s.disturbed PROVE Exact(s, rows, disk)
    <3>1. Exact(run[r], rows, disk)
      BY <1>2, <2>2, <2>4
    <3>2. PlaceExact(s, rows, disk)
      BY <1>1, <2>2, <3>1 DEF Exact, PlaceExact
    <3>3. InsertsExact(run[r], rows, disk) /\ UpdatesExact(run[r], rows, disk)
          /\ DeletesExact(run[r], rows, disk)
      BY <3>1 DEF Exact
    <3>4. InsertsExact(s, rows, disk) /\ UpdatesExact(s, rows, disk) /\ DeletesExact(s, rows, disk)
      BY <2>2, <2>3, <3>3, SameIngested
    <3> QED
      BY <3>2, <3>4 DEF Exact
  <2> QED
    BY <1>1, <2>1, <2>4, OneSessionExact
<1>5. CASE ~ (run[r].pos > Len(Corpus)) /\ ~ (disk[path] = None \/ doc_type_for[path] = None)
  <2> DEFINE chunks == Chunks(path, disk[path])
             s == [run[r] EXCEPT !.at = "reconcile", !.chunks = chunks]
  <2>1. run' = [run EXCEPT ![r] = s]
    BY <1>5 DEF ReadFile
  <2> HIDE DEF chunks
  <2>2. /\ s.at = "reconcile" /\ s.pos = run[r].pos /\ s.model = run[r].model /\ s.chunks = chunks
        /\ s.reingest = run[r].reingest /\ s.disturbed = run[r].disturbed
        /\ s.inserts = run[r].inserts /\ s.updates = run[r].updates /\ s.deletes = run[r].deletes
    BY <1>2 DEF Fields
  <2> HIDE DEF s
  <2>3. Ingested(s, disk) = Ingested(run[r], disk)
    BY <2>2 DEF Ingested
  <2>4. ASSUME ~ s.disturbed PROVE Exact(s, rows, disk)
    <3>1. Exact(run[r], rows, disk)
      BY <1>2, <2>2, <2>4
    <3>2. PlaceExact(s, rows, disk)
      BY <1>1, <1>5, <2>2, <3>1 DEF Exact, PlaceExact, chunks
    <3>3. InsertsExact(run[r], rows, disk) /\ UpdatesExact(run[r], rows, disk)
          /\ DeletesExact(run[r], rows, disk)
      BY <3>1 DEF Exact
    <3>4. InsertsExact(s, rows, disk) /\ UpdatesExact(s, rows, disk) /\ DeletesExact(s, rows, disk)
      BY <2>2, <2>3, <3>3, SameIngested
    <3> QED
      BY <3>2, <3>4 DEF Exact
  <2> QED
    BY <1>1, <2>1, <2>4, OneSessionExact
<1> QED
  BY <1>3, <1>4, <1>5

LEMMA ReconciledIsExact ==
  ASSUME NEW table, RowsTyped(table), NEW d, NEW s, DOMAIN s = Fields, s.at = "reconcile",
         s.pos \in Nat, s.pos > 0, s.pos \in DOMAIN Corpus, ChunksOK(s.chunks),
         s.model \in Models, Exact(s, table, d)
  PROVE  Exact(Reconciled(s, table), table, d)
<1> DEFINE t == Reconciled(s, table)
           path == Corpus[s.pos]
           chunks == s.chunks
           before == Ingested(s, d)
           after == Ingested(t, d)
           added == NewInserts(path, chunks, s.model, table)
           updated == NewUpdates(path, chunks, s.model, table)
           deleted == NewDeletes(path, chunks, table)
<1>1. /\ t.at = "read" /\ t.pos = s.pos + 1 /\ t.model = s.model /\ t.reingest = s.reingest
      /\ t.inserts = s.inserts \cup added /\ t.updates = s.updates \cup updated
      /\ t.deletes = s.deletes \cup deleted
  BY ReconciledFields
<1> HIDE DEF t
<1>2. path \in Paths
  BY DEF Paths, Range
<1>3. PlaceExact(s, table, d) /\ InsertsExact(s, table, d) /\ UpdatesExact(s, table, d)
      /\ DeletesExact(s, table, d)
  BY DEF Exact
<1>4. d[path] # None /\ doc_type_for[path] # None /\ chunks = Chunks(path, d[path])
  BY <1>3 DEF PlaceExact
<1>5. after = before \cup {path}
  <2>1. \A p : Rank(p, s.pos + 1) <=> Rank(p, s.pos) \/ p = path
    BY RankGrows
  <2> HIDE DEF path
  <2>2. after = {p \in Paths : Rank(p, s.pos + 1) /\ d[p] # None /\ doc_type_for[p] # None}
    BY <1>1 DEF Ingested
  <2> QED
    BY <1>2, <1>4, <2>1, <2>2 DEF Ingested
<1>6. PlaceExact(t, table, d)
  BY <1>1, <1>3 DEF PlaceExact
<1>7. \A row \in added : /\ row["file_path"] = path /\ row["chunk_index"] \in New(path, chunks, table)
                         /\ row["content"] = chunks[row["chunk_index"] + 1].content
                         /\ row["embedding"].model = s.model
  <2> HIDE DEF path, chunks
  <2> QED
    BY <1>2, NewInsertsAre DEF chunks
<1>8. \A u \in updated : /\ u.old \in Changed(path, chunks, table) /\ u.old["file_path"] = path
                         /\ u.new["content"] = chunks[u.old["chunk_index"] + 1].content
  <2> HIDE DEF path, chunks
  <2> QED
    BY <1>2, NewUpdatesAre DEF chunks
<1>9. \A i \in New(path, chunks, table) : \E row \in added : Key(row) = <<path, i>>
  <2> SUFFICES ASSUME NEW i \in New(path, chunks, table)
               PROVE  \E row \in added : Key(row) = <<path, i>>
    OBVIOUS
  <2> HIDE DEF path, chunks
  <2>1. i \in Nat /\ i \in IndexesOf(chunks)
    BY DEF New, IndexesOf
  <2>2. chunks[i + 1].start_line \in Nat \ {0} /\ chunks[i + 1].end_line \in Nat \ {0}
    BY <2>1 DEF ChunksOK, chunks
  <2>3. Key(RowFor(None, path, i, chunks[i + 1], s.model)) = <<path, i>>
    BY <1>2, <2>1, <2>2, RowForOK
  <2> QED
    BY <2>3 DEF NewInserts
<1>10. \A row \in Changed(path, chunks, table) :
         /\ row \in table /\ row["file_path"] = path /\ row["chunk_index"] \in IndexesOf(chunks)
         /\ row["content"] # chunks[row["chunk_index"] + 1].content
  BY DEF Changed, Unchanged
<1>11. \A row \in table : row["file_path"] = path /\ row["chunk_index"] \in IndexesOf(chunks)
         /\ row["content"] # chunks[row["chunk_index"] + 1].content =>
           \E u \in updated : u.old = row
  <2> HIDE DEF path, chunks
  <2> SUFFICES ASSUME NEW row \in table, row["file_path"] = path, row["chunk_index"] \in IndexesOf(chunks),
                      row["content"] # chunks[row["chunk_index"] + 1].content
               PROVE  \E u \in updated : u.old = row
    OBVIOUS
  <2>1. row \in Changed(path, chunks, table)
    BY DEF Changed, Unchanged
  <2> DEFINE u == [old |-> row, new |-> NewVersion(row, chunks[row.chunk_index + 1], s.model)]
  <2>2. u \in updated /\ u.old = row
    BY <2>1 DEF NewUpdates
  <2> QED
    BY <2>2
<1>12. \A id : id \in deleted <=> \E row \in table :
                                    row["id"] = id /\ row["file_path"] = path /\ Stale(row, chunks)
  BY DEF NewDeletes
<1>13. \A row : row["file_path"] = path => Given(row, d) = chunks
  BY <1>4 DEF Given
<1>14. \A i \in IndexesOf(chunks) :
         i \in New(path, chunks, table) \/ \E row \in table : Key(row) = <<path, i>>
  BY DEF New, Key
<1> HIDE DEF path, chunks, before, after, added, updated, deleted
<1>15. InsertsExact(t, table, d)
  <2>1. ASSUME NEW new \in t.inserts
        PROVE  /\ new["file_path"] \in after /\ InFile(new, d)
               /\ new["content"] = Content(new, d) /\ new["embedding"].model = t.model
    <3>1. CASE new \in s.inserts
      BY <1>1, <1>3, <1>5, <3>1 DEF InsertsExact, before
    <3>2. CASE new \in added
      <4>1. new["chunk_index"] \in IndexesOf(chunks)
        BY <1>7, <3>2 DEF New
      <4>2. Given(new, d) = chunks
        BY <1>7, <1>13, <3>2
      <4> QED
        BY <1>1, <1>5, <1>7, <3>2, <4>1, <4>2 DEF InFile, Content
    <3> QED
      BY <1>1, <2>1, <3>1, <3>2
  <2>2. ASSUME NEW p \in after, NEW i \in IndexesOf(Chunks(p, d[p]))
        PROVE  \E row \in table \cup t.inserts : Key(row) = <<p, i>>
    <3>1. CASE p \in before
      BY <1>1, <1>3, <3>1 DEF InsertsExact, before
    <3>2. CASE p = path
      BY <1>1, <1>4, <1>9, <1>14, <3>2
    <3> QED
      BY <1>5, <3>1, <3>2
  <2> QED
    BY <2>1, <2>2 DEF InsertsExact, after
<1>16. UpdatesExact(t, table, d)
  <2>1. ASSUME NEW u \in t.updates
        PROVE  /\ u.old \in table /\ u.old["file_path"] \in after /\ InFile(u.old, d)
               /\ u.new["content"] = Content(u.old, d) /\ u.old["content"] # Content(u.old, d)
    <3>1. CASE u \in s.updates
      BY <1>3, <1>5, <3>1 DEF UpdatesExact, before
    <3>2. CASE u \in updated
      <4>1. Given(u.old, d) = chunks
        BY <1>8, <1>13, <3>2
      <4> QED
        BY <1>5, <1>8, <1>10, <3>2, <4>1 DEF InFile, Content
    <3> QED
      BY <1>1, <2>1, <3>1, <3>2
  <2>2. ASSUME NEW row \in table, row["file_path"] \in after, InFile(row, d),
               row["content"] # Content(row, d)
        PROVE  \E u \in t.updates : u.old = row
    <3>1. CASE row["file_path"] \in before
      BY <1>1, <1>3, <2>2, <3>1 DEF UpdatesExact, before
    <3>2. CASE row["file_path"] = path
      <4>1. Given(row, d) = chunks
        BY <1>13, <3>2
      <4>2. \E u \in updated : u.old = row
        BY <1>11, <2>2, <3>2, <4>1 DEF InFile, Content
      <4> QED
        BY <1>1, <4>2
    <3> QED
      BY <1>5, <2>2, <3>1, <3>2
  <2> QED
    BY <2>1, <2>2 DEF UpdatesExact, after
<1>17. DeletesExact(t, table, d)
  <2>1. ASSUME NEW id \in t.deletes
        PROVE  \E row \in table : row["id"] = id /\ row["file_path"] \in after /\ Stale(row, Given(row, d))
    <3>1. CASE id \in s.deletes
      BY <1>3, <1>5, <3>1 DEF DeletesExact, before
    <3>2. CASE id \in deleted
      BY <1>5, <1>12, <1>13, <3>2
    <3> QED
      BY <1>1, <2>1, <3>1, <3>2
  <2>2. ASSUME NEW row \in table, row["file_path"] \in after, Stale(row, Given(row, d))
        PROVE  row["id"] \in t.deletes
    <3>1. CASE row["file_path"] \in before
      BY <1>1, <1>3, <2>2, <3>1 DEF DeletesExact, before
    <3>2. CASE row["file_path"] = path
      BY <1>1, <1>12, <1>13, <2>2, <3>2
    <3> QED
      BY <1>5, <2>2, <3>1, <3>2
  <2> QED
    BY <2>1, <2>2 DEF DeletesExact, after
<1> QED
  BY <1>6, <1>15, <1>16, <1>17 DEF Exact, t

LEMMA ReconcileKeepsExact ==
  ASSUME TableInv, ExactInv, NEW r \in Runs, Reconcile(r) PROVE ExactInv'
<1> DEFINE s == run[r]
           t == Reconciled(s, rows)
<1>1. s.at = "reconcile" /\ run' = [run EXCEPT ![r] = t] /\ rows' = rows /\ disk' = disk
  BY ReconcileIs
<1>2. /\ DOMAIN s = Fields /\ s.pos \in Nat /\ s.pos > 0 /\ s.model \in Models /\ SessionOKAt(s)
      /\ (~ s.disturbed => Exact(s, rows, disk))
  BY <1>1, OfSession DEF Underway, ExactInv
<1>3. s.pos \in DOMAIN Corpus /\ ChunksOK(s.chunks) /\ RowsTyped(rows)
  BY <1>1, <1>2 DEF SessionOKAt, SessionTyped, TableInv
<1> HIDE DEF s
<1>4. t.disturbed = s.disturbed
  BY <1>2, ReconciledFields
<1>5. Exact(s, rows, disk) => Exact(t, rows, disk)
  BY <1>1, <1>2, <1>3, ReconciledIsExact
<1> HIDE DEF t
<1> QED
  BY <1>1, <1>2, <1>4, <1>5, OneSessionExact

LEMMA EndKeepsExact ==
  ASSUME TableInv, ExactInv, NEW r \in Runs, Commit(r) \/ CommitFails(r) \/ Rollback(r)
  PROVE  ExactInv'
<1>1. PICK s : /\ s.at \in Ended /\ disk' = disk
               /\ \/ rows' = rows /\ run' = [run EXCEPT ![r] = s]
                  \/ run' = [Disturb(Runs \ {r}) EXCEPT ![r] = s]
  <2>1. /\ [Idle EXCEPT !.at = "done"].at \in Ended
        /\ [Idle EXCEPT !.at = "failed"].at \in Ended
    BY DEF Idle, Ended
  <2> QED
    BY <2>1 DEF Commit, CommitFails, Rollback
<1>2. CASE rows' = rows /\ run' = [run EXCEPT ![r] = s]
  BY <1>1, <1>2, OneSessionExact
<1>3. CASE run' = [Disturb(Runs \ {r}) EXCEPT ![r] = s]
  BY <1>1, <1>3, OneSessionFree
<1> QED
  BY <1>1, <1>2, <1>3

LEMMA ExactInvariant == Spec => [](TableInv /\ ExactInv)
<1>1. Init => ExactInv
  BY DEF Init, ExactInv, Underway, Idle
<1>2. TableInv /\ ExactInv /\ [Next]_vars => ExactInv'
  <2> SUFFICES ASSUME TableInv, ExactInv, [Next]_vars PROVE ExactInv'
    OBVIOUS
  <2>1. CASE UNCHANGED vars
    BY <2>1 DEF vars, ExactInv, Underway
  <2>2. CASE Next
    BY <2>2, EditKeepsExact, StartKeepsExact, PurgeKeepsExact, ReadFileKeepsExact,
       ReconcileKeepsExact, EndKeepsExact DEF Next
  <2> QED
    BY <2>1, <2>2
<1> QED
  BY <1>1, <1>2, TableInvariant, PTL DEF Spec

-----------------------------------------------------------------------------
(* What the commit of such a run leaves. *)

\* the step of a run that is about to commit, undisturbed
LastStep(r) == /\ IsDisk(disk) /\ TableInv /\ ExactInv /\ [Next]_vars /\ r \in Runs /\ CommitsUndisturbed(r)

LEMMA LastStepIs ==
  ASSUME NEW r \in Runs, LastStep(r)
  PROVE  /\ rows' = Written(r) /\ ~ InsertConflicts(r)
         /\ run[r].at = "commit" /\ Exact(run[r], rows, disk)
         /\ Ingested(run[r], disk) = Ingestible
<1>1. run[r].at = "commit" /\ run'[r].at = "done" /\ ~ run[r].disturbed /\ DOMAIN run = Runs
  BY DEF LastStep, CommitsUndisturbed, TableInv
<1>2. Commit(r)
  <2>1. ASSUME NEW x \in Runs, NEW s, NEW t, run' = [run EXCEPT ![x] = s], t = s, s.at # "done" \/ x # r
        PROVE  FALSE
    BY <1>1, <2>1
  <2>2. \A others : Disturb(others)[r].at = "commit" /\ DOMAIN Disturb(others) = Runs
    <3> SUFFICES ASSUME NEW others PROVE Disturb(others)[r].at = "commit" /\ DOMAIN Disturb(others) = Runs
      OBVIOUS
    <3>1. /\ Disturb(others)[r] = [run[r] EXCEPT !.disturbed = @ \/ (r \in others /\ Underway(r))]
          /\ DOMAIN run[r] = Fields
      BY OfSession, DisturbedSession DEF LastStep
    <3>2. Disturb(others)[r].at = run[r].at
      BY <3>1 DEF Fields
    <3> QED
      BY <1>1, <3>2 DEF Disturb
  <2>3. ~ UNCHANGED vars
    BY <1>1 DEF vars
  <2>4. ~ \E path \in Paths : Edit(path)
    BY <1>1, <2>2 DEF Edit
  <2>5. ASSUME NEW x \in Runs PROVE ~ \E model \in Models, reingest \in BOOLEAN : Start(x, model, reingest)
    <3> SUFFICES ASSUME NEW model \in Models, NEW reingest \in BOOLEAN, Start(x, model, reingest)
                 PROVE  FALSE
      OBVIOUS
    <3> DEFINE s == [Idle EXCEPT !.at = IF reingest THEN "purge" ELSE "read",
                                 !.model = model, !.reingest = reingest, !.pos = 1]
    <3>1. run' = [run EXCEPT ![x] = s]
      BY DEF Start
    <3>2. s.at # "done"
      BY DEF Idle
    <3> HIDE DEF s
    <3> QED
      BY <2>1, <3>1, <3>2
  <2>6. ASSUME NEW x \in Runs PROVE ~ Purge(x)
    <3> SUFFICES ASSUME Purge(x) PROVE FALSE
      OBVIOUS
    <3> DEFINE others == Runs \ {x}
    <3>1. run[x].at = "purge" /\ run' = [Disturb(others) EXCEPT ![x].at = "read"]
      BY DEF Purge
    <3>2. x # r
      BY <1>1, <3>1
    <3> HIDE DEF others
    <3>3. run'[r] = Disturb(others)[r]
      BY <2>2, <3>1, <3>2
    <3> QED
      BY <1>1, <2>2, <3>3
  <2>7. ASSUME NEW x \in Runs PROVE ~ ReadFile(x) /\ ~ Reconcile(x)
    <3>1. ReadFile(x) => x # r /\ \E s : run' = [run EXCEPT ![x] = s]
      BY <1>1 DEF ReadFile
    <3>2. Reconcile(x) => x # r /\ \E s : run' = [run EXCEPT ![x] = s]
      BY <1>1, ReconcileIs
    <3> QED
      BY <2>1, <3>1, <3>2
  <2>8. ASSUME NEW x \in Runs PROVE ~ CommitFails(x) /\ ~ Rollback(x)
    <3> DEFINE s == [Idle EXCEPT !.at = "failed"]
    <3>1. CommitFails(x) \/ Rollback(x) => run' = [run EXCEPT ![x] = s]
      BY DEF CommitFails, Rollback
    <3>2. s.at # "done"
      BY DEF Idle
    <3> HIDE DEF s
    <3> QED
      BY <2>1, <3>1, <3>2
  <2>9. ASSUME NEW x \in Runs, Commit(x) PROVE x = r
    <3> SUFFICES ASSUME x # r PROVE FALSE
      OBVIOUS
    <3> DEFINE s == [Idle EXCEPT !.at = "done"]
               others == Runs \ {x}
    <3>1. run' = [run EXCEPT ![x] = s] \/ run' = [Disturb(others) EXCEPT ![x] = s]
      BY <2>9 DEF Commit
    <3> HIDE DEF s, others
    <3>2. CASE run' = [run EXCEPT ![x] = s]
      BY <2>1, <3>2
    <3>3. CASE run' = [Disturb(others) EXCEPT ![x] = s]
      BY <1>1, <2>2, <3>3
    <3> QED
      BY <3>1, <3>2, <3>3
  <2> QED
    BY <2>3, <2>4, <2>5, <2>6, <2>7, <2>8, <2>9 DEF LastStep, Next
<1>3. Exact(run[r], rows, disk)
  BY <1>1 DEF LastStep, ExactInv, Underway
<1>4. Ingested(run[r], disk) = Ingestible
  <2>1. run[r].pos > Len(Corpus) /\ run[r].pos \in Nat
    BY <1>1, <1>3, OfSession DEF Exact, PlaceExact, LastStep
  <2>2. \A path \in Paths : Rank(path, run[r].pos)
    BY <2>1, IngestionAssumption DEF Paths, Range, Rank
  <2> QED
    BY <2>2 DEF Ingested, Ingestible, OnDisk
<1> QED
  BY <1>1, <1>2, <1>3, <1>4 DEF Commit

LEMMA OwnUpdates ==
  ASSUME NEW r \in Runs, LastStep(r), NEW x \in rows
  PROVE  /\ \A u \in run[r].updates : u.old.id = x.id => u.old = x
         /\ x.id \in run[r].deletes => x["file_path"] \in Ingestible /\ Stale(x, Given(x, disk))
<1>1. RowsTyped(rows)
  BY DEF LastStep, TableInv
<1>2. UpdatesExact(run[r], rows, disk) /\ DeletesExact(run[r], rows, disk)
      /\ Ingested(run[r], disk) = Ingestible
  BY LastStepIs DEF Exact
<1>3. \A y \in rows : y["id"] = x["id"] => y = x
  BY <1>1, IdsAreUnique
<1> QED
  BY <1>2, <1>3 DEF UpdatesExact, DeletesExact

\* a row that is left in its file's chunks has the content of its chunk afterwards
LEMMA FlushedContent ==
  ASSUME NEW r \in Runs, LastStep(r), NEW x \in rows, x["file_path"] \in Ingestible, InFile(x, disk)
  PROVE  /\ Flushed(x, run[r].updates)["content"] = Content(x, disk)
         /\ x["content"] = Content(x, disk) => Flushed(x, run[r].updates) = x
<1> DEFINE updates == run[r].updates
           own == {u \in updates : u.old.id = x.id}
<1>1. \A u \in own : u.old = x
  BY OwnUpdates
<1>2. UpdatesExact(run[r], rows, disk) /\ Ingested(run[r], disk) = Ingestible
  BY LastStepIs DEF Exact
<1>3. /\ \A u \in updates : u.new["content"] = Content(u.old, disk)
                              /\ u.old["content"] # Content(u.old, disk)
      /\ x["content"] # Content(x, disk) => \E u \in updates : u.old = x
  BY <1>2 DEF UpdatesExact
<1>4. CASE own = {}
  <2>1. Flushed(x, updates) = x
    BY <1>4 DEF Flushed
  <2>2. x["content"] = Content(x, disk)
    BY <1>3, <1>4
  <2> QED
    BY <2>1, <2>2
<1>5. CASE own # {}
  <2>1. PICK u \in own : Flushed(x, updates) = Updated(x, u)
    BY <1>5 DEF Flushed
  <2>2. u.old = x /\ u.new["content"] = Content(x, disk) /\ x["content"] # Content(x, disk)
    BY <1>1, <1>3
  <2>3. Updated(x, u)["content"] = u.new["content"]
    BY <2>2 DEF Updated, Columns
  <2> QED
    BY <2>1, <2>2, <2>3
<1> QED
  BY <1>4, <1>5

\* A run that nothing came across leaves exactly the chunks of every file it can read.
THEOREM UndisturbedRunsAreExact == Spec => UndisturbedRunIsExact
<1>1. ASSUME NEW r \in Runs, LastStep(r), NEW path \in Ingestible
      PROVE  LET chunks == Chunks(path, disk[path])
             IN {<<row.chunk_index, row.content>> : row \in {x \in rows' : x.file_path = path}}
                  = {<<i, chunks[i + 1].content>> : i \in IndexesOf(chunks)}
  <2> DEFINE chunks == Chunks(path, disk[path])
             updates == run[r].updates
             inserts == run[r].inserts
  <2>1. /\ rows' = Written(r) /\ Ingested(run[r], disk) = Ingestible
        /\ InsertsExact(run[r], rows, disk) /\ DeletesExact(run[r], rows, disk)
    BY <1>1, LastStepIs DEF Exact
  <2>2. \A x \in rows : RowOK(x)
    BY <1>1 DEF LastStep, TableInv, RowsTyped
  <2>3. /\ \A u \in updates : UpdateOK(u, run[r].pos)
        /\ \A new \in inserts : RowOK(new)
    BY <1>1 DEF LastStep, TableInv, WritesTyped
  <2>4. ASSUME NEW x \in rows, x["file_path"] = path
        PROVE  /\ Given(x, disk) = chunks
               /\ x["chunk_index"] \in Nat
               /\ Flushed(x, updates)["file_path"] = path
               /\ Flushed(x, updates)["chunk_index"] = x["chunk_index"]
               /\ x["chunk_index"] \in IndexesOf(chunks) =>
                    Flushed(x, updates)["content"] = chunks[x["chunk_index"] + 1].content
    <3>1. Given(x, disk) = chunks
      BY <2>4 DEF Given
    <3>2. RowOK(x) /\ x["chunk_index"] \in Nat
      BY <2>2 DEF RowOK
    <3>3. /\ Flushed(x, updates)["file_path"] = x["file_path"]
          /\ Flushed(x, updates)["chunk_index"] = x["chunk_index"]
      <4> HIDE DEF updates
      <4> QED
        BY <2>3, <3>2, FlushedOK
    <3>4. ASSUME x["chunk_index"] \in IndexesOf(chunks)
          PROVE  Flushed(x, updates)["content"] = chunks[x["chunk_index"] + 1].content
      <4> HIDE DEF chunks
      <4>1. InFile(x, disk) /\ x["file_path"] \in Ingestible
        BY <2>4, <3>1, <3>4 DEF InFile
      <4>2. Flushed(x, updates)["content"] = Content(x, disk)
        BY <1>1, <4>1, FlushedContent
      <4> QED
        BY <3>1, <4>2 DEF Content
    <3> QED
      BY <2>4, <3>1, <3>2, <3>3, <3>4
  <2>5. ASSUME NEW new \in inserts, new["file_path"] = path
        PROVE  /\ new["chunk_index"] \in IndexesOf(chunks)
               /\ new["content"] = chunks[new["chunk_index"] + 1].content
    BY <2>1, <2>5 DEF InsertsExact, InFile, Content, Given
  <2>6. ASSUME NEW row \in rows', row.file_path = path
        PROVE  \E i \in IndexesOf(chunks) : <<row.chunk_index, row.content>> = <<i, chunks[i + 1].content>>
    <3>1. CASE \E x \in rows : x.id \notin run[r].deletes /\ row = Flushed(x, updates)
      <4>1. PICK x \in rows : x.id \notin run[r].deletes /\ row = Flushed(x, updates)
        BY <3>1
      <4>2. x["file_path"] = path
        <5>1. RowOK(x)
          BY <2>2
        <5> HIDE DEF updates
        <5>2. Flushed(x, updates)["file_path"] = x["file_path"]
          BY <2>3, <5>1, FlushedOK
        <5> QED
          BY <2>6, <4>1, <5>2
      <4>3. ~ Stale(x, chunks)
        BY <2>1, <2>4, <4>1, <4>2 DEF DeletesExact
      <4>4. x["chunk_index"] \in IndexesOf(chunks)
        <5>1. Len(chunks) \in Nat
          <6>1. disk[path].lines \in Seq(STRING)
            BY <1>1 DEF LastStep, IsDisk, IsFileOrNone, Ingestible, OnDisk
          <6> QED
            BY <6>1, ChunksAreOK
        <5> HIDE DEF chunks
        <5> QED
          BY <2>4, <4>2, <4>3, <5>1 DEF Stale, IndexesOf
      <4> QED
        BY <2>4, <4>1, <4>2, <4>4
    <3>2. CASE \E new \in inserts : row = Inserted(new)
      <4>1. PICK new \in inserts : row = Inserted(new)
        BY <3>2
      <4>2. row["file_path"] = new["file_path"] /\ row["chunk_index"] = new["chunk_index"]
            /\ row["content"] = new["content"]
        <5> HIDE DEF inserts
        <5> QED
          BY <2>3, <4>1, InsertedIs
      <4> QED
        BY <2>5, <2>6, <4>2
    <3> QED
      BY <2>1, <3>1, <3>2, WrittenIs
  <2>7. ASSUME NEW i \in IndexesOf(chunks)
        PROVE  \E row \in rows' : row.file_path = path
                 /\ <<row.chunk_index, row.content>> = <<i, chunks[i + 1].content>>
    <3>1. PICK k \in rows \cup inserts : Key(k) = <<path, i>>
      BY <2>1, <2>7 DEF InsertsExact
    <3>2. k["file_path"] = path /\ k["chunk_index"] = i
      BY <3>1 DEF Key
    <3>3. CASE k \in rows
      <4>1. ~ Stale(k, chunks)
        BY <3>2 DEF Stale, IndexesOf
      <4>2. k.id \notin run[r].deletes
        BY <1>1, <2>4, <3>2, <3>3, <4>1, OwnUpdates
      <4>3. Flushed(k, updates) \in rows'
        BY <2>1, <3>3, <4>2 DEF Written
      <4> QED
        BY <2>4, <3>2, <3>3, <4>3
    <3>4. CASE k \in inserts
      <4>1. Inserted(k) \in rows'
        BY <2>1, <3>4 DEF Written, Inserted
      <4>2. /\ Inserted(k)["file_path"] = k["file_path"]
            /\ Inserted(k)["chunk_index"] = k["chunk_index"]
            /\ Inserted(k)["content"] = k["content"]
        <5> HIDE DEF inserts
        <5> QED
          BY <2>3, <3>4, InsertedIs
      <4> QED
        BY <2>5, <3>2, <3>4, <4>1, <4>2
    <3> QED
      BY <3>3, <3>4
  <2> HIDE DEF chunks
  <2>8. {<<row.chunk_index, row.content>> : row \in {x \in rows' : x.file_path = path}}
          = {<<i, chunks[i + 1].content>> : i \in IndexesOf(chunks)}
    BY <2>6, <2>7
  <2> QED
    BY <2>8 DEF chunks
<1>2. IsDisk(disk) /\ TableInv /\ ExactInv /\ [Next]_vars =>
        [\A r \in Runs : CommitsUndisturbed(r) =>
           \A path \in Ingestible :
             LET chunks == Chunks(path, disk[path])
             IN {<<row.chunk_index, row.content>> : row \in {x \in rows' : x.file_path = path}}
                  = {<<i, chunks[i + 1].content>> : i \in IndexesOf(chunks)}]_vars
  BY <1>1 DEF LastStep
<1> QED
  BY <1>2, DiskStaysDisk, ExactInvariant, PTL DEF Spec, UndisturbedRunIsExact

\* A row with its chunk's content comes out of such a run with its id, its content and
\* its vector.
THEOREM UnchangedRowsAreKept == Spec => UnchangedRowsSurvive
<1>1. ASSUME NEW r \in Runs, LastStep(r), NEW row \in rows, row["file_path"] \in OnDisk,
             InFile(row, disk), Content(row, disk) = row["content"]
      PROVE  row \in rows'
  <2>1. rows' = Written(r) /\ UpdatesExact(run[r], rows, disk)
        /\ Ingested(run[r], disk) = Ingestible
    BY <1>1, LastStepIs DEF Exact
  <2>2. row.id \notin run[r].deletes
    <3>1. ~ Stale(row, Given(row, disk))
      BY <1>1 DEF Stale, InFile, IndexesOf
    <3> QED
      BY <1>1, <3>1, OwnUpdates
  <2>3. Flushed(row, run[r].updates) = row
    <3>1. CASE row["file_path"] \in Ingestible
      BY <1>1, <3>1, FlushedContent
    <3>2. CASE row["file_path"] \notin Ingestible
      <4>1. \A u \in run[r].updates : u.old.id # row.id
        BY <1>1, <2>1, <3>2, OwnUpdates DEF UpdatesExact
      <4> QED
        BY <4>1 DEF Flushed
    <3> QED
      BY <3>1, <3>2
  <2> QED
    BY <2>1, <2>2, <2>3 DEF Written
<1>2. IsDisk(disk) /\ TableInv /\ ExactInv /\ [Next]_vars =>
        [\A r \in Runs : CommitsUndisturbed(r) =>
           \A row \in rows :
             LET chunks == Chunks(row.file_path, disk[row.file_path])
             IN /\ row.file_path \in OnDisk
                /\ row.chunk_index \in IndexesOf(chunks)
                /\ chunks[row.chunk_index + 1].content = row.content
                => \E kept \in rows' : /\ kept.id = row.id /\ kept.content = row.content
                                       /\ kept.embedding = row.embedding]_vars
  BY <1>1 DEF LastStep, InFile, Content, Given
<1> QED
  BY <1>2, DiskStaysDisk, ExactInvariant, PTL DEF Spec, UnchangedRowsSurvive

\* The run that --reingest makes leaves vectors of its own model only.
THEOREM ReingestedVectorsAreAlike == Spec => ReingestLeavesOneVectorSpace
<1>1. ASSUME NEW r \in Runs, LastStep(r), run[r].reingest, NEW row \in rows'
      PROVE  row["embedding"].model = "fake"
  <2>1. /\ rows' = Written(r) /\ run[r].at = "commit" /\ PlaceExact(run[r], rows, disk)
        /\ InsertsExact(run[r], rows, disk)
    BY <1>1, LastStepIs DEF Exact
  <2>2. rows = {} /\ run[r].model = "fake"
    BY <1>1, <2>1 DEF PlaceExact
  <2>3. PICK new \in run[r].inserts : row = Inserted(new)
    BY <2>1, <2>2, WrittenIs
  <2>4. RowOK(new)
    BY <1>1, <2>3 DEF LastStep, TableInv, WritesTyped
  <2>5. row["embedding"] = new["embedding"]
    BY <2>3, <2>4, InsertedIs
  <2> QED
    BY <2>1, <2>2, <2>3, <2>5 DEF InsertsExact
<1>2. IsDisk(disk) /\ TableInv /\ ExactInv /\ [Next]_vars =>
        [\A r \in Runs : CommitsUndisturbed(r) /\ run[r].reingest =>
           \A row \in rows' : row.embedding.model = "fake"]_vars
  BY <1>1 DEF LastStep
<1> QED
  BY <1>2, DiskStaysDisk, ExactInvariant, PTL DEF Spec, ReingestLeavesOneVectorSpace
=============================================================================
