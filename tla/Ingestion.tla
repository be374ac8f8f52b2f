------------------------------ MODULE Ingestion ------------------------------
(***************************************************************************)
(* Keeping document_chunks in step with the files (services/ingestion.py). *)
(*                                                                         *)
(* A run of ingest_all is one transaction: it visits the files in order,   *)
(* reads each, loads the rows the file has, embeds what is new, and        *)
(* commits at the end.  The session does not autoflush (db/session.py), so *)
(* what it is going to write stays in memory until then.  Several runs may *)
(* be under way (the command, the evaluation, a test session), and the     *)
(* files may change while they are.  PostgreSQL runs at READ COMMITTED;    *)
(* a flush that meets another run's locks waits until that run is over, so *)
(* a commit is one step here.                                              *)
(*                                                                         *)
(* The hash of a content stands for the content, and a vector is the       *)
(* content it was made of and the model that made it.                      *)
(***************************************************************************)
EXTENDS Chunking, FiniteSets

CONSTANTS
  None,
  Runs,            \* the processes that may run ingest_all, again and again
  Corpus,          \* the paths in the order they are visited
  doc_type_for,    \* path -> document type
  InitialDisks,    \* what may be on the disk at first: path -> file or None
  Edits,           \* path -> the files it may be changed to, None if deleted
  MaxStarts,       \* bound: how often a run is started
  MaxEdits         \* bound: how often a file is changed

Paths == Range(Corpus)
IsFileOrNone(file) == file = None \/ file.lines \in Seq(STRING)
IsDisk(d) == DOMAIN d = Paths /\ \A path \in Paths : IsFileOrNone(d[path])

\* rglob yields a path once
ASSUME IngestionAssumption ==
  /\ MaxStarts \in Nat /\ MaxEdits \in Nat /\ IsFiniteSet(Runs)
  /\ Corpus \in Seq(Paths) /\ \A i, j \in DOMAIN Corpus : Corpus[i] = Corpus[j] => i = j
  /\ \A d \in InitialDisks : IsDisk(d)
  /\ \A path \in Paths : \A file \in Edits[path] : IsFileOrNone(file)

VARIABLES
  disk,    \* path -> the file there, or None
  rows,    \* the committed rows of document_chunks
  run,     \* each run: where it is, what it has read and is going to write
  starts,  \* history: runs started so far
  edits    \* history: changes of files so far

vars == <<disk, rows, run, starts, edits>>

Models == {"fake", "azure"}
Columns == {"id", "file_path", "chunk_index", "start_line", "end_line", "content", "embedding"}

\* chunk_index counts from 0
Chunks(path, file) == chunk_file(doc_type_for[path], file)
IndexesOf(chunks) == 0 .. Len(chunks) - 1

Idle == [at |-> "idle", model |-> None, reingest |-> FALSE, pos |-> 0, chunks |-> <<>>,
         inserts |-> {}, updates |-> {}, deletes |-> {}, disturbed |-> FALSE]

Underway(r) == run[r].at \notin {"idle", "done", "failed"}

\* what one run does to the others: history, for the properties
Disturb(others) == [r \in Runs |-> [run[r] EXCEPT !.disturbed = @ \/ (r \in others /\ Underway(r))]]

Init ==
  /\ disk \in InitialDisks
  /\ rows = {}
  /\ run = [r \in Runs |-> Idle]
  /\ starts = 0 /\ edits = 0

-----------------------------------------------------------------------------
(* The files change. *)

Edit(path) ==
  /\ edits < MaxEdits
  /\ \E file \in Edits[path] \ {disk[path]} : disk' = [disk EXCEPT ![path] = file]
  /\ edits' = edits + 1
  /\ run' = Disturb(Runs)
  /\ UNCHANGED <<rows, starts>>

-----------------------------------------------------------------------------
(* One run. *)

\* The command uses the configured model; the evaluation always the fake one, and
\* only the evaluation can be told to re-embed everything.
Start(r, model, reingest) ==
  /\ ~ Underway(r) /\ starts < MaxStarts
  /\ reingest => model = "fake"
  /\ run' = [run EXCEPT ![r] = [Idle EXCEPT !.at = IF reingest THEN "purge" ELSE "read",
                                            !.model = model, !.reingest = reingest, !.pos = 1]]
  /\ starts' = starts + 1
  /\ UNCHANGED <<disk, rows, edits>>

\* a variant that leaves the rows to be updated
Purge_skipped(r) ==
  /\ run[r].at = "purge"
  /\ rows' = rows
  /\ run' = [Disturb(Runs \ {r}) EXCEPT ![r].at = "read"]
  /\ UNCHANGED <<disk, starts, edits>>

\* --reingest deletes every row, in a transaction of its own
Purge(r) ==
  /\ run[r].at = "purge"
  /\ rows' = {}
  /\ run' = [Disturb(Runs \ {r}) EXCEPT ![r].at = "read"]
  /\ UNCHANGED <<disk, starts, edits>>

\* The next file's chunks; a file that is not there, or whose extension is not
\* known, is not visited.
ReadFile(r) ==
  /\ run[r].at = "read"
  /\ LET path == Corpus[run[r].pos]
     IN IF run[r].pos > Len(Corpus) THEN run' = [run EXCEPT ![r].at = "commit"]
        ELSE IF disk[path] = None \/ doc_type_for[path] = None
               THEN run' = [run EXCEPT ![r].pos = @ + 1]
        ELSE run' = [run EXCEPT ![r].at = "reconcile", ![r].chunks = Chunks(path, disk[path])]
  /\ UNCHANGED <<disk, rows, starts, edits>>

Existing(path) == {row \in rows : row.file_path = path}

\* a variant that takes no row for unchanged
Unchanged_never(row, chunks) == FALSE

\* the row at a chunk's index, with the chunk's content, is left as it is
Unchanged(row, chunks) ==
  /\ row.chunk_index \in IndexesOf(chunks)
  /\ row.content = chunks[row.chunk_index + 1].content

\* a variant that keeps one row too many
Stale_off_by_one(row, chunks) == row.chunk_index > Len(chunks)

Stale(row, chunks) == row.chunk_index >= Len(chunks)

\* what a chunk's row is to hold, with the vector embed_documents gave for it
RowFor(id, path, idx, chunk, model) ==
  [id |-> id, file_path |-> path, chunk_index |-> idx, start_line |-> chunk.start_line,
   end_line |-> chunk.end_line, content |-> chunk.content,
   embedding |-> [of |-> chunk.content, model |-> model]]

\* a variant that embeds new rows only
NewVersion_keeps_vector(row, chunk, model) ==
  [RowFor(row.id, row.file_path, row.chunk_index, chunk, model) EXCEPT !.embedding = row.embedding]

NewVersion(row, chunk, model) == RowFor(row.id, row.file_path, row.chunk_index, chunk, model)

\* One file: the rows it has are loaded, and the session notes what to write.
Reconcile(r) ==
  /\ run[r].at = "reconcile"
  /\ LET path == Corpus[run[r].pos]
         chunks == run[r].chunks
         existing == Existing(path)
         model == run[r].model
         new == IndexesOf(chunks) \ {row.chunk_index : row \in existing}
         changed == {row \in existing : row.chunk_index \in IndexesOf(chunks)
                                          /\ ~ Unchanged(row, chunks)}
     IN run' = [run EXCEPT ![r].at = "read", ![r].pos = @ + 1, ![r].chunks = <<>>,
          ![r].inserts = @ \cup {RowFor(None, path, i, chunks[i + 1], model) : i \in new},
          ![r].updates = @ \cup {[old |-> row, new |-> NewVersion(row, chunks[row.chunk_index + 1], model)] :
                                   row \in changed},
          ![r].deletes = @ \cup {row.id : row \in {x \in existing : Stale(x, chunks)}}]
  /\ UNCHANGED <<disk, rows, starts, edits>>

-----------------------------------------------------------------------------
(* The end of a run. *)

\* An UPDATE sets the columns whose value is not the one that was loaded.
Updated(row, update) ==
  [c \in Columns |-> IF update.new[c] # update.old[c] THEN update.new[c] ELSE row[c]]

Key(row) == <<row.file_path, row.chunk_index>>

\* a variant without the constraint
InsertConflicts_unconstrained(r) == FALSE

\* the unique constraint on (file_path, chunk_index)
InsertConflicts(r) == \E new \in run[r].inserts, row \in rows : Key(new) = Key(row)

\* an UPDATE that meets no row is an error; a DELETE that meets none is not
UpdateMissesRow(r) == \E u \in run[r].updates : \A row \in rows : row.id # u.old.id

\* An id is a UUID: one that no row has and no session remembers.
Known == {row.id : row \in rows}
           \cup UNION {{u.old.id : u \in run[r].updates} \cup run[r].deletes : r \in Runs}
NewId(row) ==
  LET ids == {<<row.file_path, row.chunk_index, n>> : n \in 0 .. Cardinality(Runs)}
  IN CHOOSE id \in ids : id \notin Known

Flushed(row, updates) ==
  LET own == {u \in updates : u.old.id = row.id}
  IN IF own = {} THEN row ELSE Updated(row, CHOOSE u \in own : TRUE)

\* the table as this run leaves it
Written(r) ==
  {Flushed(row, run[r].updates) : row \in {x \in rows : x.id \notin run[r].deletes}}
    \cup {[new EXCEPT !.id = NewId(new)] : new \in run[r].inserts}

Commit(r) ==
  /\ run[r].at = "commit" /\ ~ InsertConflicts(r) /\ ~ UpdateMissesRow(r)
  /\ rows' = Written(r)
  /\ run' = [(IF rows' = rows THEN run ELSE Disturb(Runs \ {r})) EXCEPT ![r] = [Idle EXCEPT !.at = "done"]]
  /\ UNCHANGED <<disk, starts, edits>>

CommitFails(r) ==
  /\ run[r].at = "commit" /\ (InsertConflicts(r) \/ UpdateMissesRow(r))
  /\ run' = [run EXCEPT ![r] = [Idle EXCEPT !.at = "failed"]]
  /\ UNCHANGED <<disk, rows, starts, edits>>

\* An unreadable file, an embedding call that raises or returns too few vectors
\* (zip is strict), a database error, a stop: the transaction is rolled back.
Rollback(r) ==
  /\ Underway(r)
  /\ run' = [run EXCEPT ![r] = [Idle EXCEPT !.at = "failed"]]
  /\ UNCHANGED <<disk, rows, starts, edits>>

Next ==
  \/ \E path \in Paths : Edit(path)
  \/ \E r \in Runs :
       \/ \E model \in Models, reingest \in BOOLEAN : Start(r, model, reingest)
       \/ Purge(r) \/ ReadFile(r) \/ Reconcile(r) \/ Commit(r) \/ CommitFails(r) \/ Rollback(r)

Spec == Init /\ [][Next]_vars

-----------------------------------------------------------------------------
(* Properties. *)

\* The shape of the table: one row for a path and an index, ids unique; the
\* states a run passes through.
TypeOK ==
  /\ \A row \in rows :
       /\ DOMAIN row = Columns /\ row.file_path \in Paths /\ row.chunk_index \in Nat
       /\ row.start_line \in Nat \ {0} /\ row.end_line \in Nat \ {0}
       /\ row.embedding.model \in Models
  /\ \A a, b \in rows : Key(a) = Key(b) \/ a.id = b.id => a = b
  /\ \A r \in Runs :
       run[r].at \in {"idle", "purge", "read", "reconcile", "commit", "done", "failed"}
  /\ starts \in 0 .. MaxStarts /\ edits \in 0 .. MaxEdits

OnDisk == {path \in Paths : disk[path] # None}
Ingestible == {path \in OnDisk : doc_type_for[path] # None}

\* Every line of a file that is not blank is in exactly one of its chunks, in order,
\* and no chunk is longer than MAX_CHUNK_LINES (chunk_file).
ChunksPartitionTheFile ==
  \A path \in OnDisk : PartitionsTheLines(doc_type_for[path], disk[path])

\* Whatever runs overlap or fail, a committed row's vector is that of its content:
\* retrieval never finds a chunk by the text it used to have.
VectorsBelongToContents == \A row \in rows : row.embedding.of = row.content

\* the step in which a run commits that no edit and no other run's commit came across
CommitsUndisturbed(r) == run[r].at = "commit" /\ run'[r].at = "done" /\ ~ run[r].disturbed

\* After such a run the rows of a file are its chunks, one for each index, neither
\* more nor less, whatever was there before: a file that grew, shrank or was rewritten,
\* or the remains of runs that overlapped.
UndisturbedRunIsExact ==
  [][\A r \in Runs : CommitsUndisturbed(r) =>
       \A path \in Ingestible :
         LET chunks == Chunks(path, disk[path])
         IN {<<row.chunk_index, row.content>> : row \in {x \in rows' : x.file_path = path}}
              = {<<i, chunks[i + 1].content>> : i \in IndexesOf(chunks)}]_vars

\* A row that already has its chunk's content is still there after such a run, with its
\* id, its content and its vector: the ids that findings cite stay good, and nothing is
\* embedded twice.  Of its line numbers nothing is asked.
UnchangedRowsSurvive ==
  [][\A r \in Runs : CommitsUndisturbed(r) =>
       \A row \in rows :
         LET chunks == Chunks(row.file_path, disk[row.file_path])
         IN /\ row.file_path \in OnDisk
            /\ row.chunk_index \in IndexesOf(chunks)
            /\ chunks[row.chunk_index + 1].content = row.content
            => \E kept \in rows' : /\ kept.id = row.id /\ kept.content = row.content
                                   /\ kept.embedding = row.embedding]_vars

\* After --reingest every vector is of the evaluation's model, those of vanished files
\* included: two vector spaces never meet in one search.
ReingestLeavesOneVectorSpace ==
  [][\A r \in Runs : CommitsUndisturbed(r) /\ run[r].reingest =>
       \A row \in rows' : row.embedding.model = "fake"]_vars

\* "Line numbers are preserved so citations can point at file.py:10-24"
\* (docs/architecture.md): the rows give the lines their content is on.
LineNumbersPointAtTheContent ==
  [][\A r \in Runs : CommitsUndisturbed(r) =>
       \A row \in rows' : row.file_path \in OnDisk =>
         row.content = SubSeq(disk[row.file_path].lines, row.start_line, row.end_line)]_vars
=============================================================================
