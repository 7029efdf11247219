----------------------------- MODULE IndexStore -----------------------------
(***************************************************************************)
(* What mindex persists about one project: the `project_files`,            *)
(* `project_file_chunks` and `project_file_symbols` tables of SQLite and   *)
(* the project's Qdrant collections, with the statements that write them.  *)
(*                                                                         *)
(* Every operator that primes a variable is ONE committed SQLite           *)
(* transaction (or one Qdrant call): the writer lock serialises them, and  *)
(* SQLite3Pool::run commits all of a closure or none of it.                *)
(*                                                                         *)
(* A chunk row's immutable columns are its identity: file, the version of  *)
(* the text it was cut from, the tokenizer that measured it, the request   *)
(* that inserted it and its place in the file.  A request slices a file at *)
(* most once, so `by` stands for the fresh qdrant_guid.                    *)
(***************************************************************************)
EXTENDS Naturals

CONSTANTS
  Files,        \* paths of the project
  Versions,     \* versions of the working tree; file f has one text per version
  Requests,     \* POST /index requests, each sent once
  Models,       \* embedding models a deployment may select
  Tokenizers,   \* tokenizers those models were trained with
  TokenizerOf,  \* model -> its tokenizer
  Pieces,       \* <<file, version>> -> number of chunks the text slices into
  Markdown,     \* the files sliced before the transaction, and without symbols
  MaxRetries,   \* [workers].max_retries; larger counts behave like this one
  Faults,       \* which failures the environment may inject
  None

FaultKinds == {"crash", "disconnect", "stream_cancel", "detach", "db", "slice",
               "embed", "qdrant"}

ASSUME StoreAssumption ==
  /\ TokenizerOf \in [Models -> Tokenizers]
  /\ Pieces \in [Files \X Versions -> Nat]
  /\ Markdown \subseteq Files
  /\ MaxRetries \in Nat
  /\ Faults \subseteq FaultKinds
  /\ None \notin Files \cup Versions \cup Models \cup Tokenizers \cup Requests
  /\ "worker" \notin Requests \cup {None}

VARIABLES
  status,      \* project_files.status; "absent" when there is no row
  sha,         \* project_files.sha256, as the version it was hashed from
  retries,     \* project_files.retry_count, saturated at MaxRetries
  chunker,     \* project_files.chunker_id
  embeddedBy,  \* project_files.embedded_model_id
  symbols,     \* the version whose symbol rows are stored, None for no rows
  active,      \* chunk rows with status 'active'
  deleted,     \* chunk rows with status 'deleted', waiting for the collector
  vectors,     \* <<model, chunk>>: the points of the per-model collections
  model,       \* the embedding model this process was started with
  claim        \* indexing_locks: who holds the IndexClaim of each file, or None

rowVars   == <<status, sha, retries, chunker, embeddedBy>>
chunkVars == <<symbols, active, deleted>>
storeVars == <<rowVars, chunkVars, vectors>>

Worker == "worker"   \* the retry worker, as the holder of a claim

Statuses == {"indexing", "indexed", "cancelled", "failed", "deleted"}

Chunk == [file : Files, text : Versions, tok : Tokenizers, by : Requests,
          ix : Nat \ {0}]

-----------------------------------------------------------------------------
ActiveOf(f) == {c \in active : c.file = f}

(* The rows Slicer::parse (or the pre-sliced document) yields for one file. *)
SlicesOf(f, v, r) ==
  {[file |-> f, text |-> v, tok |-> TokenizerOf[model], by |-> r, ix |-> i]
     : i \in 1 .. Pieces[f, v]}

(* The transition trigger of project_files: any status may go to 'indexing'
   or 'deleted', and only 'indexing' may reach the other three. *)
Legal(old, new) ==
  \/ new \in {"indexing", "deleted"}
  \/ old = "indexing" /\ new \in {"indexed", "cancelled", "failed"}

(* MUTANT of CanMove: a schema without the transition trigger. *)
MoveAnyRow(f, new) == status[f] # "absent"

(* set_file_status moves nothing when the row is gone or the trigger aborts. *)
CanMove(f, new) == status[f] # "absent" /\ Legal(status[f], new)

Bumped(n) == IF n < MaxRetries THEN n + 1 ELSE n

-----------------------------------------------------------------------------
StoreInit ==
  /\ status = [f \in Files |-> "absent"]
  /\ sha = [f \in Files |-> None]
  /\ retries = [f \in Files |-> 0]
  /\ chunker = [f \in Files |-> None]
  /\ embeddedBy = [f \in Files |-> None]
  /\ symbols = [f \in Files |-> None]
  /\ active = {}
  /\ deleted = {}
  /\ vectors = {}
  /\ model \in Models
  /\ claim = [f \in Files |-> None]

(* MUTANT of Acquire: the set's insert, with its result ignored. *)
AcquireAnyway(f, who) == claim' = [claim EXCEPT ![f] = who]

(* IndexClaim::try_acquire takes a free slot; dropping the guard frees it. *)
Acquire(f, who) == claim[f] = None /\ claim' = [claim EXCEPT ![f] = who]

ReleaseAll(who) == claim' = [f \in Files |-> IF claim[f] = who THEN None
                                              ELSE claim[f]]

(* MUTANT of MarkIndexing: the DO UPDATE clause forgets embedded_model_id. *)
MarkWithoutModel(f, v) ==
  /\ status' = [status EXCEPT ![f] = "indexing"]
  /\ sha' = [sha EXCEPT ![f] = v]
  /\ chunker' = [chunker EXCEPT ![f] = TokenizerOf[model]]
  /\ embeddedBy' = [embeddedBy EXCEPT ![f] = IF @ = None THEN model ELSE @]
  /\ UNCHANGED <<retries, chunkVars, vectors>>

(* MARK_INDEXING_UPSERT_SQL: the row names the new text, tokenizer and model
   before any of their chunks or vectors exist; retry_count is not touched. *)
MarkIndexing(f, v) ==
  /\ status' = [status EXCEPT ![f] = "indexing"]
  /\ sha' = [sha EXCEPT ![f] = v]
  /\ chunker' = [chunker EXCEPT ![f] = TokenizerOf[model]]
  /\ embeddedBy' = [embeddedBy EXCEPT ![f] = model]
  /\ UNCHANGED <<retries, chunkVars, vectors>>

(* Chunk and symbol rows reference their file's row: without it their INSERT
   fails, and with it the transaction. *)
CanInsert(f, v) ==
  \/ status[f] # "absent"
  \/ Pieces[f, v] = 0 /\ f \in Markdown

(* MUTANT of ReplaceChunks: the old chunks stay active. *)
AddChunks(f, v, r) ==
  /\ active' = active \cup SlicesOf(f, v, r)
  /\ symbols' = [symbols EXCEPT ![f] = IF f \in Markdown THEN None ELSE v]
  /\ UNCHANGED <<rowVars, deleted, vectors>>

(* The slice transaction: old chunks 'deleted', symbols replaced, new chunks
   inserted 'active'.  It reads and writes no project_files row. *)
ReplaceChunks(f, v, r) ==
  /\ active' = (active \ ActiveOf(f)) \cup SlicesOf(f, v, r)
  /\ deleted' = deleted \cup ActiveOf(f)
  /\ symbols' = [symbols EXCEPT ![f] = IF f \in Markdown THEN None ELSE v]
  /\ UNCHANGED <<rowVars, vectors>>

(* MUTANT of DropChunksOf: the DELETE of the symbol rows is missing. *)
DropChunksOnly(B) ==
  /\ active' = {c \in active : c.file \notin B}
  /\ deleted' = deleted \cup {c \in active : c.file \in B}
  /\ UNCHANGED symbols

(* What /cancel, DELETE /files and drop_cancelled do to the chunks and the
   symbols of the files B, whatever the status of those files is. *)
DropChunksOf(B) ==
  /\ active' = {c \in active : c.file \notin B}
  /\ deleted' = deleted \cup {c \in active : c.file \in B}
  /\ symbols' = [f \in Files |-> IF f \in B THEN None ELSE symbols[f]]

(* set_file_status, as its callers use it: never to 'indexed'. *)
SetFileStatus(f, new, bump) ==
  /\ status' = IF CanMove(f, new) THEN [status EXCEPT ![f] = new] ELSE status
  /\ retries' = IF CanMove(f, new) /\ bump
                  THEN [retries EXCEPT ![f] = Bumped(@)] ELSE retries
  /\ UNCHANGED <<sha, chunker, embeddedBy, chunkVars, vectors>>

(* mark_indexed: confirms an 'indexing' row, and matches no other. *)
MarkIndexed(f, v) ==
  /\ IF status[f] = "indexing"
       THEN /\ status' = [status EXCEPT ![f] = "indexed"]
            /\ sha' = [sha EXCEPT ![f] = v]
            /\ retries' = [retries EXCEPT ![f] = 0]
       ELSE UNCHANGED <<status, sha, retries>>
  /\ UNCHANGED <<chunker, embeddedBy, chunkVars, vectors>>

(* mark_vectors_done and mark_reembedded: the same guard, stamping whose
   vectors the file now has and leaving its hash and its tokenizer alone. *)
MarkReembedded(f) ==
  /\ IF status[f] = "indexing"
       THEN /\ status' = [status EXCEPT ![f] = "indexed"]
            /\ embeddedBy' = [embeddedBy EXCEPT ![f] = model]
            /\ retries' = [retries EXCEPT ![f] = 0]
       ELSE UNCHANGED <<status, embeddedBy, retries>>
  /\ UNCHANGED <<sha, chunker, chunkVars, vectors>>

(* VectorStore::insert_batch into the active model's collection. *)
Upsert(S) ==
  /\ vectors' = vectors \cup ({model} \X S)
  /\ UNCHANGED <<rowVars, chunkVars>>

(* A transaction that failed, or one that only read. *)
NoWrite == UNCHANGED storeVars

-----------------------------------------------------------------------------
TablesTypeOK ==
  /\ status \in [Files -> Statuses \cup {"absent"}]
  /\ sha \in [Files -> Versions \cup {None}]
  /\ retries \in [Files -> 0 .. MaxRetries]
  /\ chunker \in [Files -> Tokenizers \cup {None}]
  /\ embeddedBy \in [Files -> Models \cup {None}]
  /\ symbols \in [Files -> Versions \cup {None}]
  /\ active \subseteq Chunk
  /\ deleted \subseteq Chunk
  /\ vectors \subseteq Models \X Chunk

StoreTypeOK ==
  /\ TablesTypeOK
  /\ model \in Models
  /\ claim \in [Files -> Requests \cup {Worker, None}]
=============================================================================
