# A verification development for mindex

mindex keeps a searchable index of source trees: an HTTP/3 server slices files
into chunks, embeds them, and stores rows in SQLite and vectors in Qdrant; on
top of the index it answers searches and runs "research" agents. This directory
models the parts of it where correctness is hard to test, model-checks them with
TLC and proves their central invariants with TLAPS.

Paths below are relative to `src/` (the repository); `handlers.rs` stands for
`src/backend/v0/handlers.rs`.

## 1. The system

### Components, their state and their operations

| Component | State | Operations | What is hard, and what makes it correct |
|---|---|---|---|
| **Index request** (`handlers.rs` `post_index`, `run_index_job`, `FileIndexer`) | the job's loop position, the claims and `Prepared` values on its stack, the batch of chunks not yet embedded, a cancellation token | `prepare` (claim, hash check, mark, slice), `prepare_stored`, `rebuild_symbols`, `drop_cancelled`, `embed_and_upsert`, `mark_indexed`, `mark_vectors_done`, `recover`, `recover_all` | a dozen transactions and network calls, with anything in between: a file is published only whole, its hash is the hash of what is stored, claims are held for exactly the time of the work |
| **Store** (`db/migrations/*.sql`, `db/files.rs`, `db/sqlite3.rs`) | `project_files`, `project_file_chunks`, `project_file_symbols`, the Qdrant collections, the in-process `indexing_locks` | the transactions of the other components; a trigger limits status transitions | a transaction is atomic but may outlive the future that awaits it |
| **Retry worker** (`worker/retry.rs`) | one sweep and one file at a time | sweep, claim, re-check, mark, read, embed, confirm or fail | re-embeds what a job left behind without resurrecting what a user stopped |
| **Garbage collector** (`worker/gc.rs`) | a guard, one batch | select, delete vectors, purge rows, prune files | three steps over rows that others re-index meanwhile; never takes a live vector, never leaves an untracked one |
| **File endpoints** (`handlers.rs` `post_cancel`, `delete_files`, `post_retry`) | the selected paths of a request | select in one transaction, write in others | take no claim; race with everything |
| **Research admission** (`handlers.rs` `launch_research_job`, `delete_research_active`; `backend/inflight.rs`, `worker/research_watchdog.rs`) | a semaphore of permits, the registry of active runs, a cancellation token per run | admit or refuse, register and spawn, cancel, reap, client departure, unwinding | permit and registry entry pass from the handler into a task; both agree with the runs at work, however a run ends |
| **Research run** (`research.rs` `run_research`, `research_inner`) | step, retry, duplicate, re-open and checkpoint counters, plan, banked sections, draft, citations; two timed child tokens | plan turn, tool turns and their calls, checkpoint, sufficiency check, report (whole or by sections), citation check, rewrite, verdict, journal | a deadline and a departure cancel the same way but must end differently; from the first draft on nothing may lose the report; every loop is bounded by a counter |
| **SQLite pool** (`db/sqlite3.rs`) | idle connections, what each blocking thread does with the one it owns | `transaction`, `migration_transaction` | the caller may leave, the closure may fail or panic, a migration turns foreign keys off: no connection is lent twice or forgotten, and none comes back without foreign keys |
| **Research corpus** (`db/research.rs`, `handlers.rs`) | `research_runs` with ordinal, context, subject, baselines; a client's cursor | launch checks, `insert_run` with the eviction of older verdicts, both deletions, expiry, validity, the paged list | checked at launch, stored at the end: one verdict stands, the context graph has no cycle, the cursor misses no run |
| **Projects and collections** (`handlers.rs` `delete_project`, `db/qdrant.rs`, `worker/stale.rs`) | rows and collections per model and layout, the steps of a DELETE, a pass of the check | ensure, drop one by one, list, fallback, count, publish | DELETE takes no claim and stops anywhere; the check lists first and counts later |
| **Watcher** (`tools/watcher`) and **drift** (`handlers.rs` `post_drift`) | the debounce map, the batch being pushed, the manifest being hashed | receive, flush, supersede, push, drift | an edit during a push is pushed again, and every tree is indexed in the end |
| **Git history** (`tools/indexer/src/git.rs`, `handlers.rs` `post_history`) | stored commits, the walk each indexer holds | walk, post a window | windows are posted in any order, clocks and limits cut them |
| **Embedder client** (`models/embedder.rs`) | attempt, deadline | request, back off, give up | attempts and sleeps inside one budget |
| **Ollama client** (`models/ollama.rs` `chat_stream`) | attempt, silence guard, timeout | post, resend, stream | the guard fires over keep-alives and resends, never after text was handed on |
| **Signing key** (`backend/auth.rs`) | the key file and its temporary file | `load_or_create`, `add_key` | two starts, two rewrites or a death between two file operations: never two secrets |
| **Search** (`handlers.rs` `search_core`, `db/qdrant.rs`) | one request: candidates, winners | embed the query, read candidates, rank, read the winners | three reads of two stores that change between them: no inactive chunk is shown, none that was there all along is missed |
| **Slicing** (`slicing/markdown.rs`, `slicing/traits.rs`) | none | pack blocks, select syntax nodes, absorb comments, fill the gaps | positions, token counts and line ends: chunks do not overlap, fit the window and lose nothing but fragments; the packing is the best one |
| **HTTP/3 server** (`backend/http3.rs`) | connection and request tasks, their tokens, a gauge and a counter | accept, read a body, run the handler, pump the answer, shut down | each phase notices a departure by other means; gauge and counter add up |
| **Token verification, configuration, metrics, CLIs, extension** | none, or snapshots for reading | | pure functions or clients; section 5 |

### How they interact

The request handlers, the worker and the collector share one SQLite database
(one writer at a time), one Qdrant, and one in-process table of claims. There
are no messages between them: they meet in the rows. A client waits for its
request in one of two ways. For POST /index, a JSON client's connection carries the handler's
future, so that when the client goes the future is dropped where it stands. A
streaming client's job is a task of its own, and when the client goes its token
is cancelled: the job continues to its next cancellation point. A research run
is a task of its own in both cases: a stream that is dropped cancels its token
and then closes its channel, a JSON handler that is dropped closes the channel
first. Runs share the permits and the registry, through which DELETE
/research/active and the watchdog cancel them; they read the index and write
nothing to it. A run that ends is stored in the corpus, where others name it as
context or subject. Every statement of every component goes through the pool, as
one transaction on a blocking thread.

The clients outside the process meet the server through its responses only: the
watcher pushes, deletes and asks for drift; the indexer posts windows of
commits; DELETE of a project meets POST /index in rows and collections. The
embedder and Ollama are asked by calls that own their time limits.

`PROJECT.json` lists every component with its status, and under `hazards` the
places where this code can go wrong in a way tests hardly reach.

## 2. Modules

| Module | What it is |
|---|---|
| `IndexStore` | the persistent state, the claim table, and one operator per committed statement group |
| `IndexRequest` | POST /index: a job per request, in the modes `full`, `vectors`, `symbols` |
| `RetryWorker` | `worker::retry` |
| `GarbageCollector` | `worker::gc` |
| `FileCommands` | POST /cancel, DELETE /files, POST /retry |
| `Indexing` | the five composed, with crashes, fairness and the properties |
| `FileLifecycle` | the abstract specification: what the index promises about one file |
| `IndexingInvariants` | what has to be added to the safety properties to make them inductive |
| `IndexingProofs` | type correctness; claims are exclusive and do not leak |
| `StatusProofs` | what the rows of files go through: nobody resurrects what was stopped, pending work is claimed, a cancelled file shows nothing |
| `PublishingProofs` | an indexed file is searchable; the collector spares what is visible |
| `ContentProofs` | hash, chunks, symbols and points of a file belong together; every file implements `FileLifecycle` |
| `MCIndexing` | instances for TLC |
| `ResearchJob` | the record of a run, its tokens, its channel, the outcomes of a model turn |
| `ResearchInvestigation` | plan, tool loop, checkpoints, sufficiency check |
| `ResearchReport` | report, citation check, rewrite, verdict, journal |
| `Research` | permits, registry, timers, watchdog, DELETE and clients around the runs; fairness |
| `ResearchProperties` | what runs promise, and what the repository says they promise |
| `ResearchProofs` | slots and the list agree with the runs; what a run promises of its text, journal and budgets |
| `MCResearch` | instances for TLC |
| `ConnectionPool` | `SQLite3Pool`: connections, blocking threads, pragmas |
| `ResearchCorpus` | the saved runs: launch checks, `insert_run`, eviction, deletion, validity, pages |
| `Projects` | rows and collections of whole projects: POST /index, DELETE, the collection check, restarts with another model or layout |
| `Watcher` | the watcher's two tasks, the file system, drift, and the server as they see it |
| `History` | overlapping indexers, walks and the windows they post |
| `EmbedCall` | one call of the embedder client, in time |
| `ChatTurn` | one turn of the Ollama client, in time |
| `Keyring` | the key file, servers that start, runs of add-key |
| `Search` | one search over SQLite and Qdrant while files are indexed, deleted and collected |
| `Slicing` | the two slicers as functions of a small text that is built piece by piece |
| `HttpServer` | connections, requests and what of them notices that a client has gone |
| `Services` | the eleven above side by side, with the fairness each may count on |
| `ServerProofs` | the theorems about the pool, the two model clients, the corpus and the HTTP/3 server |
| `ServicesProofs` | the theorems about the key file, projects, search and the watcher |
| `SlicingProofs` | the packing is the best one; chunks partition the text |
| `MCServices` | the instance for TLC |

The three groups share no state and are checked apart. The only thing a research
run takes from the index is lookups, and a lookup here succeeds or fails.
`ResearchCorpus` takes up where `Research` ends: a run that `Research` journals is
one that `ResearchCorpus` records, and whether it reached a verdict is a free
choice there. `ConnectionPool` is the contract under `IndexStore`: a call ends with
the whole transaction or none of it, and `Drop` before `Body` is what `detach`
means. `Projects` sees of an index job only whether it has stored chunks and
vectors; `Search` sees of all of indexing the rows, the points and when either
may change, and `Slicing` is what `IndexStore` counts as the pieces of a version.
`HttpServer` ends handlers: what a dropped handler leaves is `Disconnect` and
`CancelStream` in `IndexRequest` and `DropHandler` and `ClientLeaves` in `Research`. The
parts of `Services` do not meet at all: each of its behaviours is one of one part
(`part`), which checks what eleven runs would and interleaves nothing that cannot
interact.

### Correspondence with the code: indexing

*Steps.* An action is one committed SQLite transaction, one Qdrant call, or one
decision between two of them; whatever the code does in the same transaction is
in the same action. `SQLite3Pool::run` commits all of a closure or none of it.

*Rows.* `status`, `sha`, `retries`, `chunker`, `embeddedBy` are columns of
`project_files` (`"absent"`: no row); `active` and `deleted` are the chunk rows;
`symbols[f]` is the version whose symbol rows are stored; `vectors` are points,
each with the model whose collection it is in. A chunk row is identified by
file, text, tokenizer, inserting request and number: the request stands for the
fresh `qdrant_guid`, which is sound because a request slices a file at most once.
A hash is the version it was computed from (no collisions).

*Jobs.* `pc` names the place in `run_index_job`: `pick` (the loop over the files),
`check`, `mark`, `document`, `slice` (inside `prepare`), `slice_failed`,
`slice_cancelled` (its two error arms), `drop` (`drop_cancelled`), `embed`, `confirm`
(the mark phase), `recover_failed`, `recover_cancelled` (`recover_all`). `cur`
is the file `prepare` holds, `prepared` the files whose `Prepared` is alive.
Together they are the claims on the job's stack.

*Failures.* `Faults` says which failures a run injects: `crash`, `disconnect`
(JSON client), `stream_cancel`, `detach` (a transaction completes on the blocking
pool after its future was dropped or cancelled), `db`, `slice`, `embed`,
`qdrant`. A guard that mentions a fault is an error path of the code. What may be
left running (`Awaiting`) is whatever transaction the future was waiting for: a mark,
a slicing (of a code file too, once it is past its last look at the token), a rebuild of
symbols, a confirmation, a recovery. It is one atomic step of its own, any time later
(`RunDetached`).

*Freedom.* Some data is abstracted to a free choice: which rows are old enough
to be swept; derivation versions and the `force` flag (a file that is unchanged
may be rebuilt); how chunks are split into embedding batches; the order of
files. Requests are sent once, which bounds a run without bounding how they
interleave. The creation of the project row and of the collection, both
idempotent and before the first claim, is left out.

### Correspondence with the code: research

*Steps.* An action is what a run does between two points where the outside can
matter: one turn of the model with the decision on its reply, one tool call of a
batch, one event sent. `run[r]` is a record whose fields are the locals of
`research_inner` that decide something (`steps`, `retries`, `dups`, `reopens`,
`checks`, `last`, `reason`, `plan`, ...), the outcome of `run_research`
(`terminal`, `stored`), and where the run is (`pc`).

*Tokens.* `job` is the run's own token. `work` and `writing`, its children, are
the two `DeadlineToken`s; a field is TRUE when the token was cancelled on its own
account, so a child is cancelled if its field or `job` is (`Fired`). A turn is cut
when its token fires or a delta finds the channel closed (which cancels the
child, never the job); `DeadlineStops` is `is_deadline_stop`, `TurnFails` every
other `Err`. Timers may fire at any moment of their phase: nothing in the code
relates a duration to the number of turns. The clock is read apart from the
token, and time can be up before the timer's task has run.

*Texts.* A report has words -- the `"draft"`, a `"rewrite"` or the server's own
`"notice"` -- and a shape, which is what its Markdown is like to
`validate_report_markdown`: it opens with a heading (`headed`), lacks one and nothing else (`bare`), or has another
defect (`broken`). `Repaired` is `repair_missing_heading`, which runs twice: on the draft, after
its citations were counted and before anything of it is sent (`Drafted`), and at the end
of `run_research` (`Finish`), when a whole rewrite has already been streamed; it adds
nothing to a text that is broken or has a heading. What is assembled of sections has a
heading (`Assembled`). `cited` is the text `citations` was computed from, `seen` the last
text the client got whole. The title of a report is not modelled.
Whether citations or Markdown are at fault is a free choice, made where the
model writes; so are the model's replies, the token budget and
the context window. `MAX_SECTION_ATTEMPTS` attempts at one section are one
action: nothing distinguishes them outside.

*History.* `early` (the run was cancelled when its report phase began or when a
section was given up), `torn` (part of a text was streamed that was then given
up) and `panicked` are history variables. A record is reset once the run is
over, and the locals of the investigation once the report phase begins, of the
reason to stop all but whether it was the run's own choice; nothing reads the rest
afterwards.

*Watchdog.* A run may be reaped once the timer of its phase went off: an
over-approximation of its age.

### Correspondence with the code: services

*Pool.* `thread[c]` is the blocking closure of a call and the connection it owns,
`answer[c]` what the future that awaits it knows; the two go apart at `Drop`, which
only the future sees. A panic and a pragma that cannot be restored lose the
connection, as the code does. A database that is busy is one way for the closure
to fail.

*Corpus.* A run id is minted once; `phase` says whether it runs, is a row or is
gone. `baseline` is `research_run_files`, `context` the column of that name. `Invalid`
is the recursive query: `Unsound` its two base cases, `Edges` the pairs it follows,
`Reached` the recursion. Retention and pins are a free choice of rows (pins are
the client's choice as well). `page.owed` is a history variable: the runs that
were listed when the client began and have been ever since.

*Projects.* `collection[p][m]` is missing, empty or has points, at the current
layout; an upgrade moves what there is to `previous`. A job is four steps (row,
collection, chunks, vectors), the last two for each file or batch again, and may end after
each. `retried` are the projects into whose collection the retry worker may write, without
a request and without `ensure_project` (`RetryStores`), or an upsert that timed out and is
still to be applied. A count is
Qdrant's estimate (`exact(false)`, `qdrant.rs:390`), certain only where there is no
collection (`SaysZero`). `quiet`, `broken`, `lost`, `touched` and `off` are history
variables that say when a promise applies. A call that creates or drops a
collection and whose answer was lost is taken to have had its effect at once or not at all.

*Watcher.* `disk` is the tree, `events` what inotify has queued, `buf` the debounce
buffer (the last event of each path), `task` what the flush and the drift task
have in hand, with the request each has out. The server is a stage per path
(absent, pending, published, failed, deleted) with the version it was pushed with
and the request that claims it. A push reads the file when it is sent, not when
it was seen. `changes` bounds edits and failures; `excused` is a history
variable: the paths whose fate a failure or the drift task has touched since
they were last in step, of which `DebounceForgetsNothing` says nothing and
`TreeGetsIndexed` all the more.

*History.* A commit is its place in the order in which they are made; time is
counted in days. A walk is what `git log` gave at one moment. `Post` replaces the
window that the request speaks for: afterwards the server holds what was walked
and what it held outside the window. `MoveRefs` stands for new commits and
rewritten branches alike, `Prune` for DELETE of the history.

*Time.* `EmbedCall` and `ChatTurn` count time in ticks that pass only while the call
waits and no limit of its own is due, which is what a timer guarantees: it fires
at its time, whatever else is ready then.

*Key file.* `named` maps the two names to a file, known by who made it; `text` is
what is in it. Open, write and rename are separate steps, and a process may
die between any two.

*Search.* `row`, `points` and `score` are the two stores as a search meets them,
`search` the locals of `search_core_inner`. Files are re-indexed, points upserted
(late ones too) and collected between any two of its steps. Rows are not purged,
because a search cannot tell a purged row from a deleted one. The query is an
approximate one (HNSW with `hnsw_ef`, `qdrant.rs:429`): it reaches some of the points in
scope (`reached`, a free choice) and answers with the best `top_k` of these. The scores
are open until Qdrant ranks, and one may be NaN. `steady` is a history variable: the
chunks that were active, wanted and in Qdrant at every moment since the query's
vector was asked for, and that the query reached.

*Slicing.* One character is one token, so that positions are token counts;
`Between` counts them with the code's own comparison, by which a token that ends
where the range does is left out. The dynamic programme is `Best`, row by row, with the inner
loop's `break` at the cap in `Starts`; the loop over the lines is `CutLines`, with one
`ByLine` for each position that ends a line. A document is a sequence of blocks with a size
and a heading level, a source file a sequence of leaves, each after 0 to 2 line
breaks, some of them joined under an inner node. The costs of the packing are
counted in twentieths, so that they are whole numbers. Left out: indentation, the
trimming of a chunk's ends, the semantic term of the packing (real-valued and off
without block vectors), leaves of several lines.

*HTTP/3.* `link[l].task` is the task of a connection and `link[l].peer` whether the
other end is there; `request[q].pc` says which of the three phases of
`serve_h3_request` the task of a request is in. `Cancelled` is the connection's
token, which the drop guard of the connection's task cancels and which the
server's token is the parent of. `inFlight` and `answered` are the gauge and the
counter of `record_request`; `entered` is a history variable.

## 3. What is checked

Passing runs:

| Run | Instance | Properties |
|---|---|---|
| `failures` | 1 file, 2 requests, 2 models, deletes, every fault but `detach` | `IndInv`, `IndexedHasVectors`, `CollectorSparesActive`, `NobodyStartsOver` |
| `content` | 1 file in 2 versions, 2 requests, all modes and endpoints, a failing embedder | `SymbolsParallelChunks`, `CancelledHidesChunks`, `IndexingIsClaimed`, `FilesFollowLifecycle` |
| `quiet` | 2 files, 2 requests, streams cancelled anywhere, a failing embedder, no commands | `VectorsTracked`, `IndexedIsComplete`, `StoppedStaysStopped` |
| `progress` | fairness; 1 file in 2 versions, 1 request, all modes, every command; a failing embedder, both kinds of client leaving, transactions (slicings, of code too, and symbol rebuilds) that outlive their futures | `ClaimsMatchWork`, `RequestsEnd`, `DrainedFilesGo`, `InterruptedFilesResolve` |
| `research` | fairness; 2 requests for 1 slot, research and challenge, stream and JSON, every fault, timers, DELETE, watchdog | `SlotsMatchRuns`, `OnlyTheCancelledVanish`, `JournalIsHonest`, `StepsAreCounted`, `ReportsSurvive`, `CountersEndRuns`, `RunsEnd` |
| `services` | fairness of watcher, pool, history and HTTP/3; the eleven parts of `Services`, each with its faults | the properties of the next table |

The properties of `services`, by part:

| Part | Property | What it shows |
|---|---|---|
| watcher | `DebounceForgetsNothing` | a path whose index differs from the tree has an event, a buffered event or a request on its way, unless a failure or drift interfered |
| | `TreeGetsIndexed` | once edits and failures stop, the index shows the tree |
| pool | `ConnectionsAccounted` | a connection is idle, lent to one thread or lost, and no ordinary transaction runs without foreign keys |
| | `ConnectionsComeBack` | what a caller that left had borrowed comes back |
| corpus | `OneStandingVerdict` | of the challenges of a run, one stored verdict at most |
| | `ContextIsEarlier` | a run's context has smaller ordinals, hence no cycle |
| | `PagesShowEveryRun` | the cursor misses no run that was listed all the while |
| projects | `DeleteLeavesNothing` | a DELETE answered 204 has left neither rows nor collections, unless its listing failed or a request was under way |
| | `StaleReportIsRight` | the check reports every project whose collection was missing all the time, and every one that was broken otherwise and not overestimated; what it reports is broken, unless a request, a DELETE, the retry worker or a late upsert was at it or Qdrant's estimate missed its points |
| history | `HistoryCatchesUp` | once refs rest, the server holds what a walk finds, and nothing of the window that none reaches |
| embed | `EmbedBounded` | no request is out after the budget, and the call is over within twice of it |
| chat | `TurnBounded` | a silent turn has handed nothing on; a turn ends within its guard and time-outs |
| keyring | `OneDefaultSecret` | no two servers sign with different secrets |
| search | `SearchIsHonest` | what a 200 or a 404 says is true of the chunks that could be found all the while and that Qdrant reached |
| slicing | `PackingIsBest` | the dynamic program gives the optimum over every legal way to cut the document |
| | `ChunksPartitionTheText` | chunks do not overlap, fit the window and cover all but fragments; lines that are cut lose nothing |
| http | `DeparturesAreNoticed` | a request whose client has gone ends in every phase |
| | `Reconciled` | the gauge is the handlers at work, and the counter every other request that entered, however it ended |

*Bounds, indexing.* Two requests, the worker, the collector and one command handler are
all the pairs of actors there are, claims
are per file, so that one file shows every race on a claim and two files show
what a request does with a batch (skip one, drop one, fail after one). Two
versions are needed for a hash to be stale; two models for a switch (they
share a tokenizer, as all models of the registry do; `models/registry.rs` has a
test that says so). `MaxRetries` is 1: the count only enables a sweep. `Versions`,
`Requests` and `Models` are symmetric in the runs without liveness.

*Bounds, research.* Two requests and one slot make runs compete; runs share
nothing else, so that a third adds no behaviour. `MaxSteps` is 2 and
`CheckpointEvery` 1: a batch of 2 calls can exhaust the budget half-way, and a
checkpoint can exceed it. Each counter (checkpoints, retries, duplicates,
re-opened tools, empty reports) has the limit 1, so that both its sides are
met; the citation check has 1 step in 2 turns, so that either limit ends it. Two
sections are enough for one to be written and one to be given up.

*Bounds, services.* Each part has the smallest instance in which its hazard takes
place. Watcher: 2 paths, 2 contents of which one is over the cap, 2 edits or
failures (an edit during a push and a failure of that push). Pool: 2 connections
for 3 calls, so that one waits or is refused. Corpus: 3 runs of 1 file with 1
text, a context of 1 and pages of 1 (two challenges of one subject; a page that
ends between two rows). Projects: 1 project, 2 models, so that a model switch
leaves a collection behind; what DELETE and the check do to several projects
they do one by one. History: 2 indexers, 3 commits of which the walk skips one,
walks of 1 commit, 3 days, 1 move of the refs. Embedder: budget 7 with back-off 1, 2,
4, 8, so that the last sleep is clamped and an earlier one is not. Ollama: a
guard of 2 or none, a time-out of 4, 2 parse retries, so that a resend can
outlast the guard. Key file: 2 servers and 2 runs of add-key. Search: 3 chunks of
2 files, of which one is asked for, top_k 2, so that a winner can be displaced;
scores 1, 2 and NaN. Slicing: windows of 3 to 8 tokens and fragments below 3;
documents of up to 4 blocks of 3 or 10 tokens (2 fit a chunk, 3 do not, and one
block is over the cap) with no heading, a hard and a soft one; files of up to 3 leaves of 3, 4 or 10 tokens
(a fragment, a chunk, one that must be cut). HTTP/3: 2 connections, 2 requests.

*Deadlock.* `services.cfg` says `CHECK_DEADLOCK FALSE`: calls, starts, edits and
inputs are finitely many, and a part that has had them all is at rest. `research.cfg`
and the other configurations of `MCResearch` say it because requests are made once,
and when all are over there is nothing left to do. Indexing never stops, the
collector's tick is always possible, and its runs check deadlock.

*What the assumptions of a run say.* `content` excludes crashes, slicer errors
and disconnects because with them `IndexedShaDescribesChunks` fails (see
`stale_hash`); without them it holds, as `FilesFollowLifecycle` says: a published
file has the chunks of its hash, or it is in no stage of the lifecycle. `quiet` excludes commands because with them each of its three
properties fails: a collector pass between a cancel and the upsert it raced
leaves points without rows; `late_cancel` strips an indexed file; and a cancel
between the worker's re-check and its write of `indexing` is undone. `DrainedFilesGo`
asks for a file without active chunks, and of which no transaction is left running, because
a delete between mark and slice, or before a slicing that outlives its request, leaves a
deleted row with active chunks, which nothing collects. The runs say how
far the promises do hold.

*Refinement.* `FilesFollowLifecycle` maps each file to a stage of
`FileLifecycle`: an indexed row counts as published only if each of its active
chunks has its vector and was cut from the row's version, and is in no stage
otherwise. A file then moves only as the abstract specification allows: it is
published only after it was pending, keeps its version until taken in again,
and is stopped or failed only while pending.

*Fairness, indexing.* Weak fairness for each server task (tokio schedules every runnable
task; the calls they await have time-outs). Strong fairness for a sweep that
takes a given file: an old `indexing` row stays a candidate, sweeps come round
on a timer for ever, and one of them finds the file; and for the hourly tick of
the collector, which finds the guard free again and again. Nothing is assumed of
clients or failures.

*Fairness, research.* Weak fairness of each request's own progress: its handler
resumes after its one await (a lock on a snapshot), its task is polled, each
call it waits for returns, as every one has a time limit, and a dropped future
is unwound. No timer, watchdog, DELETE or client is relied on, which is what the
comment over the tool loop claims: "Termination rests on counters, not only on
the clock".

*Fairness, services.* `WatcherFairness`: both tasks run, their timers fire, their
requests are answered (each has a time-out) and the retry worker settles what is
pending. `PoolFairness`: a blocking thread runs to its end; nothing is assumed of
those who await it. `HistoryFairness`: the hook or the cron job runs the indexer
again and again, and it ends. `HttpFairness`: the tasks of connections and
requests run, and an answer has a next frame -- a stream sends a keep-alive every
15 seconds (`handlers.rs:1513`, `:5528`) -- which cannot be sent to a peer that has
gone. Edits, failures and moves are bounded by the instance, not assumed to stop.

*What `JournalIsHonest` leaves out.* The stored report is what the client was sent, but for
one line: a whole rewrite that lacks a heading is given one after it was streamed, as the
comment at `research.rs:5539` says, "here, and only here"; the property admits the line
there and nowhere else. Its second half, that a cancelled run is dropped, leaves out runs
that write in sections, because of `cancelled_journalled`. `ReportsSurvive` leaves out challenges, because of
`verdict_fails`, and what was sent is the last whole text because of
`torn_rewrite`.

### Disagreements with the documentation

Six runs are expected to violate a statement the repository makes. Each quotes
its line in `PROJECT.json` under `findings`.

| Run | Shows |
|---|---|
| `stale_hash` | a crash between the write of `indexing` (with the new hash) and the slice transaction: the retry worker publishes the old chunks under the new hash, and the hash check then skips the file for ever |
| `detached_tx` | a slice transaction, of a document or of a code file past its last look at the token, outlives the claim of its cancelled job and replaces chunks another request is publishing |
| `late_cancel` | a cancel that writes after the file was indexed deletes its chunks and answers 204 |
| `cancelled_journalled` | a run cancelled before its sections are written is assembled from stubs, sent, journalled and reported done |
| `torn_rewrite` | a streamed rewrite abandoned half-way is followed by another whole text |
| `verdict_fails` | an Ollama failure in the verdict turn fails a challenge whose report was sent |

Smaller ones were seen while modelling and have no run of their own; the
properties named are stated so that they hold of the code as it is.

- `research.rs:5942` calls it a hard invariant that every tool call gets a `role:
  "tool"` reply; a batch left early (finalize, too many retries or repeats) leaves
  calls without one. Transcripts are not in the model.
- `research.rs:5534`: "The title is read from the model's own text *before* the repair
  below, so a server-written heading is never mistaken for one the model chose", and
  `:7738`, "every sectioned run stores `title = NULL`". A draft was repaired once before
  (`:6804`), and a report in sections is given its heading when it is assembled; that
  heading is the question's first line cut at 72 characters, so that of a longer question
  it is not the string `extract_report_title` compares with the question, and is stored
  as the title.
- `research.rs:6799`: "a server-written line must never enter the provenance report as a
  claim the model did not make", because the question a heading comes from may hold a
  `path.rs:1-2`. `check_citations` (`:6796`, `:7095`) reads a report in sections with its
  heading on.
- A checkpoint is charged without testing the budget, so a run can spend one step
  more than it was granted (`StepsAreCounted`).
- `tools/indexer/src/git.rs:180` warns of erring wide in the window a request speaks
  for, and then makes it a day wider than the walk's own: the server deletes the
  reachable commits of that day (`HistoryCatchesUp` expects the request's window to
  hold what the walk found, so a commit of that day counts as one to go).
- `models/embedder.rs:352` clamps a sleep to what was left when the request was sent,
  not when it was answered: a call can last almost twice its budget
  (`EmbedBounded`).
- `backend/auth.rs:470`: of two servers that start at once "the loser reads what the
  winner wrote"; the loser's `create_new` fails, and with it its start. A server that
  dies between creating the key file and writing it leaves an empty file no later
  start can load. Two runs of add-key write the same temporary file
  (`auth.rs:617`).
- `models/ollama.rs:700`: "One budget for the whole turn"; each resend after a parse error
  starts the time-out anew, and only the silence guard, where there is one, bounds
  the wait (`TurnBounded`).
- `main.rs:1060` logs "In-flight work drained." when the accept loops have ended; tasks
  of HTTP/3 connections are spawned and not awaited.
- `backend/http3.rs:255` explains the in-flight guard by streams that live for minutes,
  but the guard ends with the head of the response: streams are not counted.
- `tools/watcher/src/main.rs:450`: "drift will correct on next check"; not when the tree has
  become empty, because `run_drift` then returns at once (`:471`).
- `db/research.rs:120`: "the sequence keeps climbing"; `MAX(seq) + 1` reuses the ordinals of
  the newest rows once they are deleted (`ContextIsEarlier` holds all the same).
- DELETE of a project that overlaps POST /index leaves what the request stores
  after it, and its fallback for a store that cannot list knows the collections
  of the current model only (`DeleteLeavesNothing` excludes both).
- `slicing/traits.rs:400`: "What is left is a single line"; after a cut at a paragraph it
  is what follows it. `:427` says that a small tail joins the previous window
  "rather than being dropped"; when the previous window has no room it is
  dropped (`ChunksPartitionTheText` allows for fragments).
- `handlers.rs:1256`: chunks that a request inserted for a file cancelled meanwhile "are marked
  `deleted` so GC reclaims them". Not when the prepare of a later file of the
  request fails (`:1886`), for instance because DELETE and a collector pass took its row: the
  request then leaves by `recover_all`, whose write of `failed` a cancelled row refuses,
  and the chunks stay active until the file is pushed again. `CancelledHidesChunks`
  is checked with one file, and proved where no prepare fails after another.
- A search whose winners are all re-indexed before their rows are read answers
  404, "no match", although other candidates may exist (`SearchIsHonest` says when).

## 4. What is proved

For every value of the constants (any number of files, versions, requests,
models, chunks per text; the assumptions are the `ASSUME`s of the modules, typing
of the parameters and distinctness of `None`):

| Theorem | Statement |
|---|---|
| `TypeCorrect` | `Spec => []TypeOK` (of `Indexing`) |
| `ClaimsAlwaysMatch` | `Spec => []ClaimsMatchWork` |
| `IndexingInvariant` | `"detach" \notin Faults` implies `Spec => []IndInv` |
| `IndexedIsSearchable` | `"detach" \notin Faults` implies `Spec => []IndexedHasVectors` |
| `CollectorIsSafe` | `Spec => CollectorSparesActive` |
| `OrderInvariant` | `Spec => []OrderInv` |
| `StoppedStay` | `NoStops` and `"detach" \notin Faults` imply `Spec => StoppedStaysStopped` |
| `PendingIsClaimed` | `Recovered` implies `Spec => []IndexingIsClaimed` |
| `CancelledShowNothing` | `NeverAborted` implies `Spec => []CancelledHidesChunks` |
| `IndexedShaIsTrue` | `Sliced` implies `Spec => []IndexedShaDescribesChunks` |
| `IndexedIsWholeFile` | `Sliced` and `NoStops` imply `Spec => []IndexedIsComplete` |
| `SymbolsAreParallel` | `Sliced` implies `Spec => []SymbolsParallelChunks` |
| `PointsAreTracked` | `NoStops`, `OneModel` and `"detach" \notin Faults` imply `Spec => []VectorsTracked` |
| `FilesImplementLifecycle` | `Sliced` implies `Spec => FilesFollowLifecycle` |
| `SlotsAlwaysMatch` | `Spec => []SlotsMatchRuns` (of `Research`, as the next four) |
| `NoRunVanishes` | `Spec => []OnlyTheCancelledVanish` |
| `JournalHonest` | `Spec => []JournalIsHonest` |
| `ReportsAreKept` | `Spec => []ReportsSurvive` |
| `BudgetsHold` | `Spec => StepsAreCounted` |
| `PoolKeepsItsBooks` | `PoolSpec => []ConnectionsAccounted` |
| `OneVerdictStands`, `ContextHasNoCycle`, `CursorMissesNoRun` | `CorpusSpec` implies `[]OneStandingVerdict`, `[]ContextIsEarlier`, `[]PagesShowEveryRun` |
| `EmbedCallIsBounded`, `TurnIsBounded` | `EmbedSpec => []EmbedBounded`, `ChatSpec => []TurnBounded` |
| `OneSecretEver` | `KeyringSpec => []OneDefaultSecret` |
| `DeleteIsComplete`, `ReportIsRight` | `ProjectsSpec` implies `[]DeleteLeavesNothing`, `[]StaleReportIsRight` |
| `SearchAnswersHonestly` | `SearchSpec => []SearchIsHonest` |
| `NoEditForgotten` | `WatcherSpec => []DebounceForgetsNothing` |
| `PackingOptimal`, `TextPartitioned` | `SlicingSpec` implies `[]PackingIsBest`, `[]ChunksPartitionTheText` |
| `GaugeAddsUp` | `HttpSpec => []Reconciled` |
| `RunsAreFinite` | `Spec => CountersEndRuns` (of `Research`) |
| `WorkIsFinite` | `Spec => NobodyStartsOver` (of `Indexing`) |

The named assumptions (`IndexingInvariants`) are on the failures and endpoints of a
behaviour, never on the number of files or actors (but for `NeverAborted`, that has a choice).
TLC finds each of these theorems false on a small instance without its own.

| Assumption | Says | Without it |
|---|---|---|
| `NoStops` | clients call neither /cancel nor DELETE /files | a cancel between the worker's re-check and its mark is undone; one after an upsert was begun strips the file or leaves points without rows |
| `Recovered` | the embedder, Qdrant and the slicer of code may fail, and nothing else does | a crash or a dropped connection leaves an `indexing` row that nobody claims: the stuck-file sweep is there for it (`InterruptedFilesResolve`) |
| `Sliced` | the embedder and Qdrant may fail, and streams be cancelled if no document is sliced under the token | whatever comes between the write of a new hash and the slicing lets the worker publish the old chunks (`stale_hash`) |
| `NeverAborted` | only the embedder and Qdrant fail, and either nobody deletes files or there is one file | a prepare that fails, and a job that dies or is cancelled, leave the chunks of a cancelled file (section 3) |
| `OneModel` | no restart brings up another model | the collector visits the collection of the model at work only |
| `"detach" \notin Faults` | no transaction outlives the future that awaits it | `detached_tx` |

*Types.* `TypeOK` is not inductive: that a job writes a row of a real file
depends on its having one in hand. `JobPlace` adds where it has.

*Claims.* `ClaimInv` adds `JobShape` (the file in hand is neither prepared nor
still to be taken, so that giving its claim back cannot give back another's)
and `WorkerPlace`. The proof regroups it per job (`Consistent`): a step of a job
changes only claims that are free or its own (`OnlyOf`), hence no one else's. It
holds under every fault.

*Publishing.* `IndexedHasVectors` needs the whole story of a batch. `JobCovers`
says that what is active in a prepared file is in the job's batch or has its
point; `JobReady` that a job confirms with an empty batch; `JobStamps` that the
row of a file being published names the model the batch is embedded with;
`WorkerReady` and `WorkerCovers` say the same of the worker; `DeletedForGood` that
the collector's batch is disjoint from what is active, which rests on
`FreshChunks`: no chunk row bears the name of a slice that is still to come. These two
need no assumption: `ChunkInv` adds that a job leaves at most one slicing behind and then
slices nothing itself (`LastSlicing`), so `CollectorIsSafe` holds also with
transactions that outlive their job. The proof of the rest classifies steps. A *safe* step (`Safe`) only takes chunks from files, stops
publishing them or drops their row; anybody may take it, so /cancel, DELETE
/files and the collector need no claim. Three steps of a job and one of the
worker publish or prepare to (`Mark`, `Slice`, `Confirm`, `WorkerConfirms`); each
does it to one file whose claim the actor holds, so by `ClaimsMatchWork` it is
nobody else's. The assumption on `detach` is needed: `detached_tx` is the
counterexample without it.

*Order.* `OrderInv` adds to the claims what a job has and has not in hand at each
of its places, that a row that exists has a hash and that one that is gone has no
chunks. It holds under every fault. All later proofs about files go through what a step
does to *one* file: `JobWrites`, `WorkerWrites`, `CollectorWrites` and
`CommandWrites` list it (taken in, requeued, resliced, confirmed, ended, emptied
or untouched), and `EveryStepWrites` shows once that a step of the whole
system is one of those for each file, so that no other proof goes through the actions.

*Stopped, pending, cancelled.* `StopInv` adds that the worker, between re-check and
mark, has a file nobody has moved since. `PendingInv` adds what `Settled` says of the files a
job still claims but is done with, or has not begun: they are not `indexing`.
`CancelInv` adds whose task it is to take the chunks of a cancelled file away
(`Dropping`): the job that has sliced it or will drop it.

*Content.* `IndexedShaDescribesChunks` is far from inductive. In `ContentInv`, a file that
is not whole (`Whole`: its chunks are those of the text its row names) is cancelled, or
is `indexing` in the hands of a request that has written the row and will slice it
(`Torn`); whoever is about to publish a file from its stored chunks saw it whole
(`RepublishWhole`); and the row of a file being published names the text of its
request (`JobHashes`). A job passes its pending obligation on from step to step
(`GoesOn`). That symbols are parallel to chunks rests on it: the rebuild compares
hashes only.

*Points.* `TrackedInv` joins `IndInv` and `OrderInv` with two facts about what is
under way: what is about to be upserted is active, and what the collector is about to
purge has lost its point.

*Lifecycle.* The refinement maps a file to its stage. `StageIsStatus` shows from
`IndInv` and `ContentInv` that an indexed row always has the stage "published", hence that the stage
is a function of the status alone; `NextMovesRows` that every step moves a row as the
abstract next-state relation allows, or leaves it; the theorem puts both together for
each file.

*Watcher.* `WatcherInv` has one part for all paths (`Ordered`: what the two tasks hold at
each point of a pass, and that only a push that is out has claims) and one for each
path that is not excused (`InHand`): the last event of the path says what the tree
holds (`LastWord`), so does what was read if no event is to come (`Handled`), what
the server took is stored (`Pushed`), and neither the drift task nor the retry
worker has anything to do there (`Undisturbed`). A path that is given back
its place among those not excused is settled, and a settled path has nothing in
hand (`SettledIsInHand`).

*Slots.* `SlotInv` adds to `SlotsMatchRuns` that a run is listed until its future is
dropped and that a request holds its permit from its handler on. The proof goes
through every action of a run, of which it needs only that the run then is still
alive (`Passed`); the permits are counted with the theorems on finite sets.

*Runs.* The other promises of a research run are about its own record, and none of
them is inductive: whether a text is complete, a cancellation noted or a budget kept
depends on the place the run has reached. `RunInv` adds `RunGood` to `SlotInv`:
before the first draft there is no report (`Undrafted`); from the gate on the
citations are those of the current text without the heading the server may have added, and
from the verdict on that text was sent (`Texted`), so that the last repair, which leaves a
repaired text alone (`RepairedTwice`), can only touch a rewrite that was streamed; a run that was cancelled and writes its report whole stays before its
first draft (`Dropped`); a batch is entered below the step budget, and the last step
frame bears at most the number of steps made (`Counted`). Steps are of a few kinds
(`Investigated`, `Moved`, `Stopped`, `Finished`, `Aside`); that a kind keeps `RunGood`
is proved once, and of each action only that its steps are of that kind.

*Pool.* `PoolInv` says what `ConnectionsAccounted` says without the set of borrowers
(no two threads own one connection, no idle or lost one is owned), and that only a
migration's thread is ever about to touch the pragma and only a connection that
enforces foreign keys is given back.

*Corpus.* `RowsInv` adds that whoever is named as context was stored when it was
named, and that no two stored rows share an ordinal; so an ordinal that is
reused is larger than that of any row still stored. `PageInv` adds that what the client is
owed is listed and lies below the cursor; that a page is the top of what is below
the cursor (`PageIsTop`) needs the least and the greatest of a finite set of
numbers, which is proved from well-foundedness.

*Calls.* In `EmbedInv` what remains is what was left at the last check, and a sleep
ends within it; `ChatInv` bounds the time of the current request by its own start.

*Key file.* `KeyringInv`: as long as there is no key file nobody has a secret
(`NoSecretYet`); from then on everything that was ever written bears the secret of
the one who created it (`OwnedBy`).

*Projects.* `QuietRemoval` says of a DELETE that nothing disturbs that what is left
is what it still has to drop; `PassIsRight` that of the projects that were lost or broken
all the time each is still to be counted, in the report, or (if not lost) wrongly estimated,
and that what is in the report and neither touched nor wrongly estimated is broken. A pass sees the others'
steps only through `ObservedPass`.

*Search.* `SearchInv`: a chunk that was there all along is a candidate once
candidates are read (`SteadyRight`), because a row never changes its file; and one
that Qdrant reached and left out is outscored by, or level with, `top_k` candidates (`Left`), which
stays true when those lose their rows.

*Slicing.* The slicers are pure functions, defined in `Slicing` by recursive functions
over the blocks of a document or the positions of a text. What such a function computes
is shown by induction over a *set* of numbers (`FromAllBelow`, `FromOneBelow`: a set of
naturals that has n whenever it has all below n has them all), since the induction
theorems of the library take a predicate as a parameter; and that it exists at all is shown
first (`SumsExist`, `BestIs`, `LinesExist`: a function on 0..n extends to one on 0..n+1).
The packing: `EachRowOptimal` says of row j that its cuts are legal, that its cost is
their price and that no legal cuts of the first j blocks are cheaper. A legal
packing is a shorter one and one more chunk (`OneMoreChunk`, `LastChunk`), and the
`break` at the cap is harmless because a chunk that fits leaves every shorter one fit (`LaterFits`).
The source slicer: selected nodes are disjoint runs of leaves (`SelectedApart`), and a chunk
that takes in comments begins no earlier than the chunk before it ends (`ChunkStartIs`),
which is what `emitted_end` is for; gaps lie between the lines of the spans and every
position outside those lines is in one (`GapsApart`, `GapAround`). Windows: the loop over
the lines keeps that what it has emitted tiles the text up to where the open window
begins, and that the lines taken into the open window fit (`AddLineIs`, `CutLinesIs`); a
line that does not fit alone is cut into windows that do (`CutsAre`, `ChopLineIs`).

*HTTP/3.* `HttpInv` adds that who is at its handler has entered and who has not sent
its body has not, so that each step moves at most one request into or out of the two sets
that are counted.

*Work.* `NobodyStartsOver` gives each job a place in a well-founded order: the phase of
`run_index_job`, then the set of files left in its loop, then the place of the file in
hand, then the set of chunks left to embed; `JobStepAdvances` and `WorkerStepAdvances`
go through the steps. It is the safety half of `RequestsEnd`, and holds under every fault;
the other half, that a job which has not ended can always take a step (`ENABLED`), is
model-checked. For a research run `CountersEndRuns` names the positions: the stage,
the round of the loop the run is in, what is spent of its budgets, and in a batch of
calls the calls that are left. They are finitely many, because the counters stay within
their caps wherever they are asked (`Limited`; a retry count may pass its cap only on
the way out of the loop), and each step goes to a later one (`InvestigationAdvances`,
`ReportAdvances`). The batches are what takes some thought: answering a call costs a
step, a retry or a refused repetition -- or finds a budget gone, and then the batch is
the last. It is the safety half of `RunsEnd`.

Model-checked only: the liveness properties (the prover has no rules for fairness). All
invariants and action properties of the passing runs are theorems.

## 5. What is not modelled, and why

- *Configuration, validation, the Mindexfile library*: checks of bounds and parsing
  without state. Their constants are the constants of the models.
- *Tokens* (minting, signing, verification, the table of routes and rights): pure
  functions of their arguments over strings and signatures.
- *Metrics, catalogue and statistics workers*: periodic snapshots that nothing else
  decides by.
- *symbols.rs* and the symbol, context and outline lookups: reads of one
  transaction. The *semantic term* of the packing is real arithmetic.
- *Indexer CLI* beyond the history: it scans and uploads, and keeps nothing.
  *MCP servers, VS Code extension*: clients; the server's side of their
  requests is modelled. *Embedder sidecar, deployment, benchmarks*: other programs.
- *TLS, routing, the TCP listener*: libraries. Over TCP the same handlers are
  dropped by axum.
- Of the modelled ones: the 256-row limit of a sweep and the other phases of a
  collector pass (single `DELETE`s by age); the status log; upserts that Qdrant
  applies later than any time-out (in indexing; `Search` has them); several projects
  under one collector; collisions of hashes. `just_uploaded` is a status of the
  schema no code writes.

## 6. Plan

Done, in this order: indexing with its worker, collector and endpoints; research
admission and runs; the pool; the corpus; projects; the two model clients; the
watcher with drift; the history; the key file; search; slicing; the HTTP/3 server.
Left:

1. A second tokenizer: `prepare_stored` refuses chunks another tokenizer measured,
   the retry worker does not. No two models of today's registry differ, so the
   property (an indexed file's tokenizer is its model's) is vacuous until then.
2. The collector over several projects, with its limit of 256 rows.
3. Theorems: what of the files remains true when a crash, a dropped connection or
   a cancel comes at any time; a measure for the watcher as `NobodyStartsOver` is one
   for jobs and sweeps and `CountersEndRuns` for research runs.
