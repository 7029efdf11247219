------------------------------ MODULE Projects ------------------------------
(***************************************************************************)
(* What exists of a project as a whole: its rows, and one collection per   *)
(* embedding model and layout.  POST /index creates both, the retry worker *)
(* writes into the collection, DELETE of the project removes both without  *)
(* a claim, and the collection check compares them.  What is done to       *)
(* single files is left to the indexing modules: here chunks or vectors    *)
(* are stored, or not yet.                                                 *)
(***************************************************************************)
EXTENDS FiniteSets

CONSTANTS
  ProjectGuids,
  Slugs         \* registered models, by the slug their collections carry

ASSUME ProjectsAssumption == Slugs # {}

VARIABLES
  rows,        \* of each project: no row, a row, or a row with active chunks
  collection,  \* of each project and model at the current layout
  previous,    \* projects with a collection of an earlier layout
  slug,        \* the active model
  job,         \* the running POST /index of each project
  retried,     \* projects into whose collection the retry worker, or an upsert
               \* that was given up and that Qdrant has still to apply, may write
  removal,     \* the running DELETE of each project
  pass         \* the running collection check

projectVars == <<rows, collection, previous, slug, job, retried, removal, pass>>

(* removal.pc: rows, list, drop: the next thing it does.  quiet: no /index has
   been under way since it began, no listing failed, nothing since its end. *)
Removal == [pc : {"none", "rows", "list", "drop", "done"},
            todo : SUBSET Slugs, old : BOOLEAN, quiet : BOOLEAN]
NoRemoval == [pc |-> "none", todo |-> {}, old |-> FALSE, quiet |-> FALSE]

(* broken, lost: projects that have been so ever since the pass began.
   touched: those that an /index, a DELETE, the retry worker or a late upsert was
   at since, or whose files went.  off: those whose points were estimated at zero though there
   are some, or the other way round. *)
Pass == [pc : {"idle", "count", "report"}, todo : SUBSET ProjectGuids,
         stale : SUBSET ProjectGuids, broken : SUBSET ProjectGuids,
         lost : SUBSET ProjectGuids, touched : SUBSET ProjectGuids,
         off : SUBSET ProjectGuids]
NoPass == [pc |-> "idle", todo |-> {}, stale |-> {}, broken |-> {}, lost |-> {},
           touched |-> {}, off |-> {}]

ProjectsTypeOK ==
  /\ rows \in [ProjectGuids -> {"none", "row", "chunks"}]
  /\ collection \in [ProjectGuids -> [Slugs -> {"missing", "empty", "points"}]]
  /\ previous \subseteq ProjectGuids
  /\ slug \in Slugs
  /\ job \in [ProjectGuids -> {"none", "row", "collection", "slice", "embed"}]
  /\ retried \subseteq ProjectGuids
  /\ removal \in [ProjectGuids -> Removal]
  /\ pass \in Pass

ProjectsInit ==
  /\ rows = [p \in ProjectGuids |-> "none"]
  /\ collection = [p \in ProjectGuids |-> [m \in Slugs |-> "missing"]]
  /\ previous = {}
  /\ slug \in Slugs
  /\ job = [p \in ProjectGuids |-> "none"]
  /\ retried = {}
  /\ removal = [p \in ProjectGuids |-> NoRemoval]
  /\ pass = NoPass

-----------------------------------------------------------------------------
HasPoints(p) == collection[p][slug] = "points"
Broken(p) == rows[p] = "chunks" /\ ~HasPoints(p)
Lost(p) == rows[p] = "chunks" /\ collection[p][slug] = "missing"
Busy(p) == job[p] # "none" \/ removal[p].pc \in {"list", "drop"} \/ p \in retried

(* What a step leaves of the observations of a running pass. *)
Observe ==
  pass' = IF pass.pc = "idle" THEN pass
          ELSE [pass EXCEPT !.broken = {p \in @ : Broken(p)'},
                            !.lost = {p \in @ : Lost(p)'},
                            !.touched = @ \cup {p \in ProjectGuids :
                                            Busy(p) \/ Busy(p)' \/ rows[p] # rows[p]'}]

Disturbed(p) == removal' = [removal EXCEPT ![p].quiet = FALSE]

(* POST /index begins; ensure the row; ensure the collection, unless the request
   is symbols_only; then, for one file after the other, store chunks, which needs
   the row (a foreign key), and vectors, which needs the collection.  A file that
   only has to be embedded again has its vectors stored alone. *)
StartJob(p) ==
  /\ job[p] = "none"
  /\ job' = [job EXCEPT ![p] = "row"]
  /\ Disturbed(p)
  /\ UNCHANGED <<rows, collection, previous, slug, retried>>
  /\ Observe

JobStep(p, from, to) == job[p] = from /\ job' = [job EXCEPT ![p] = to]

EnsureRow(p) ==
  /\ \E next \in {"collection", "none"} : JobStep(p, "row", next)
  /\ rows' = [rows EXCEPT ![p] = IF @ = "none" THEN "row" ELSE @]
  /\ UNCHANGED <<collection, previous, slug, retried, removal>>
  /\ Observe

EnsureProject(p) ==
  /\ \E next \in {"slice", "embed"} : JobStep(p, "collection", next)
  /\ collection' = [collection EXCEPT ![p][slug] = IF @ = "missing" THEN "empty" ELSE @]
  /\ UNCHANGED <<rows, previous, slug, retried, removal>>
  /\ Observe

(* The new text of the only file that has chunks may have none. *)
StoreChunks(p) ==
  /\ \E next \in {"slice", "embed"} : JobStep(p, "slice", next)
  /\ rows[p] # "none"
  /\ \E now \in {"row", "chunks"} : rows' = [rows EXCEPT ![p] = now]
  /\ UNCHANGED <<collection, previous, slug, retried, removal>>
  /\ Observe

StoreVectors(p) ==
  /\ \E next \in {"slice", "embed", "none"} : JobStep(p, "embed", next)
  /\ collection[p][slug] # "missing"
  /\ collection' = [collection EXCEPT ![p][slug] = "points"]
  /\ UNCHANGED <<rows, previous, slug, retried, removal>>
  /\ Observe

(* The job fails, is cancelled, or finds nothing to do; its last upsert may be
   applied later. *)
EndJob(p) ==
  /\ job[p] # "none"
  /\ job' = [job EXCEPT ![p] = "none"]
  /\ \/ UNCHANGED retried
     \/ job[p] = "embed" /\ retried' = retried \cup {p}
  /\ UNCHANGED <<rows, collection, previous, slug, removal>>
  /\ Observe

(* The retry worker takes one file after the other that was left pending or failed,
   and embeds its chunks without a request and without ensure_project, so that an
   upsert, one for each batch, needs a collection that is there.  It may fail at any
   point; a time-out leaves an upsert behind. *)
StartRetry(p) ==
  /\ rows[p] = "chunks"
  /\ retried' = retried \cup {p}
  /\ UNCHANGED <<rows, collection, previous, slug, job, removal>>
  /\ Observe

RetryStores(p) ==
  /\ p \in retried /\ collection[p][slug] # "missing"
  /\ collection' = [collection EXCEPT ![p][slug] = "points"]
  /\ UNCHANGED <<rows, previous, slug, job, retried, removal>>
  /\ Observe

EndRetry(p) ==
  /\ p \in retried
  /\ retried' = retried \ {p}
  /\ UNCHANGED <<rows, collection, previous, slug, job, removal>>
  /\ Observe

(* DELETE /files of everything; and the collector's sweep, which may take the last
   points also where the chunks that took the place of its own have none yet. *)
DeleteFiles(p) ==
  /\ rows[p] = "chunks"
  /\ rows' = [rows EXCEPT ![p] = "row"]
  /\ UNCHANGED <<collection, previous, slug, job, retried, removal>>
  /\ Observe

SweepVectors(p) ==
  /\ rows[p] # "none" /\ HasPoints(p)
  /\ collection' = [collection EXCEPT ![p][slug] = "empty"]
  /\ UNCHANGED <<rows, previous, slug, job, retried, removal>>
  /\ Observe

-----------------------------------------------------------------------------
StartRemoval(p) ==
  /\ removal[p].pc \in {"none", "done"}
  /\ removal' = [removal EXCEPT ![p] =
       [NoRemoval EXCEPT !.pc = "rows", !.quiet = job[p] = "none"]]
  /\ UNCHANGED <<rows, collection, previous, slug, job, retried>>
  /\ Observe

(* One transaction deletes the chunks, symbols, files and the project. *)
DeleteRows(p) ==
  /\ removal[p].pc = "rows"
  /\ rows' = [rows EXCEPT ![p] = "none"]
  /\ removal' = [removal EXCEPT ![p].pc = "list"]
  /\ UNCHANGED <<collection, previous, slug, job, retried>>
  /\ Observe

(* MUTANT of ToDrop: the active model's collection only, as when nothing can be
   listed. *)
ToDropActive(p) == [todo |-> {slug}, old |-> FALSE]

(* The listed collections with the guid's prefix that are not Foreign. *)
ToDrop(p) == [todo |-> {m \in Slugs : collection[p][m] # "missing"},
              old |-> p \in previous]

ListCollections(p) ==
  /\ removal[p].pc = "list"
  /\ removal' = [removal EXCEPT ![p] =
       [@ EXCEPT !.pc = "drop", !.todo = ToDrop(p).todo, !.old = ToDrop(p).old]]
  /\ UNCHANGED <<rows, collection, previous, slug, job, retried>>
  /\ Observe

(* Nothing can be listed: only the active model's collection is dropped. *)
CannotList(p) ==
  /\ removal[p].pc = "list"
  /\ removal' = [removal EXCEPT ![p] =
       [pc |-> "drop", todo |-> {slug}, old |-> FALSE, quiet |-> FALSE]]
  /\ UNCHANGED <<rows, collection, previous, slug, job, retried>>
  /\ Observe

DropOne(p) ==
  /\ removal[p].pc = "drop"
  /\ \/ \E m \in removal[p].todo :
          /\ collection' = [collection EXCEPT ![p][m] = "missing"]
          /\ removal' = [removal EXCEPT ![p].todo = @ \ {m}]
          /\ UNCHANGED previous
     \/ /\ removal[p].old
        /\ previous' = previous \ {p}
        /\ removal' = [removal EXCEPT ![p].old = FALSE]
        /\ UNCHANGED collection
  /\ UNCHANGED <<rows, slug, job, retried>>
  /\ Observe

(* 204 *)
Removed(p) ==
  /\ removal[p].pc = "drop" /\ removal[p].todo = {} /\ ~removal[p].old
  /\ removal' = [removal EXCEPT ![p].pc = "done"]
  /\ UNCHANGED <<rows, collection, previous, slug, job, retried>>
  /\ Observe

(* SQLite or Qdrant fails, or the client leaves: what is done stays done, and
   the client may send the request again. *)
AbortRemoval(p) ==
  /\ removal[p].pc \in {"rows", "list", "drop"}
  /\ removal' = [removal EXCEPT ![p] = NoRemoval]
  /\ UNCHANGED <<rows, collection, previous, slug, job, retried>>
  /\ Observe

-----------------------------------------------------------------------------
(* check_once: the projects that have active chunks, all at one time; *)
StartPass ==
  /\ pass.pc = "idle"
  /\ pass' = [pc |-> "count", todo |-> {p \in ProjectGuids : rows[p] = "chunks"},
              stale |-> {}, broken |-> {p \in ProjectGuids : Broken(p)},
              lost |-> {p \in ProjectGuids : Lost(p)},
              touched |-> {p \in ProjectGuids : Busy(p)}, off |-> {}]
  /\ UNCHANGED <<rows, collection, previous, slug, job, retried, removal>>

(* then the points of each, one after the other: none where there is no collection,
   else Qdrant's estimate (exact(false)), which may be wrong either way. *)
SaysZero(p) == IF collection[p][slug] = "missing" THEN {TRUE} ELSE BOOLEAN

CountPoints(p) ==
  /\ pass.pc = "count" /\ p \in pass.todo
  /\ \E zero \in SaysZero(p) :
       pass' = [pass EXCEPT !.todo = @ \ {p},
                            !.stale = IF zero THEN @ \cup {p} ELSE @,
                            !.off = IF zero = HasPoints(p) THEN @ \cup {p} ELSE @]
  /\ UNCHANGED <<rows, collection, previous, slug, job, retried, removal>>

(* MUTANT of CannotCount: the project is left out of the report. *)
SkipUncounted(p) ==
  /\ pass.pc = "count" /\ p \in pass.todo
  /\ pass' = [pass EXCEPT !.todo = @ \ {p}]
  /\ UNCHANGED <<rows, collection, previous, slug, job, retried, removal>>

(* A count that fails makes the whole pass inconclusive: no gauge is set. *)
CannotCount(p) ==
  /\ pass.pc = "count" /\ p \in pass.todo
  /\ pass' = NoPass
  /\ UNCHANGED <<rows, collection, previous, slug, job, retried, removal>>

Report ==
  /\ pass.pc = "count" /\ pass.todo = {}
  /\ pass' = [pass EXCEPT !.pc = "report"]
  /\ UNCHANGED <<rows, collection, previous, slug, job, retried, removal>>

(* check_and_publish; the next pass is an hour away. *)
Publish ==
  /\ pass.pc = "report"
  /\ pass' = NoPass
  /\ UNCHANGED <<rows, collection, previous, slug, job, retried, removal>>

(* Qdrant's volume is lost. *)
LoseVolume ==
  /\ collection' = [p \in ProjectGuids |-> [m \in Slugs |-> "missing"]]
  /\ previous' = {}
  /\ UNCHANGED <<rows, slug, job, retried, removal>>
  /\ Observe

(* The server restarts, with another model or with another layout version. *)
RestartServer(m, upgrade) ==
  /\ slug' = m
  /\ IF upgrade
       THEN /\ previous' = previous \cup
                 {p \in ProjectGuids : \E q \in Slugs : collection[p][q] # "missing"}
            /\ collection' = [p \in ProjectGuids |-> [q \in Slugs |-> "missing"]]
       ELSE UNCHANGED <<previous, collection>>
  /\ job' = [p \in ProjectGuids |-> "none"]
  /\ IF m = slug /\ ~upgrade THEN UNCHANGED retried ELSE retried' = {}
  /\ removal' = [p \in ProjectGuids |->
                   IF removal[p].pc = "done" THEN removal[p] ELSE NoRemoval]
  /\ pass' = NoPass
  /\ UNCHANGED rows

-----------------------------------------------------------------------------
ProjectStep(p) ==
  \/ StartJob(p) \/ EnsureRow(p) \/ EnsureProject(p) \/ StoreChunks(p)
  \/ StoreVectors(p) \/ EndJob(p)
  \/ StartRetry(p) \/ RetryStores(p) \/ EndRetry(p)
  \/ DeleteFiles(p) \/ SweepVectors(p)
  \/ StartRemoval(p) \/ DeleteRows(p) \/ ListCollections(p) \/ CannotList(p)
  \/ DropOne(p) \/ Removed(p) \/ AbortRemoval(p)
  \/ CountPoints(p) \/ CannotCount(p)

ProjectsNext ==
  \/ \E p \in ProjectGuids : ProjectStep(p)
  \/ StartPass \/ Report \/ Publish \/ LoseVolume
  \/ \E m \in Slugs, upgrade \in BOOLEAN : RestartServer(m, upgrade)

ProjectsSpec == ProjectsInit /\ [][ProjectsNext]_projectVars

-----------------------------------------------------------------------------
(* delete_project, "EVERY collection carrying its guid goes": after a 204
   nothing is left of the project, in any model's or layout's collections, also
   when earlier attempts failed half-way; unless the listing failed, or an
   /index was under way at any time of the DELETE. *)
DeleteLeavesNothing ==
  \A p \in ProjectGuids :
    removal[p].pc = "done" /\ removal[p].quiet =>
      /\ rows[p] = "none" /\ p \notin previous
      /\ \A m \in Slugs : collection[p][m] = "missing"

(* check_once: a report that is published names every project whose collection
   has been missing all the time, and every one that has been broken in another
   way, unless Qdrant's estimate took its points for some; and one that it names is
   broken, unless an /index, a DELETE, the retry worker or a late upsert was at it or at
   its files meanwhile, or the estimate took its points for none.  A Qdrant that cannot be
   asked publishes nothing. *)
StaleReportIsRight ==
  pass.pc = "report" =>
    /\ pass.lost \subseteq pass.stale
    /\ pass.broken \ pass.off \subseteq pass.stale
    /\ \A p \in pass.stale \ (pass.touched \cup pass.off) : Broken(p)
=============================================================================
