------------------------------ MODULE Indexing ------------------------------
(***************************************************************************)
(* The indexing half of mindex: POST /index jobs, the retry worker, the    *)
(* garbage collector and the file endpoints over one store and one claim   *)
(* table, with crashes.                                                    *)
(***************************************************************************)
EXTENDS IndexRequest, RetryWorker, GarbageCollector, FileCommands

vars == <<storeVars, model, claim, requestVars, worker, gc, command>>

Init == /\ StoreInit /\ RequestInit /\ WorkerInit /\ GcInit /\ CommandInit

RunJob(r) == JobStep(r) /\ UNCHANGED <<model, worker, gc, command>>

RunClient(r) == ClientStep(r) /\ UNCHANGED <<model, worker, gc, command>>

RunBlockingPool ==
  /\ \E t \in detached : RunDetached(t)
  /\ UNCHANGED <<model, worker, gc, command>>

RunWorker == WorkerStep /\ UNCHANGED <<model, requestVars, gc, command>>

RunCollector == GcStep /\ UNCHANGED <<model, claim, requestVars, worker, command>>

ServeCommand(c) ==
  CommandServed(c) /\ UNCHANGED <<model, claim, requestVars, worker, gc>>

SendCommand(c) ==
  CommandSent(c) /\ UNCHANGED <<model, claim, requestVars, worker, gc>>

(* The process dies and is started again, perhaps with another [model].id:
   what SQLite and Qdrant hold survives, what the process held does not. *)
Restart ==
  /\ "crash" \in Faults
  /\ model' \in Models
  /\ claim' = [f \in Files |-> None]
  /\ req' = [r \in Requests |->
       IF At(r, "new") THEN req[r]
       ELSE [pc |-> "done", mode |-> req[r].mode, text |-> None, todo |-> {},
             cur |-> None, prepared |-> {}, pending |-> {}, token |-> FALSE]]
  /\ detached' = {}
  /\ worker' = [pc |-> "idle", todo |-> {}, file |-> None, pending |-> {}]
  /\ PassDone
  /\ command' = [c \in Commands |-> [kind |-> "cancel", paths |-> {}]]
  /\ NoWrite

Next ==
  \/ \E r \in Requests : RunJob(r) \/ RunClient(r)
  \/ RunBlockingPool
  \/ RunWorker
  \/ RunCollector
  \/ \E c \in Commands : ServeCommand(c) \/ SendCommand(c)
  \/ Restart

Spec == Init /\ [][Next]_vars

(* The server's own tasks are scheduled; clients and failures owe nothing.
   A row left alone grows old, so a sweep that may take it comes round for
   ever, and one of them takes it; and the hourly tick finds the collector
   free again and again. *)
Fairness ==
  /\ \A r \in Requests : WF_vars(RunJob(r))
  /\ \A c \in Commands : WF_vars(ServeCommand(c))
  /\ WF_vars(RunBlockingPool)
  /\ WF_vars(RunWorker)
  /\ \A f \in Files : SF_vars(RunWorker /\ f \in worker'.todo \ worker.todo)
  /\ WF_vars(RunCollector)
  /\ SF_vars(RunCollector /\ StartPass(FALSE))

FairSpec == Spec /\ Fairness

-----------------------------------------------------------------------------
TypeOK == StoreTypeOK /\ RequestTypeOK /\ WorkerTypeOK /\ GcTypeOK /\ CommandTypeOK

(* The files whose IndexClaim request r holds on its call stack. *)
Holding(r) == req[r].prepared \cup ({req[r].cur} \ {None})

(* Whoever works on a file holds its claim, so nobody else does: IndexClaim
   serialises the whole pipeline of a file, across requests and the worker. *)
ClaimsHeld ==
  /\ \A r \in Requests : \A f \in Holding(r) : claim[f] = r
  /\ worker.file # None => claim[worker.file] = Worker

(* A claim does not outlive the work it was taken for, whichever way the work
   ended; drop_cancelled's claims go when the whole set has been dropped. *)
NoClaimLeaks ==
  \A f \in Files :
    /\ \A r \in Requests : claim[f] = r => f \in Holding(r) \/ At(r, "drop")
    /\ claim[f] = Worker => worker.file = f

(* The claim table is exact: it names who works on a file, and nobody else. *)
ClaimsMatchWork == ClaimsHeld /\ NoClaimLeaks

(* A file the database calls 'indexed' is searchable: each of its active
   chunks has its point in the collection of the model the row names. *)
IndexedHasVectors ==
  \A f \in Files : status[f] = "indexed" =>
    \A c \in ActiveOf(f) : <<embeddedBy[f], c>> \in vectors

(* The hash of an 'indexed' row is the hash of the text its chunks were cut
   from: the hash skip, drift and symbols_only all rely on it. *)
IndexedShaDescribesChunks ==
  \A f \in Files : status[f] = "indexed" =>
    \A c \in ActiveOf(f) : c.text = sha[f]

(* An 'indexed' file has all the chunks its text slices into. *)
IndexedIsComplete ==
  \A f \in Files : status[f] = "indexed" =>
    {c.ix : c \in ActiveOf(f)} = 1 .. Pieces[f, sha[f]]

(* Every point of the active collection has a chunk row, or the collector
   could never find it again. *)
VectorsTracked ==
  \A p \in vectors : p[1] = model => p[2] \in active \cup deleted

(* Symbol rows parallel the chunk set: stored symbols come from the text the
   active chunks were cut from. *)
SymbolsParallelChunks ==
  \A f \in Files : symbols[f] # None =>
    \A c \in ActiveOf(f) : c.text = symbols[f]

(* The collector never takes the point of a chunk that search can still
   return, although it selects a batch in one step and deletes in later ones. *)
CollectorSparesActive ==
  [][\A p \in vectors \ vectors' : p[2] \notin active]_vars

(* A file somebody cancelled or deleted comes back only by a request that
   indexes it, never by the retry worker. *)
StoppedStaysStopped ==
  [][\A f \in Files :
       status[f] \in {"cancelled", "deleted"} /\ status'[f] = "indexing"
         => claim[f] \in Requests]_vars

(* A cancellation that arrives after indexing finished is a no-op. *)
LateCancelIsNoOp ==
  [][\A f \in Files :
       status[f] = "indexed" /\ status'[f] = "indexed" /\ claim[f] = None
         => {c \in active' : c.file = f} = ActiveOf(f)]_vars

(* A cancelled file shows no chunks once no request works on it. *)
CancelledHidesChunks ==
  \A f \in Files : status[f] = "cancelled" /\ claim[f] = None => ActiveOf(f) = {}

(* An 'indexing' row is work in progress: somebody holds the file's claim, so
   the stuck-file sweep has only crashes to clean up after. *)
IndexingIsClaimed ==
  \A f \in Files : status[f] = "indexing" => claim[f] # None

-----------------------------------------------------------------------------
(* The stage of a file, as a client of the index sees it.  An 'indexed' row
   counts as published only if what it shows is searchable and is what the
   row says it is; otherwise it is in no stage of the lifecycle. *)
Stage(f) ==
  CASE status[f] = "indexed" ->
         IF \A c \in ActiveOf(f) :
              c.text = sha[f] /\ <<embeddedBy[f], c>> \in vectors
           THEN "published" ELSE "broken"
    [] status[f] = "indexing" -> "pending"
    [] status[f] = "cancelled" -> "stopped"
    [] OTHER -> status[f]

File(f) == INSTANCE FileLifecycle WITH stage <- Stage(f), version <- sha[f]

(* Each file of the index implements the lifecycle.  (\A f : File(f)!Spec,
   with the boxes joined into one.) *)
FilesFollowLifecycle ==
  /\ \A f \in Files : File(f)!Init
  /\ [][\A f \in Files : File(f)!Next \/ UNCHANGED <<Stage(f), sha[f]>>]_vars

-----------------------------------------------------------------------------
(* How far a job is: the part of run_index_job it is in, and within the loop over
   the files how far it is with the file in hand. *)
Phase(job) ==
  CASE job.pc = "new" -> 0
    [] job.pc = "drop" -> 2
    [] job.pc = "embed" -> 3
    [] job.pc \in {"confirm", "recover_failed", "recover_cancelled"} -> 4
    [] job.pc = "done" -> 5
    [] OTHER -> 1

FilePlace(job) ==
  CASE job.pc = "check" -> 1
    [] job.pc = "mark" -> 2
    [] job.pc = "document" -> 3
    [] job.pc = "slice" -> 4
    [] job.pc \in {"slice_failed", "slice_cancelled"} -> 5
    [] OTHER -> 6

SweepPlace(w) ==
  CASE w.pc = "check" -> 1
    [] w.pc = "mark" -> 2
    [] w.pc = "read" -> 3
    [] w.pc = "embed" -> 4
    [] w.pc \in {"confirm", "fail"} -> 5
    [] w.pc = "idle" -> 6

(* Less of a loop over files is left, or as much of it, with the file in hand at a
   later place or, at the same place, with fewer chunks to embed. *)
Fewer(S, T) == S \subseteq T /\ S # T

LessToDo(new, old, newPlace, oldPlace) ==
  \/ Fewer(new.todo, old.todo)
  \/ new.todo = old.todo /\ oldPlace < newPlace
  \/ new.todo = old.todo /\ oldPlace = newPlace /\ Fewer(new.pending, old.pending)

JobAdvances(r) ==
  \/ Phase(req[r]) < Phase(req'[r])
  \/ /\ Phase(req[r]) = Phase(req'[r])
     /\ LessToDo(req'[r], req[r], FilePlace(req'[r]), FilePlace(req[r]))

SweepAdvances == LessToDo(worker', worker, SweepPlace(worker'), SweepPlace(worker))
SweepBegins == worker.pc = "idle" /\ worker.todo = {} /\ worker'.pc = "idle"

(* run_index_job and the retry worker never start over: each step of a job leaves
   less of the request to do and each step of a sweep less of the sweep, whatever
   fails; others only begin a job, end it or cancel its token, and only a restart
   ends a sweep. *)
NobodyStartsOver ==
  [][/\ \A r \in Requests :
          \/ JobAdvances(r)
          \/ /\ ~RunJob(r)
             /\ \/ req'[r] \in {req[r], [req[r] EXCEPT !.token = TRUE]}
                \/ req'[r].pc = "done"
     /\ \/ SweepAdvances \/ SweepBegins \/ Restart
        \/ ~RunWorker /\ worker' = worker]_vars

(* A request once sent is answered. *)
RequestsEnd == \A r \in Requests : ~At(r, "new") ~> At(r, "done")

(* A deleted file that no request works on, nor a transaction that outlived its
   request, and that shows no chunks ... *)
Drained(f) ==
  /\ status[f] = "deleted" /\ claim[f] = None /\ ActiveOf(f) = {}
  /\ \A t \in detached : t.file # f

(* ... is gone in the end, or indexed again, whatever clients do: its chunk rows
   and symbols do not hold its row back. *)
DrainedFilesGo == \A f \in Files : Drained(f) ~> status[f] # "deleted"

(* No file stays 'indexing' for ever: the retry worker takes up what a job
   left behind, and publishes it or fails it. *)
InterruptedFilesResolve ==
  \A f \in Files : status[f] = "indexing" ~> status[f] # "indexing"
=============================================================================
