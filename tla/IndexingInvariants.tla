------------------------- MODULE IndexingInvariants -------------------------
(***************************************************************************)
(* Why the claims are held and why an 'indexed' file has its vectors: what *)
(* has to be added to those properties to make them inductive.             *)
(***************************************************************************)
EXTENDS Indexing

OnOneFile == {"check", "mark", "document", "slice", "slice_failed",
              "slice_cancelled"}
Preparing == {"pick", "check", "mark", "document", "slice"}
Publishing == Preparing \cup {"drop", "embed", "confirm"}

-----------------------------------------------------------------------------
(* Where a job stands says whether it has a file in hand, and that it knows
   the text it was sent. *)
InPlace(job) ==
  /\ job.pc \in OnOneFile <=> job.cur # None
  /\ job.pc \notin {"new", "done"} => job.text \in Versions

JobPlace == \A r \in Requests : InPlace(req[r])

TypeInv == TypeOK /\ JobPlace

(* The file in hand is not one the job has still to take or has prepared. *)
JobShape ==
  \A r \in Requests :
    /\ req[r].cur \notin req[r].prepared \cup req[r].todo
    /\ At(r, "new") => req[r].prepared = {}

WorkerPlace == worker.pc # "idle" <=> worker.file # None

(* Inductive under every failure; TypeOK and ClaimsMatchWork follow from it. *)
ClaimInv ==
  /\ TypeInv /\ JobShape /\ WorkerPlace
  /\ ClaimsHeld /\ NoClaimLeaks

-----------------------------------------------------------------------------
(* No transaction runs behind the back of the claim. *)
NothingDetached == detached = {}

(* What is about to be published was embedded to the end, and what is about
   to be sliced is not published. *)
JobReady ==
  \A r \in Requests :
    /\ At(r, "confirm") => req[r].todo \subseteq req[r].prepared
                           /\ req[r].pending = {}
    /\ req[r].pc \in {"document", "slice"} => status[req[r].cur] # "indexed"
    /\ At(r, "document") => req[r].mode = "full"

WorkerReady == worker.pc = "confirm" => worker.pending = {}

(* A chunk row never becomes active again, and what the collector has
   selected is deleted for good. *)
DeletedForGood == active \cap (deleted \cup gc.batch) = {}

(* The files a request has still to slice: no chunk row bears its name yet. *)
Unsliced(r) ==
  CASE At(r, "new") -> Files
    [] req[r].pc \in Preparing /\ ~req[r].token
         -> req[r].todo \cup ({req[r].cur} \ {None})
    [] OTHER -> {}

FreshChunks ==
  \A c \in active \cup deleted \cup gc.batch : c.file \notin Unsliced(c.by)

(* A request leaves at most one slicing behind, and then slices nothing itself. *)
LastSlicing ==
  \A t \in detached : t.op = "slice" =>
    /\ Unsliced(t.by) = {}
    /\ \A u \in detached : u.op = "slice" /\ u.by = t.by => u = t
    /\ \A c \in active \cup deleted \cup gc.batch : c.file # t.file \/ c.by # t.by

(* Inductive under every failure. *)
ChunkInv == ClaimInv /\ DeletedForGood /\ FreshChunks /\ LastSlicing

(* What is active in a file a request is about to publish is embedded, or in
   the request's batch ... *)
JobCovers ==
  \A r \in Requests : req[r].pc \in Publishing =>
    \A x \in req[r].prepared : \A c \in ActiveOf(x) :
      c \in req[r].pending \/ <<model, c>> \in vectors

(* ... and the row of the file names the model the batch is embedded with. *)
Stamped(r) ==
  req[r].prepared \cup {x \in {req[r].cur} : req[r].pc \in {"document", "slice"}}

JobStamps ==
  \A r \in Requests : req[r].mode = "full" =>
    \A x \in Stamped(r) : embeddedBy[x] = model \/ status[x] = "absent"

WorkerCovers ==
  worker.pc \in {"embed", "confirm"} =>
    \A c \in ActiveOf(worker.file) :
      c \in worker.pending \/ <<model, c>> \in vectors

(* Inductive when no transaction outlives the future that awaited it. *)
IndInv ==
  /\ ClaimInv /\ NothingDetached
  /\ JobReady /\ WorkerReady
  /\ DeletedForGood /\ FreshChunks
  /\ JobCovers /\ JobStamps /\ WorkerCovers
  /\ IndexedHasVectors

-----------------------------------------------------------------------------
(* The order a job goes through its steps in: only the cancellation of a stream
   is recovered from as one, only documents are sliced ahead, what a job drops, confirms or
   recovers it has prepared, and a symbol pass prepares nothing. *)
JobOrder ==
  \A r \in Requests :
    /\ req[r].token \/ req[r].pc \in {"slice_cancelled", "recover_cancelled"}
         => "stream_cancel" \in Faults
    /\ At(r, "document") => req[r].cur \in Markdown
    /\ req[r].pc \in {"drop", "confirm", "recover_failed", "recover_cancelled"}
         => req[r].todo \subseteq req[r].prepared
    /\ req[r].mode = "symbols" =>
         req[r].pc \in {"pick", "check", "done"} /\ req[r].prepared = {}

(* A handler works on paths only for the endpoint a client asked for. *)
CommandsAsked ==
  \A c \in Commands : command[c].paths # {} => command[c].kind \in CommandKinds

(* A row knows its text, and chunk rows do not outlive their file's row. *)
RowsKnown ==
  \A f \in Files :
    /\ status[f] = "absent" => ActiveOf(f) = {}
    /\ status[f] # "absent" => sha[f] \in Versions

(* Inductive under every failure. *)
OrderInv == ClaimInv /\ JobOrder /\ CommandsAsked /\ RowsKnown

-----------------------------------------------------------------------------
(* Clients neither cancel nor delete files. *)
NoStops == CommandKinds \subseteq {"retry"}

(* The worker re-checked the status of its file, and nobody moved it since. *)
WorkerSure ==
  worker.pc = "mark" => status[worker.file] \in {"indexing", "failed"}

(* Inductive when clients neither cancel nor delete files. *)
StopInv == OrderInv /\ NothingDetached /\ WorkerSure

-----------------------------------------------------------------------------
(* The failures every file is recovered from: a job fails before it has marked
   its file, or recovers it. *)
Recovered ==
  /\ Faults \subseteq {"embed", "qdrant", "slice"}
  /\ "slice" \in Faults => Markdown = {}

(* The claimed files a job is done with, or has not begun. *)
Settled(r) ==
  CASE req[r].pc \in {"check", "mark"} -> {req[r].cur}
    [] At(r, "drop") -> {f \in Files : claim[f] = r} \ (req[r].prepared \ req[r].todo)
    [] req[r].pc \in {"confirm", "recover_failed", "recover_cancelled"}
         -> req[r].prepared \ req[r].todo
    [] OTHER -> {}

JobSettles == \A r \in Requests : \A f \in Settled(r) : status[f] # "indexing"

(* Inductive under the failures Recovered allows. *)
PendingInv == OrderInv /\ NothingDetached /\ JobSettles /\ IndexingIsClaimed

-----------------------------------------------------------------------------
(* The failures that do not come between the write of a new hash and the
   transaction that slices the text it is the hash of. *)
Sliced ==
  /\ Faults \subseteq {"embed", "qdrant", "stream_cancel"}
  /\ "stream_cancel" \in Faults => Markdown = {}

(* The chunks of a file are those of the text its row names, all of them
   unless some client took them away. *)
Fresh(f) == \A c \in ActiveOf(f) : c.text = sha[f]

Complete(f) == {c.ix : c \in ActiveOf(f)} = 1 .. Pieces[f, sha[f]]

Whole(f) == Fresh(f) /\ (NoStops /\ status[f] # "absent" => Complete(f))

(* The file whose row a request has written, and not yet its chunks. *)
Torn(r) ==
  {f \in {req[r].cur} : /\ req[r].mode = "full"
                        /\ req[r].pc \in {"document", "slice", "slice_cancelled"}}

OnlyTornAreBroken ==
  \A f \in Files :
    \/ Whole(f) \/ status[f] = "cancelled"
    \/ status[f] = "indexing" /\ \E r \in Requests : f \in Torn(r)

(* Who is about to publish a file again, from its stored chunks, saw them whole. *)
RepublishWhole ==
  \A f \in Files :
    /\ \A r \in Requests :
         At(r, "mark") /\ req[r].mode = "vectors" /\ req[r].cur = f => Whole(f)
    /\ worker.pc = "mark" /\ worker.file = f => Whole(f)

(* The row of a file being published names the text of the request; without
   /cancel and DELETE it is 'indexing' until it is published. *)
JobHashes ==
  \A r \in Requests : req[r].mode = "full" =>
    \A x \in Stamped(r) :
      /\ sha[x] = req[r].text \/ status[x] = "absent"
      /\ NoStops /\ req[r].pc \in Preparing => status[x] = "indexing"

NothingDropped == NoStops => \A r \in Requests : At(r, "drop") => req[r].todo = {}

(* Inductive under the failures Sliced allows. *)
ContentInv ==
  /\ OrderInv /\ NothingDetached
  /\ OnlyTornAreBroken /\ RepublishWhole /\ JobHashes /\ NothingDropped

-----------------------------------------------------------------------------
(* No prepare fails after another file of its request was prepared: nothing
   fails but the embedder and Qdrant, and no row vanishes under a job, or there
   is no other file. *)
NeverAborted ==
  /\ Faults \subseteq {"embed", "qdrant"}
  /\ "delete" \notin CommandKinds \/ \A f, g \in Files : f = g

(* What a job has sliced, or has found cancelled, and will drop. *)
Dropping(r) ==
  CASE req[r].mode = "full" /\ req[r].pc \in Preparing -> req[r].prepared
    [] req[r].mode = "full" /\ At(r, "drop") -> req[r].todo
    [] OTHER -> {}

CancelledAreDropped ==
  \A f \in Files : status[f] = "cancelled" =>
    ActiveOf(f) = {} \/ \E r \in Requests : f \in Dropping(r)

(* Without DELETE no row vanishes. *)
RowsStay ==
  "delete" \notin CommandKinds =>
    /\ \A f \in Files : status[f] # "deleted"
    /\ \A r \in Requests :
         req[r].pc \in {"document", "slice"} => status[req[r].cur] # "absent"

(* Inductive when no prepare is aborted. *)
CancelInv ==
  /\ OrderInv /\ NothingDetached
  /\ CancelledAreDropped /\ RowsStay

-----------------------------------------------------------------------------
(* The model of the collections never changes. *)
OneModel == "crash" \notin Faults \/ \A m, n \in Models : m = n

(* What is on its way to Qdrant is active ... *)
BatchIsActive ==
  /\ \A r \in Requests : req[r].pc \in Publishing \cup {"new"} =>
       \A c \in req[r].pending : c \in active /\ c.file \in req[r].prepared
  /\ worker.pc = "embed" => worker.pending \subseteq ActiveOf(worker.file)

(* ... and what is about to lose its row has lost its point. *)
PurgedAfterVectors ==
  gc.pc = "purge" => \A c \in gc.batch : <<model, c>> \notin vectors

(* Inductive when clients neither cancel nor delete files and the model stays. *)
TrackedInv ==
  /\ IndInv /\ OrderInv
  /\ BatchIsActive /\ PurgedAfterVectors /\ VectorsTracked
=============================================================================
