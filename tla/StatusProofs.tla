----------------------------- MODULE StatusProofs -----------------------------
(***************************************************************************)
(* What the status of a file says about the work on it: an 'indexing' file *)
(* is being worked on, a cancelled one shows nothing, and one that was     *)
(* stopped is not taken up by the retry worker.  Each holds under its own  *)
(* conditions on the failures and on what clients do.                      *)
(***************************************************************************)
EXTENDS IndexingProofs

-----------------------------------------------------------------------------
(* What a step does to the row and to the chunks of one file. *)
Untouched(f) ==
  /\ status'[f] = status[f] /\ sha'[f] = sha[f] /\ ActiveOf(f)' = ActiveOf(f)

Taken(f, v) ==
  /\ status'[f] = "indexing" /\ sha'[f] = v /\ ActiveOf(f)' = ActiveOf(f)

Requeued(f) ==
  /\ status[f] # "absent" /\ status'[f] = "indexing"
  /\ sha'[f] = sha[f] /\ ActiveOf(f)' = ActiveOf(f)

Resliced(f, v, r) ==
  /\ CanInsert(f, v)
  /\ status'[f] = status[f] /\ sha'[f] = sha[f]
  /\ ActiveOf(f)' = SlicesOf(f, v, r)

Cleared(f) ==
  /\ status'[f] = status[f] /\ sha'[f] = sha[f] /\ ActiveOf(f)' = {}

Ended(f, new) ==
  /\ status'[f] = IF status[f] = "indexing" THEN new ELSE status[f]
  /\ sha'[f] = sha[f] /\ ActiveOf(f)' = ActiveOf(f)

Confirmed(f, v) ==
  /\ status[f] = "indexing" => status'[f] = "indexed" /\ sha'[f] = v
  /\ status[f] # "indexing" => status'[f] = status[f] /\ sha'[f] = sha[f]
  /\ ActiveOf(f)' = ActiveOf(f)

(* What a job does to a file: nothing, unless it holds the file's claim. *)
JobWrites(r, f) ==
  \/ Untouched(f)
  \/ /\ claim[f] = r
     /\ \/ At(r, "mark") /\ f = req[r].cur
           /\ req[r].mode = "full" /\ Taken(f, req[r].text)
        \/ At(r, "mark") /\ f = req[r].cur
           /\ req[r].mode = "vectors" /\ Requeued(f)
        \/ At(r, "slice") /\ f = req[r].cur
           /\ req[r].mode = "full" /\ Resliced(f, req[r].text, r)
        \/ At(r, "drop") /\ f \in req[r].todo /\ Cleared(f)
        \/ /\ At(r, "confirm") /\ f \in req[r].todo
           /\ \/ req[r].mode = "full" /\ Confirmed(f, req[r].text)
              \/ req[r].mode # "full" /\ Ended(f, "indexed")
        \/ req[r].pc \in {"slice_failed", "recover_failed"} /\ Ended(f, "failed")
        \/ /\ req[r].pc \in {"slice_cancelled", "recover_cancelled"}
           /\ Ended(f, "cancelled")

WorkerWrites(f) ==
  \/ Untouched(f)
  \/ /\ claim[f] = Worker /\ f = worker.file
     /\ \/ worker.pc = "mark" /\ Requeued(f)
        \/ worker.pc = "confirm" /\ Ended(f, "indexed")
        \/ worker.pc = "fail" /\ Ended(f, "failed")

Emptying(f) ==
  /\ status[f] = "deleted" /\ status'[f] = "absent" /\ sha'[f] = None
  /\ ActiveOf(f) = {} /\ ActiveOf(f)' = {}

CollectorWrites(f) == Untouched(f) \/ Emptying(f)

CommandWrites(c, f) ==
  \/ Untouched(f)
  \/ /\ f \in command[c].paths /\ ActiveOf(f)' = {} /\ sha'[f] = sha[f]
     /\ \/ /\ command[c].kind = "cancel"
           /\ status'[f] = IF status[f] = "indexing" THEN "cancelled" ELSE status[f]
        \/ /\ command[c].kind = "delete"
           /\ status'[f] = IF status[f] # "absent" THEN "deleted" ELSE "absent"

-----------------------------------------------------------------------------
(* The same, of each statement. *)
LEMMA NothingWritten == NoWrite => \A f \in Files : Untouched(f)
BY DEF NoWrite, storeVars, rowVars, chunkVars, Untouched, ActiveOf

(* set_file_status moves one row, and only along a legal transition. *)
LEMMA StatusWritten ==
  ASSUME StoreTypeOK, NEW g \in Files, NEW new \in Statuses, NEW bump,
         SetFileStatus(g, new, bump)
  PROVE  /\ \A f \in Files \ {g} : Untouched(f)
         /\ sha'[g] = sha[g] /\ ActiveOf(g)' = ActiveOf(g)
         /\ status'[g] = IF CanMove(g, new) THEN new ELSE status[g]
<1>1. UNCHANGED <<sha, active>>
  BY DEF SetFileStatus, chunkVars
<1>2. status' = IF CanMove(g, new) THEN [status EXCEPT ![g] = new] ELSE status
  BY DEF SetFileStatus
<1> QED
  BY <1>1, <1>2 DEF Untouched, ActiveOf, StoreTypeOK, TablesTypeOK

(* A failure or a cancellation ends work in progress, and only that. *)
LEMMA EndWritten ==
  ASSUME StoreTypeOK, NEW g \in Files, NEW new \in {"failed", "cancelled"}, NEW bump,
         SetFileStatus(g, new, bump)
  PROVE  Ended(g, new) /\ \A f \in Files \ {g} : Untouched(f)
BY StatusWritten DEF Ended, CanMove, Legal, Statuses

(* mark_indexing takes one row; no other is touched. *)
LEMMA MarkWritten ==
  ASSUME StoreTypeOK, NEW g \in Files, NEW v, MarkIndexing(g, v)
  PROVE  Taken(g, v) /\ \A f \in Files \ {g} : Untouched(f)
BY DEF MarkIndexing, chunkVars, Taken, Untouched, ActiveOf, StoreTypeOK, TablesTypeOK

(* A file is taken up again for a pass without chunks, if it may be. *)
LEMMA RequeueWritten ==
  ASSUME StoreTypeOK, NEW g \in Files, SetFileStatus(g, "indexing", FALSE)
  PROVE  /\ \A f \in Files \ {g} : Untouched(f)
         /\ CanMove(g, "indexing") => Requeued(g)
         /\ ~CanMove(g, "indexing") => Untouched(g)
BY StatusWritten DEF Requeued, Untouched, CanMove, Legal, Statuses

(* The chunks a slice inserts are chunks of its file. *)
LEMMA SliceFiles ==
  ASSUME NEW f, NEW v, NEW r, NEW c \in SlicesOf(f, v, r)
  PROVE  c.file = f /\ c.text = v
<1>1. PICK i \in 1 .. Pieces[f, v] :
        c = [file |-> f, text |-> v, tok |-> TokenizerOf[model], by |-> r, ix |-> i]
  BY DEF SlicesOf
<1> QED
  BY <1>1

(* There is no number from 1 to 0. *)
LEMMA NoneUpToZero == \A i \in 1 .. 0 : FALSE
OBVIOUS

(* A text of no pieces has no slices. *)
LEMMA NoSlices ==
  ASSUME NEW f, NEW v, NEW r, Pieces[f, v] = 0 PROVE SlicesOf(f, v, r) = {}
<1>1. \A i \in 1 .. Pieces[f, v] : FALSE
  BY NoneUpToZero, Zenon
<1> SUFFICES ASSUME NEW c \in SlicesOf(f, v, r) PROVE FALSE
  OBVIOUS
<1>2. PICK i \in 1 .. Pieces[f, v] :
        c = [file |-> f, text |-> v, tok |-> TokenizerOf[model], by |-> r, ix |-> i]
  BY DEF SlicesOf
<1> QED
  BY <1>1, <1>2, Zenon

(* The slicing transaction replaces the chunks of one file. *)
LEMMA SliceWritten ==
  ASSUME NEW g \in Files, NEW v, NEW r, CanInsert(g, v), ReplaceChunks(g, v, r)
  PROVE  Resliced(g, v, r) /\ \A f \in Files \ {g} : Untouched(f)
<1>1. /\ active' = (active \ ActiveOf(g)) \cup SlicesOf(g, v, r)
      /\ UNCHANGED <<status, sha>>
  BY DEF ReplaceChunks, rowVars
<1>2. \A c \in SlicesOf(g, v, r) : c.file = g
  BY SliceFiles
<1>3. ActiveOf(g)' = SlicesOf(g, v, r)
  BY <1>1, <1>2 DEF ActiveOf
<1>4. \A f \in Files \ {g} : ActiveOf(f)' = ActiveOf(f)
  BY <1>1, <1>2 DEF ActiveOf
<1> QED
  BY <1>1, <1>3, <1>4 DEF Resliced, Untouched

(* Dropping chunks empties the files it is about and no other. *)
LEMMA DropWritten ==
  ASSUME NEW B, DropChunksOf(B), NEW f \in Files
  PROVE  /\ f \in B => ActiveOf(f)' = {}
         /\ f \notin B => ActiveOf(f)' = ActiveOf(f)
BY DEF DropChunksOf, ActiveOf

(* The confirm of an index pass writes status and hash of one row. *)
LEMMA ConfirmWritten ==
  ASSUME StoreTypeOK, NEW g \in Files, NEW v, MarkIndexed(g, v)
  PROVE  Confirmed(g, v) /\ \A f \in Files \ {g} : Untouched(f)
BY DEF MarkIndexed, chunkVars, Confirmed, Untouched, ActiveOf, StoreTypeOK,
   TablesTypeOK

(* The confirm of a re-embedding writes the status of one row. *)
LEMMA ReembedWritten ==
  ASSUME StoreTypeOK, NEW g \in Files, MarkReembedded(g)
  PROVE  Ended(g, "indexed") /\ \A f \in Files \ {g} : Untouched(f)
BY DEF MarkReembedded, chunkVars, Ended, Untouched, ActiveOf, StoreTypeOK,
   TablesTypeOK

(* An upsert touches no row. *)
LEMMA UpsertWritten == ASSUME NEW S, Upsert(S) PROVE \A f \in Files : Untouched(f)
BY DEF Upsert, rowVars, chunkVars, Untouched, ActiveOf

-----------------------------------------------------------------------------
(* A job writes to the files it holds, and to no other. *)
LEMMA JobWritesOwn ==
  ASSUME ClaimInv, JobOrder, NEW r \in Requests, JobStep(r), NEW f \in Files
  PROVE  JobWrites(r, f)
<1>1. /\ TypeInv /\ StoreTypeOK /\ req[r] \in Job /\ InPlace(req[r])
      /\ Consistent(r, req[r], claim) /\ None \notin Files
  BY ClaimInvIsConsistent, StoreAssumption
  DEF TypeInv, TypeOK, RequestTypeOK, JobPlace
<1>2. req[r].pc \in OnOneFile => req[r].cur \in Files /\ claim[req[r].cur] = r
  BY <1>1 DEF InPlace, Job, Consistent, Held
<1>3. req[r].pc \in {"drop", "confirm", "recover_failed", "recover_cancelled"} =>
        \A g \in req[r].todo : g \in Files /\ claim[g] = r
  BY <1>1 DEF JobOrder, Job, Consistent, Held
<1>4. NoWrite => JobWrites(r, f)
  BY NothingWritten DEF JobWrites
<1>5. ASSUME NEW g \in req[r].todo, DropCancelled(r, g) PROVE JobWrites(r, f)
  <2>1. CASE NoWrite
    BY <1>4, <2>1
  <2>2. CASE DropChunksOf({g}) /\ UNCHANGED <<rowVars, vectors>>
    BY <1>3, <1>5, <2>2, DropWritten
    DEF DropCancelled, At, rowVars, JobWrites, Cleared, Untouched
  <2> QED
    BY <1>5, <2>1, <2>2 DEF DropCancelled
<1>6. ASSUME NEW g \in req[r].todo, Confirm(r, g) PROVE JobWrites(r, f)
  <2>1. g \in Files /\ claim[g] = r /\ At(r, "confirm")
    BY <1>3, <1>6 DEF Confirm, At
  <2>2. CASE req[r].mode = "full"
    BY <1>1, <1>6, <2>1, <2>2, ConfirmWritten DEF Confirm, JobWrites
  <2>3. CASE req[r].mode # "full"
    BY <1>1, <1>6, <2>1, <2>3, ReembedWritten DEF Confirm, JobWrites
  <2> QED
    BY <2>2, <2>3
<1>7. ASSUME NEW g \in req[r].todo, RecoverOne(r, g) PROVE JobWrites(r, f)
  <2>1. g \in Files /\ claim[g] = r
    BY <1>3, <1>7 DEF RecoverOne, At
  <2> QED
    BY <1>1, <1>4, <1>7, <2>1, EndWritten DEF RecoverOne, At, JobWrites
<1>8. CASE SkipFile(r) \/ NeedsWork(r) \/ CheckOrMarkFails(r) \/ SliceDocument(r)
             \/ DocumentFails(r) \/ ReadStored(r) \/ SliceFails(r) \/ SliceCancelled(r)
             \/ Reconcile(r) \/ BeginEmbed(r) \/ SymbolsDone(r) \/ EmbedFails(r)
             \/ BeginConfirm(r) \/ ConfirmFails(r) \/ Return(r)
             \/ \E g \in req[r].todo : SkipInFlight(r, g) \/ TakeClaim(r, g)
  BY <1>4, <1>8
  DEF SkipFile, NeedsWork, CheckOrMarkFails, SliceDocument, DocumentFails, ReadStored,
      SliceFails, SliceCancelled, Reconcile, BeginEmbed, SymbolsDone, EmbedFails,
      BeginConfirm, ConfirmFails, Return, SkipInFlight, TakeClaim
<1>9. CASE RebuildSymbols(r)
  BY <1>9 DEF RebuildSymbols, ReplaceSymbols, rowVars, JobWrites, Untouched, ActiveOf
<1>10. CASE Mark(r)
  BY <1>1, <1>2, <1>10, MarkWritten DEF Mark, At, OnOneFile, JobWrites
<1>11. CASE MarkStored(r)
  BY <1>1, <1>2, <1>11, RequeueWritten DEF MarkStored, At, OnOneFile, JobWrites
<1>12. CASE Slice(r)
  BY <1>1, <1>2, <1>12, SliceWritten DEF Slice, At, OnOneFile, JobWrites
<1>13. CASE RecoverCurrent(r)
  BY <1>1, <1>2, <1>4, <1>13, EndWritten
  DEF RecoverCurrent, At, OnOneFile, JobWrites
<1>14. ASSUME NEW S, EmbedBatch(r, S) PROVE JobWrites(r, f)
  BY <1>14, UpsertWritten DEF EmbedBatch, JobWrites
<1> QED
  BY <1>5, <1>6, <1>7, <1>8, <1>9, <1>10, <1>11, <1>12, <1>13, <1>14 DEF JobStep

(* So does the worker. *)
LEMMA WorkerWritesOwn ==
  ASSUME ClaimInv, WorkerStep, NEW f \in Files
  PROVE  WorkerWrites(f)
<1>1. /\ StoreTypeOK /\ WorkerTypeOK /\ WorkerPlace
      /\ worker.file # None => claim[worker.file] = Worker
  BY ClaimInvIsConsistent DEF TypeInv, TypeOK
<1>2. worker.pc # "idle" => worker.file \in Files /\ claim[worker.file] = Worker
  BY <1>1 DEF WorkerTypeOK, WorkerPlace
<1>3. NoWrite => WorkerWrites(f)
  BY NothingWritten DEF WorkerWrites
<1>4. CASE \/ \E S \in (SUBSET Candidates) \ {{}} : Sweep(S)
           \/ \E g \in worker.todo : WorkerSkipsClaimed(g) \/ WorkerTakesClaim(g)
           \/ Recheck \/ WorkerReads \/ WorkerEmbedFails \/ WorkerTxFails
  BY <1>3, <1>4
  DEF Sweep, WorkerSkipsClaimed, WorkerTakesClaim, Recheck, WorkerReads,
      WorkerEmbedFails, WorkerTxFails
<1>5. CASE WorkerMarks
  BY <1>1, <1>2, <1>5, RequeueWritten DEF WorkerMarks, WorkerAt, WorkerWrites
<1>6. ASSUME NEW S, WorkerEmbeds(S) PROVE WorkerWrites(f)
  BY <1>6, UpsertWritten DEF WorkerEmbeds, WorkerWrites
<1>7. CASE WorkerConfirms
  BY <1>1, <1>2, <1>7, ReembedWritten DEF WorkerConfirms, WorkerAt, WorkerWrites
<1>8. CASE WorkerRecordsFailure
  BY <1>1, <1>2, <1>8, EndWritten DEF WorkerRecordsFailure, WorkerAt, WorkerWrites
<1> QED
  BY <1>4, <1>5, <1>6, <1>7, <1>8 DEF WorkerStep

(* The collector only takes away the rows of deleted files without chunks. *)
LEMMA CollectorPrunes ==
  ASSUME StoreTypeOK, GcStep, NEW f \in Files
  PROVE  CollectorWrites(f)
<1>1. NoWrite => CollectorWrites(f)
  BY NothingWritten DEF CollectorWrites
<1>2. CASE StartPass(TRUE) \/ StartPass(FALSE) \/ SelectDeleted \/ SweepFails \/ PassEnds
  BY <1>1, <1>2 DEF StartPass, SelectDeleted, SweepFails, PassEnds
<1>3. CASE DeleteVectors \/ PurgeRows
  BY <1>3
  DEF DeleteVectors, PurgeRows, rowVars, chunkVars, CollectorWrites, Untouched, ActiveOf
<1>4. CASE PruneFiles
  <2>1. CASE \E g \in Emptied : symbols[g] # None
    BY <1>1, <1>4, <2>1 DEF PruneFiles
  <2>2. CASE ~\E g \in Emptied : symbols[g] # None
    <3>1. /\ status'[f] = IF f \in Emptied THEN "absent" ELSE status[f]
          /\ sha'[f] = IF f \in Emptied THEN None ELSE sha[f]
          /\ active' = active
      BY <1>4, <2>2 DEF PruneFiles, chunkVars
    <3>2. f \in Emptied => status[f] = "deleted" /\ ActiveOf(f) = {}
      BY DEF Emptied, ActiveOf
    <3> QED
      BY <3>1, <3>2 DEF CollectorWrites, Untouched, Emptying, ActiveOf
  <2> QED
    BY <2>1, <2>2
<1> QED
  BY <1>2, <1>3, <1>4 DEF GcStep

(* The endpoints write to the files they selected, whoever holds their claims. *)
LEMMA CommandWritesSelected ==
  ASSUME NEW c \in Commands, CommandServed(c) \/ CommandSent(c), NEW f \in Files
  PROVE  CommandWrites(c, f)
<1>1. NoWrite => CommandWrites(c, f)
  BY NothingWritten DEF CommandWrites
<1>2. ASSUME NEW B, ApplyCancel(c, B) \/ ApplyDelete(c, B) PROVE CommandWrites(c, f)
  <2>1. /\ f \in B => ActiveOf(f)' = {}
        /\ f \notin B => ActiveOf(f)' = ActiveOf(f)
        /\ sha' = sha /\ B \subseteq command[c].paths
    BY <1>2, DropWritten DEF ApplyCancel, ApplyDelete, Applied
  <2>2. CASE ApplyCancel(c, B)
    BY <2>1, <2>2 DEF ApplyCancel, CommandWrites, Untouched
  <2>3. CASE ApplyDelete(c, B)
    BY <2>1, <2>3 DEF ApplyDelete, CommandWrites, Untouched
  <2> QED
    BY <1>2, <2>2, <2>3
<1>3. CASE CommandStops(c)
  BY <1>1, <1>3 DEF CommandStops
<1>4. ASSUME NEW P, SelectCancel(c, P) \/ SelectDelete(c, P) PROVE CommandWrites(c, f)
  BY <1>1, <1>4 DEF SelectCancel, SelectDelete, Selects
<1>5. ASSUME NEW P, PostRetry(P) PROVE CommandWrites(c, f)
  BY <1>5 DEF PostRetry, chunkVars, CommandWrites, Untouched, ActiveOf
<1> QED
  BY <1>2, <1>3, <1>4, <1>5 DEF CommandServed, CommandSent

-----------------------------------------------------------------------------
(* The order of a job's steps. *)
OrderOf(r) ==
  /\ req[r].token \/ req[r].pc \in {"slice_cancelled", "recover_cancelled"}
       => "stream_cancel" \in Faults
  /\ At(r, "document") => req[r].cur \in Markdown
  /\ req[r].pc \in {"drop", "confirm", "recover_failed", "recover_cancelled"}
       => req[r].todo \subseteq req[r].prepared
  /\ req[r].mode = "symbols" =>
       req[r].pc \in {"pick", "check", "done"} /\ req[r].prepared = {}

(* A finished job has nothing in hand, and nothing to take up. *)
LEMMA FinishIsOrdered ==
  ASSUME NEW r \in Requests, req \in [Requests -> Job], Finish(r)
  PROVE  OrderOf(r)'
<1>1. req'[r] = [req[r] EXCEPT !.pc = "done", !.text = None, !.todo = {},
                               !.cur = None, !.prepared = {}, !.pending = {},
                               !.token = FALSE]
  BY DEF Finish, Become
<1>2. /\ req'[r].pc = "done" /\ req'[r].prepared = {} /\ ~req'[r].token
  BY <1>1 DEF Job
<1> QED
  BY <1>2 DEF OrderOf, At

(* Also a prepare that is given up keeps to the order of a job. *)
LEMMA AbortIsOrdered ==
  ASSUME NEW r \in Requests, req \in [Requests -> Job], OrderOf(r),
         req[r].mode # "symbols", AbortPrepare(r)
  PROVE  OrderOf(r)'
<1>1. /\ req'[r].pc = "recover_failed" /\ req'[r].todo = req[r].prepared
      /\ req'[r].prepared = req[r].prepared /\ req'[r].token = req[r].token
      /\ req'[r].mode = req[r].mode
  BY DEF AbortPrepare, Become, Job
<1> QED
  BY <1>1 DEF OrderOf, At

(* The order of a job is kept by its own steps, *)
LEMMA JobStepOrdered ==
  ASSUME TypeInv, NEW r \in Requests, OrderOf(r), JobStep(r)
  PROVE  OrderOf(r)'
<1>1. req \in [Requests -> Job] /\ req[r] \in Job
  BY DEF TypeInv, TypeOK, RequestTypeOK
<1>2. ASSUME NEW f \in req[r].todo, SkipInFlight(r, f) PROVE OrderOf(r)'
  BY <1>1, <1>2 DEF SkipInFlight, At, Become, Job, OrderOf
<1>3. ASSUME NEW f \in req[r].todo, TakeClaim(r, f) PROVE OrderOf(r)'
  BY <1>1, <1>3 DEF TakeClaim, At, Become, Job, OrderOf
<1>4. ASSUME NEW f \in req[r].todo, DropCancelled(r, f) PROVE OrderOf(r)'
  BY <1>1, <1>4 DEF DropCancelled, At, Become, Job, OrderOf
<1>5. ASSUME NEW f \in req[r].todo, Confirm(r, f) PROVE OrderOf(r)'
  BY <1>1, <1>5 DEF Confirm, At, Become, Job, OrderOf
<1>6. ASSUME NEW f \in req[r].todo, RecoverOne(r, f) PROVE OrderOf(r)'
  BY <1>1, <1>6 DEF RecoverOne, At, Become, Job, OrderOf
<1>7. CASE SkipFile(r)
  BY <1>1, <1>7 DEF SkipFile, At, Become, Job, OrderOf
<1>8. CASE NeedsWork(r)
  BY <1>1, <1>8 DEF NeedsWork, At, Become, Job, OrderOf
<1>9. CASE RebuildSymbols(r)
  BY <1>1, <1>9 DEF RebuildSymbols, At, Become, Job, OrderOf
<1>10. CASE CheckOrMarkFails(r)
  BY <1>1, <1>10, FinishIsOrdered, AbortIsOrdered DEF CheckOrMarkFails
<1>11. CASE Mark(r)
  BY <1>1, <1>11 DEF Mark, At, Become, Job, OrderOf
<1>12. CASE MarkStored(r)
  <2>1. CASE CanMove(req[r].cur, "indexing")
    BY <1>1, <1>12, <2>1 DEF MarkStored, At, Become, Job, OrderOf
  <2>2. CASE ~CanMove(req[r].cur, "indexing")
    BY <1>1, <1>12, <2>2, AbortIsOrdered DEF MarkStored
  <2> QED
    BY <2>1, <2>2
<1>13. CASE SliceDocument(r)
  BY <1>1, <1>13 DEF SliceDocument, At, Become, Job, OrderOf
<1>14. CASE DocumentFails(r) \/ RecoverCurrent(r)
  BY <1>1, <1>14, AbortIsOrdered DEF DocumentFails, RecoverCurrent, At, OrderOf
<1>15. CASE Slice(r)
  BY <1>1, <1>15 DEF Slice, At, Become, Job, OrderOf
<1>16. CASE ReadStored(r)
  BY <1>1, <1>16 DEF ReadStored, At, Become, Job, OrderOf
<1>17. CASE SliceFails(r) \/ SliceCancelled(r)
  BY <1>1, <1>17 DEF SliceFails, SliceCancelled, At, Become, Job, OrderOf
<1>18. CASE Reconcile(r)
  <2>1. PICK gone \in SUBSET req[r].prepared :
          Become(r, [req[r] EXCEPT !.pc = "drop", !.todo = gone])
    BY <1>1, <1>18 DEF Reconcile
  <2>2. req[r].mode = "full"
    BY <1>18 DEF Reconcile
  <2> QED
    BY <1>1, <2>1, <2>2 DEF Become, Job, OrderOf, At
<1>19. CASE BeginEmbed(r)
  BY <1>1, <1>19 DEF BeginEmbed, At, Become, Job, OrderOf
<1>20. CASE SymbolsDone(r) \/ ConfirmFails(r) \/ Return(r)
  BY <1>1, <1>20, FinishIsOrdered DEF SymbolsDone, ConfirmFails, Return
<1>21. ASSUME NEW S, EmbedBatch(r, S) PROVE OrderOf(r)'
  BY <1>1, <1>21 DEF EmbedBatch, At, Become, Job, OrderOf
<1>22. CASE EmbedFails(r)
  <2>1. PICK pc \in {"recover_failed", "recover_cancelled"} :
          /\ Become(r, [req[r] EXCEPT !.pc = pc, !.todo = req[r].prepared])
          /\ pc = "recover_cancelled" => req[r].token
    BY <1>22 DEF EmbedFails
  <2>2. At(r, "embed")
    BY <1>22 DEF EmbedFails
  <2> QED
    BY <1>1, <2>1, <2>2 DEF At, Become, Job, OrderOf
<1>23. CASE BeginConfirm(r)
  BY <1>1, <1>23 DEF BeginConfirm, At, Become, Job, OrderOf
<1> QED
  BY <1>2, <1>3, <1>4, <1>5, <1>6, <1>7, <1>8, <1>9, <1>10, <1>11, <1>12, <1>13,
     <1>14, <1>15, <1>16, <1>17, <1>18, <1>19, <1>20, <1>21, <1>22, <1>23
  DEF JobStep

(* and by what its client does. *)
LEMMA ClientStepOrdered ==
  ASSUME TypeInv, NEW r \in Requests, OrderOf(r), ClientStep(r),
         At(r, "new") => req[r].prepared = {}
  PROVE  OrderOf(r)'
<1>1. req \in [Requests -> Job] /\ req[r] \in Job
  BY DEF TypeInv, TypeOK, RequestTypeOK
<1>2. ASSUME NEW m, NEW v, NEW F, Start(r, m, v, F) PROVE OrderOf(r)'
  BY <1>1, <1>2 DEF Start, At, Become, Job, OrderOf
<1>3. CASE Disconnect(r)
  BY <1>1, <1>3, FinishIsOrdered DEF Disconnect
<1>4. CASE CancelStream(r)
  BY <1>1, <1>4 DEF CancelStream, At, Become, Job, OrderOf
<1> QED
  BY <1>2, <1>3, <1>4 DEF ClientStep

(* Whatever is done to its row and chunks, a file keeps them together. *)
RowKnown(f) ==
  /\ status[f] = "absent" => ActiveOf(f) = {}
  /\ status[f] # "absent" => sha[f] \in Versions

(* No write of a job leaves a row without a hash, *)
LEMMA JobKeepsRow ==
  ASSUME TypeInv, NEW r \in Requests, NEW f \in Files, RowKnown(f), JobWrites(r, f)
  PROVE  RowKnown(f)'
<1>1. /\ req[r].pc \notin {"new", "done"} => req[r].text \in Versions
      /\ req[r] \in Job
  BY DEF TypeInv, JobPlace, InPlace, TypeOK, RequestTypeOK
<1>2. ASSUME Resliced(f, req[r].text, r) PROVE RowKnown(f)'
  BY <1>2, NoSlices DEF Resliced, CanInsert, RowKnown
<1> QED
  BY <1>1, <1>2
  DEF JobWrites, RowKnown, Untouched, Taken, Requeued, Cleared, Ended, Confirmed, At

(* nor does one of the worker, the collector or a command, *)
LEMMA OthersKeepRow ==
  ASSUME NEW f \in Files, RowKnown(f),
         \/ WorkerWrites(f) \/ CollectorWrites(f)
         \/ \E c \in Commands : CommandWrites(c, f)
  PROVE  RowKnown(f)'
BY DEF WorkerWrites, CollectorWrites, CommandWrites, RowKnown, Untouched, Requeued,
   Ended, Emptying

(* nor a transaction that runs after its caller is gone. *)
LEMMA DetachedKeepsRow ==
  ASSUME TypeInv, NEW t, RunDetached(t), NEW f \in Files, RowKnown(f)
  PROVE  RowKnown(f)'
<1>1. /\ t.op \in TxOps /\ t.file \in Files /\ t.text \in Versions /\ StoreTypeOK
  BY DEF RunDetached, TypeInv, TypeOK, RequestTypeOK, Tx
<1>2. CASE t.op = "mark"
  BY <1>1, <1>2, MarkWritten DEF RunDetached, Taken, Untouched, RowKnown
<1>3. CASE t.op = "slice"
  <2>1. CASE CanInsert(t.file, t.text)
    <3>1. /\ Resliced(t.file, t.text, t.by)
          /\ \A x \in Files \ {t.file} : Untouched(x)
      BY <1>1, <1>3, <2>1, SliceWritten DEF RunDetached
    <3> QED
      BY <3>1, NoSlices DEF Resliced, CanInsert, Untouched, RowKnown
  <2>2. CASE ~CanInsert(t.file, t.text)
    BY <1>1, <1>3, <2>2, NothingWritten DEF RunDetached, Untouched, RowKnown
  <2> QED
    BY <2>1, <2>2
<1>4. CASE t.op = "drop"
  BY <1>1, <1>4, DropWritten DEF RunDetached, rowVars, RowKnown
<1>5. CASE t.op = "confirm"
  BY <1>1, <1>5, ConfirmWritten DEF RunDetached, Confirmed, Untouched, RowKnown
<1>6. CASE t.op = "reconfirm"
  BY <1>1, <1>6, ReembedWritten DEF RunDetached, Ended, Untouched, RowKnown
<1>7. CASE t.op = "requeue"
  BY <1>1, <1>7, RequeueWritten DEF RunDetached, Requeued, Untouched, RowKnown
<1>8. CASE t.op = "failed"
  BY <1>1, <1>8, EndWritten DEF RunDetached, Ended, Untouched, RowKnown
<1>9. CASE t.op = "cancelled"
  BY <1>1, <1>9, EndWritten DEF RunDetached, Ended, Untouched, RowKnown
<1>10. CASE t.op = "symbols"
  <2>1. \A x \in Files : Untouched(x)
    BY <1>1, <1>10, NothingWritten DEF RunDetached, ReplaceSymbols, rowVars, Untouched, ActiveOf
  <2> QED
    BY <2>1 DEF Untouched, RowKnown
<1> QED
  BY <1>1, <1>2, <1>3, <1>4, <1>5, <1>6, <1>7, <1>8, <1>9, <1>10 DEF TxOps

(* A handler goes on with the paths and the endpoint it was asked for. *)
LEMMA CommandsKeepAsked ==
  ASSUME TypeInv, CommandsAsked, NEW c \in Commands,
         CommandServed(c) \/ CommandSent(c)
  PROVE  CommandsAsked'
<1>1. command \in [Commands -> [kind : {"cancel", "delete"}, paths : SUBSET Files]]
  BY DEF TypeInv, TypeOK, CommandTypeOK
<1>2. ASSUME NEW B, ApplyCancel(c, B) \/ ApplyDelete(c, B) PROVE CommandsAsked'
  BY <1>1, <1>2 DEF ApplyCancel, ApplyDelete, Applied, CommandsAsked
<1>3. CASE CommandStops(c)
  BY <1>1, <1>3 DEF CommandStops, CommandsAsked
<1>4. ASSUME NEW P, SelectCancel(c, P) \/ SelectDelete(c, P) PROVE CommandsAsked'
  BY <1>1, <1>4 DEF SelectCancel, SelectDelete, Selects, CommandsAsked
<1>5. ASSUME NEW P, PostRetry(P) PROVE CommandsAsked'
  BY <1>5 DEF PostRetry, CommandsAsked
<1> QED
  BY <1>2, <1>3, <1>4, <1>5 DEF CommandServed, CommandSent

-----------------------------------------------------------------------------
(* The invariant holds initially. *)
LEMMA OrderInit == Init => OrderInv
<1> SUFFICES ASSUME Init PROVE OrderInv
  OBVIOUS
<1>1. JobOrder
  BY DEF Init, RequestInit, JobOrder, At
<1>2. CommandsAsked
  BY DEF Init, CommandInit, CommandsAsked
<1>3. RowsKnown
  BY DEF Init, StoreInit, RowsKnown, ActiveOf
<1> QED
  BY <1>1, <1>2, <1>3, ClaimInit DEF OrderInv

(* Jobs keep their order and rows their text, whatever fails. *)
LEMMA OrderNext ==
  ASSUME OrderInv, [Next]_vars
  PROVE  OrderInv'
<1>1. /\ ClaimInv /\ TypeInv /\ JobOrder /\ CommandsAsked /\ RowsKnown /\ StoreTypeOK
      /\ JobShape
  BY DEF OrderInv, ClaimInv, TypeInv, TypeOK
<1>2. ClaimInv'
  BY <1>1, ClaimNext
<1>3. \A q \in Requests : OrderOf(q)
  BY <1>1 DEF JobOrder, OrderOf
<1>4. \A f \in Files : RowKnown(f)
  BY <1>1 DEF RowsKnown, RowKnown
<1> DEFINE Goal == /\ \A q \in Requests : OrderOf(q)'
                   /\ \A f \in Files : RowKnown(f)'
                   /\ CommandsAsked'
<1>5. ASSUME command' = command PROVE CommandsAsked'
  BY <1>1, <1>5 DEF CommandsAsked
<1>6. ASSUME req' = req, NEW q \in Requests PROVE OrderOf(q)'
  BY <1>3, <1>6 DEF OrderOf, At
<1>7. ASSUME NEW q \in Requests, req'[q] = req[q] PROVE OrderOf(q)'
  BY <1>3, <1>7 DEF OrderOf, At
<1>8. ASSUME NEW f \in Files, Untouched(f) PROVE RowKnown(f)'
  BY <1>4, <1>8 DEF Untouched, RowKnown
<1>9. ASSUME NEW r \in Requests, RunJob(r) PROVE Goal
  <2>1. JobStep(r) /\ command' = command /\ \A q \in Requests : q # r => req'[q] = req[q]
    BY <1>1, <1>9, JobStepClaims DEF RunJob
  <2>2. OrderOf(r)'
    BY <1>1, <1>3, <2>1, JobStepOrdered
  <2>3. \A f \in Files : RowKnown(f)'
    BY <1>1, <1>4, <2>1, JobWritesOwn, JobKeepsRow
  <2> QED
    BY <1>5, <1>7, <2>1, <2>2, <2>3
<1>10. ASSUME NEW r \in Requests, RunClient(r) PROVE Goal
  <2>1. /\ ClientStep(r) /\ command' = command
        /\ \A q \in Requests : q # r => req'[q] = req[q]
    BY <1>1, <1>10, ClientStepClaims DEF RunClient
  <2>2. OrderOf(r)'
    BY <1>1, <1>3, <2>1, ClientStepOrdered DEF JobShape
  <2>3. NoWrite
    BY <2>1 DEF ClientStep, Start, Disconnect, CancelStream
  <2> QED
    BY <1>5, <1>7, <1>8, <2>1, <2>2, <2>3, NothingWritten
<1>11. ASSUME NEW t, RunDetached(t), command' = command PROVE Goal
  <2>1. req' = req
    BY <1>11 DEF RunDetached
  <2> QED
    BY <1>1, <1>4, <1>5, <1>6, <1>11, <2>1, DetachedKeepsRow
<1>12. ASSUME RunWorker \/ RunCollector PROVE Goal
  <2>1. req' = req /\ command' = command
    BY <1>12 DEF RunWorker, RunCollector, requestVars
  <2>2. ASSUME NEW f \in Files PROVE WorkerWrites(f) \/ CollectorWrites(f)
    BY <1>1, <1>12, WorkerWritesOwn, CollectorPrunes DEF RunWorker, RunCollector
  <2>3. \A f \in Files : RowKnown(f)'
    BY <1>4, <2>2, OthersKeepRow
  <2> QED
    BY <1>5, <1>6, <2>1, <2>3
<1>14. ASSUME NEW c \in Commands, ServeCommand(c) \/ SendCommand(c) PROVE Goal
  <2>1. (CommandServed(c) \/ CommandSent(c)) /\ req' = req
    BY <1>14 DEF ServeCommand, SendCommand, requestVars
  <2>2. \A f \in Files : RowKnown(f)'
    BY <1>4, <2>1, CommandWritesSelected, OthersKeepRow
  <2> QED
    BY <1>1, <1>6, <2>1, <2>2, CommandsKeepAsked
<1>15. ASSUME Restart PROVE Goal
  <2>1. NoWrite /\ CommandsAsked'
    BY <1>15 DEF Restart, CommandsAsked
  <2>2. ASSUME NEW q \in Requests PROVE OrderOf(q)'
    <3>1. CASE At(q, "new")
      BY <1>7, <1>15, <3>1 DEF Restart
    <3>2. CASE ~At(q, "new")
      BY <1>15, <3>2 DEF Restart, OrderOf, At
    <3> QED
      BY <3>1, <3>2
  <2>3. \A f \in Files : RowKnown(f)'
    BY <1>8, <2>1, NothingWritten
  <2> QED
    BY <2>1, <2>2, <2>3
<1>16. ASSUME UNCHANGED vars PROVE Goal
  <2>1. req' = req /\ command' = command /\ NoWrite
    BY <1>16 DEF vars, requestVars, NoWrite
  <2>2. \A f \in Files : RowKnown(f)'
    BY <1>8, <2>1, NothingWritten
  <2> QED
    BY <1>5, <1>6, <2>1, <2>2
<1>17. Goal
  <2>1. CASE Next
    BY <1>9, <1>10, <1>11, <1>12, <1>14, <1>15, <2>1 DEF Next, RunBlockingPool
  <2> QED
    BY <1>16, <2>1
<1> QED
  BY <1>2, <1>17 DEF OrderInv, JobOrder, OrderOf, RowsKnown, RowKnown

(* A row that exists names a text, chunk rows have a file row, and a job goes
   through its steps in their order, under every failure. *)
THEOREM OrderInvariant == Spec => []OrderInv
BY OrderInit, OrderNext, PTL DEF Spec

-----------------------------------------------------------------------------
(* Without /cancel and DELETE, no endpoint writes to a status or to chunks. *)
LEMMA QuietEndpoints ==
  ASSUME OrderInv, NoStops, NEW c \in Commands, CommandServed(c) \/ CommandSent(c),
         NEW f \in Files
  PROVE  Untouched(f)
<1>1. CommandWrites(c, f)
  BY CommandWritesSelected
<1>2. command[c].paths # {} => command[c].kind \in {"retry"}
  BY DEF OrderInv, CommandsAsked, NoStops
<1> QED
  BY <1>1, <1>2 DEF CommandWrites

(* What the steps of everybody do to the files, in one place. *)
LEMMA EveryStepWrites ==
  ASSUME OrderInv, NothingDetached, [Next]_vars, NEW f \in Files
  PROVE  \/ Untouched(f)
         \/ \E r \in Requests : RunJob(r) /\ JobWrites(r, f)
         \/ RunWorker /\ WorkerWrites(f)
         \/ RunCollector /\ CollectorWrites(f)
         \/ \E c \in Commands :
              (ServeCommand(c) \/ SendCommand(c)) /\ CommandWrites(c, f)
<1>1. ClaimInv /\ JobOrder /\ StoreTypeOK
  BY DEF OrderInv, ClaimInv, TypeInv, TypeOK
<1>2. ASSUME NEW r \in Requests, RunJob(r) PROVE JobWrites(r, f)
  BY <1>1, <1>2, JobWritesOwn DEF RunJob
<1>3. ASSUME NEW r \in Requests, RunClient(r) PROVE Untouched(f)
  BY <1>3, NothingWritten DEF RunClient, ClientStep, Start, Disconnect, CancelStream
<1>4. ~RunBlockingPool
  BY DEF RunBlockingPool, NothingDetached
<1>5. RunWorker => WorkerWrites(f)
  BY <1>1, WorkerWritesOwn DEF RunWorker
<1>6. RunCollector => CollectorWrites(f)
  BY <1>1, CollectorPrunes DEF RunCollector
<1>7. ASSUME NEW c \in Commands, ServeCommand(c) \/ SendCommand(c)
      PROVE  CommandWrites(c, f)
  BY <1>7, CommandWritesSelected DEF ServeCommand, SendCommand
<1>8. Restart \/ UNCHANGED vars => Untouched(f)
  BY NothingWritten DEF Restart, vars, NoWrite
<1> QED
  BY <1>2, <1>3, <1>4, <1>5, <1>6, <1>7, <1>8 DEF Next

-----------------------------------------------------------------------------
(* The re-check leads the worker to its mark, and nothing else does. *)
LEMMA RecheckMarks ==
  ASSUME ClaimInv, WorkerStep, worker'.pc = "mark"
  PROVE  /\ worker'.file = worker.file /\ NoWrite
         /\ worker.file \in Files /\ claim[worker.file] = Worker
         /\ status[worker.file] \in {"indexing", "failed"}
<1>1. /\ WorkerTypeOK /\ WorkerPlace
      /\ worker.file # None => claim[worker.file] = Worker
  BY ClaimInvIsConsistent DEF TypeInv, TypeOK
<1>2. LeaveFile => worker'.pc = "idle"
  BY <1>1 DEF LeaveFile, WorkerTypeOK
<1>3. Recheck
  BY <1>1, <1>2
  DEF WorkerStep, Sweep, WorkerSkipsClaimed, WorkerTakesClaim, WorkerMarks,
      WorkerReads, WorkerEmbeds, WorkerEmbedFails, WorkerConfirms,
      WorkerRecordsFailure, WorkerTxFails, WorkerTypeOK, WorkerAt
<1> QED
  BY <1>1, <1>2, <1>3 DEF Recheck, WorkerAt, WorkerTypeOK, WorkerPlace

(* The invariant holds initially, *)
LEMMA StopInit == Init => StopInv
BY OrderInit
DEF Init, RequestInit, WorkerInit, StopInv, NothingDetached, WorkerSure

(* and every step keeps it. *)
LEMMA StopNext ==
  ASSUME "detach" \notin Faults, NoStops, StopInv, [Next]_vars
  PROVE  StopInv'
<1>1. /\ OrderInv /\ NothingDetached /\ WorkerSure /\ ClaimInv
      /\ OrderInv' /\ NothingDetached'
  BY OrderNext, NextDetachesNothing DEF StopInv, OrderInv
<1>2. CASE RunWorker
  <2>1. ASSUME worker'.pc = "mark"
        PROVE  status'[worker'.file] \in {"indexing", "failed"}
    <3>1. /\ worker'.file = worker.file /\ NoWrite
          /\ status[worker.file] \in {"indexing", "failed"}
      BY <1>1, <1>2, <2>1, RecheckMarks DEF RunWorker
    <3> QED
      BY <3>1 DEF NoWrite, storeVars, rowVars
  <2> QED
    BY <1>1, <2>1 DEF StopInv, WorkerSure
<1>3. CASE Restart
  BY <1>1, <1>3 DEF Restart, StopInv, WorkerSure
<1>4. CASE ~RunWorker /\ ~Restart
  <2>1. worker' = worker
    BY <1>4 DEF Next, RunJob, RunClient, RunBlockingPool, RunCollector, ServeCommand,
       SendCommand, vars
  <2>2. ASSUME worker.pc = "mark"
        PROVE  status'[worker.file] = status[worker.file]
    <3>1. PICK f \in Files : f = worker.file
      BY <1>1, <2>2 DEF ClaimInv, WorkerPlace, TypeInv, TypeOK, WorkerTypeOK
    <3>2. claim[f] = Worker /\ Worker \notin Requests
      BY <1>1, <3>1, ClaimInvIsConsistent, StoreAssumption DEF Worker
    <3>3. status[f] # "deleted"
      BY <1>1, <2>2, <3>1 DEF WorkerSure
    <3>4. ASSUME NEW c \in Commands, ServeCommand(c) \/ SendCommand(c)
          PROVE  Untouched(f)
      BY <1>1, <3>4, QuietEndpoints DEF ServeCommand, SendCommand
    <3> QED
      BY <1>1, <1>4, <3>1, <3>2, <3>3, <3>4, EveryStepWrites
      DEF JobWrites, CollectorWrites, Emptying, Untouched
  <2> QED
    BY <1>1, <2>1, <2>2 DEF StopInv, WorkerSure
<1> QED
  BY <1>2, <1>3, <1>4

(* A file that was cancelled, and has not been pushed since, stays so: only a
   request that holds its claim makes it 'indexing' again, the retry worker
   does not.  With /cancel or DELETE it may: they come between the re-check
   and the mark of the worker. *)
THEOREM StoppedStay ==
  ASSUME "detach" \notin Faults, NoStops
  PROVE  Spec => StoppedStaysStopped
<1>1. Init => StopInv
  BY StopInit
<1>2. StopInv /\ [Next]_vars => StopInv'
  BY StopNext
<1>3. ASSUME StopInv, [Next]_vars
      PROVE  \A f \in Files :
               status[f] \in {"cancelled", "deleted"} /\ status'[f] = "indexing"
                 => claim[f] \in Requests
  <2>1. OrderInv /\ NothingDetached /\ WorkerSure
    BY <1>3 DEF StopInv
  <2>2. ASSUME NEW f \in Files,
               status[f] \in {"cancelled", "deleted"}, status'[f] = "indexing"
        PROVE  claim[f] \in Requests
    <3>1. ASSUME NEW c \in Commands, ServeCommand(c) \/ SendCommand(c)
          PROVE  Untouched(f)
      BY <2>1, <3>1, QuietEndpoints DEF ServeCommand, SendCommand
    <3> QED
      BY <1>3, <2>1, <2>2, <3>1, EveryStepWrites
      DEF JobWrites, WorkerWrites, WorkerSure, CollectorWrites, Emptying, Untouched,
          Ended
  <2> QED
    BY <2>2
<1> QED
  BY <1>1, <1>2, <1>3, PTL DEF Spec, StoppedStaysStopped

-----------------------------------------------------------------------------
(* What a job is done with, or has not begun, is claimed by it. *)
LEMMA SettledIsHeld ==
  ASSUME ClaimInv, NEW r \in Requests, NEW f \in Settled(r)
  PROVE  f \in Files /\ claim[f] = r
<1>1. /\ req[r] \in Job /\ InPlace(req[r]) /\ Consistent(r, req[r], claim)
      /\ None \notin Files
  BY ClaimInvIsConsistent, StoreAssumption
  DEF TypeInv, TypeOK, RequestTypeOK, JobPlace
<1> QED
  BY <1>1 DEF Settled, At, Job, InPlace, OnOneFile, Consistent, Held

(* What a job gives back is settled: it was published, recovered, or never
   begun. *)
SettlesOwn(r) ==
  /\ \A f \in Settled(r)' : status'[f] # "indexing"
  /\ \A f \in Files : claim[f] = r /\ claim'[f] = None => status'[f] # "indexing"

(* Every step of a job settles what the job gives up its claim on. *)
LEMMA JobStepSettles ==
  ASSUME PendingInv, Recovered, NEW r \in Requests, JobStep(r)
  PROVE  SettlesOwn(r)
<1>1. /\ ClaimInv /\ TypeInv /\ StoreTypeOK /\ OrderOf(r) /\ IndexingIsClaimed
      /\ req \in [Requests -> Job] /\ req[r] \in Job /\ InPlace(req[r])
      /\ Consistent(r, req[r], claim) /\ r # None /\ None \notin Files
      /\ claim \in [Files -> Requests \cup {Worker, None}]
      /\ \A f \in Settled(r) : status[f] # "indexing"
  BY ClaimInvIsConsistent, StoreAssumption
  DEF PendingInv, OrderInv, JobOrder, OrderOf, TypeInv, TypeOK, StoreTypeOK,
      RequestTypeOK, JobPlace, JobSettles
<1>2. ~req[r].token /\ "db" \notin Faults /\ ~MayFail(r)
  BY <1>1 DEF OrderOf, Recovered, MayFail
<1>3. NoWrite => status' = status
  BY DEF NoWrite, storeVars, rowVars
<1>4. req[r].pc \in OnOneFile => req[r].cur \in Files /\ claim[req[r].cur] = r
  BY <1>1 DEF InPlace, Job, Consistent, Held
<1>5. req[r].pc \in {"drop", "confirm", "recover_failed", "recover_cancelled"} =>
        \A g \in req[r].todo : g \in Files /\ claim[g] = r
  BY <1>1 DEF OrderOf, Job, Consistent, Held
<1>6. ASSUME AbortPrepare(r), status'[req[r].cur] # "indexing", req[r].pc \in OnOneFile
      PROVE  SettlesOwn(r)
  <2>1. /\ req'[r].pc = "recover_failed" /\ req'[r].todo = req[r].prepared
        /\ req'[r].prepared = req[r].prepared
        /\ claim' = [claim EXCEPT ![req[r].cur] = None]
    BY <1>1, <1>6 DEF AbortPrepare, Become, Job
  <2> QED
    BY <1>1, <1>4, <1>6, <2>1 DEF SettlesOwn, Settled, At
<1>7. ASSUME NEW f \in req[r].todo, SkipInFlight(r, f) PROVE SettlesOwn(r)
  BY <1>1, <1>7 DEF SkipInFlight, At, Become, Job, SettlesOwn, Settled
<1>8. ASSUME NEW f \in req[r].todo, TakeClaim(r, f) PROVE SettlesOwn(r)
  BY <1>1, <1>3, <1>8
  DEF TakeClaim, Acquire, At, Become, Job, SettlesOwn, Settled, IndexingIsClaimed
<1>9. ASSUME NEW f \in req[r].todo, DropCancelled(r, f) PROVE SettlesOwn(r)
  <2>1. status' = status /\ claim' = claim
    BY <1>3, <1>9 DEF DropCancelled, rowVars
  <2>2. /\ req'[r].pc = "drop" /\ At(r, "drop")
        /\ req'[r].todo = req[r].todo \ {f} /\ req'[r].prepared = req[r].prepared \ {f}
    BY <1>1, <1>9 DEF DropCancelled, At, Become, Job
  <2> QED
    BY <1>1, <1>9, <2>1, <2>2 DEF SettlesOwn, Settled, At
<1>10. ASSUME NEW f \in req[r].todo, Confirm(r, f) PROVE SettlesOwn(r)
  <2>1. /\ req'[r].pc = "confirm" /\ At(r, "confirm") /\ claim' = claim
        /\ req'[r].todo = req[r].todo \ {f} /\ req'[r].prepared = req[r].prepared
    BY <1>1, <1>10 DEF Confirm, At, Become, Job
  <2>2. f \in Files /\ Settled(r)' \subseteq Settled(r) \cup {f}
    BY <1>5, <2>1 DEF Settled, At
  <2>3. status'[f] # "indexing" /\ \A x \in Files \ {f} : status'[x] = status[x]
    BY <1>1, <1>10, <2>2, ConfirmWritten, ReembedWritten
    DEF Confirm, Confirmed, Ended, Untouched
  <2>4. Settled(r) \subseteq Files
    BY <1>1, SettledIsHeld
  <2> QED
    BY <1>1, <2>1, <2>2, <2>3, <2>4 DEF SettlesOwn
<1>11. ASSUME NEW f \in req[r].todo, RecoverOne(r, f) PROVE SettlesOwn(r)
  <2>1. /\ req'[r].pc = req[r].pc /\ claim' = claim
        /\ req[r].pc \in {"recover_failed", "recover_cancelled"}
        /\ req'[r].todo = req[r].todo \ {f} /\ req'[r].prepared = req[r].prepared
    BY <1>1, <1>11 DEF RecoverOne, At, Become, Job
  <2>2. f \in Files /\ Settled(r)' \subseteq Settled(r) \cup {f}
    BY <1>5, <2>1 DEF Settled, At
  <2>3. status'[f] # "indexing" /\ \A x \in Files \ {f} : status'[x] = status[x]
    BY <1>1, <1>2, <1>11, <2>2, EndWritten DEF RecoverOne, Ended, Untouched
  <2>4. Settled(r) \subseteq Files
    BY <1>1, SettledIsHeld
  <2> QED
    BY <1>1, <2>1, <2>2, <2>3, <2>4 DEF SettlesOwn
<1>12. CASE SkipFile(r)
  BY <1>1, <1>3, <1>12 DEF SkipFile, At, Become, Job, SettlesOwn, Settled
<1>13. CASE NeedsWork(r)
  BY <1>1, <1>3, <1>13 DEF NeedsWork, At, Become, Job, SettlesOwn, Settled
<1>14. CASE RebuildSymbols(r)
  BY <1>1, <1>14 DEF RebuildSymbols, ReplaceSymbols, rowVars, At, Become, Job, SettlesOwn, Settled
<1>15. CASE Mark(r)
  BY <1>1, <1>15 DEF Mark, At, Become, Job, SettlesOwn, Settled
<1>16. CASE MarkStored(r)
  <2>1. CASE CanMove(req[r].cur, "indexing")
    BY <1>1, <1>16, <2>1 DEF MarkStored, At, Become, Job, SettlesOwn, Settled
  <2>2. CASE ~CanMove(req[r].cur, "indexing")
    <3>1. At(r, "mark") /\ AbortPrepare(r) /\ req[r].cur \in Files
      BY <1>4, <1>16, <2>2 DEF MarkStored, At, OnOneFile
    <3>2. Untouched(req[r].cur) /\ req[r].cur \in Settled(r)
      BY <1>1, <1>16, <2>2, <3>1, RequeueWritten DEF MarkStored, Settled, At
    <3> QED
      BY <1>1, <1>6, <3>1, <3>2 DEF Untouched, At, OnOneFile
  <2> QED
    BY <2>1, <2>2
<1>17. CASE SliceDocument(r)
  BY <1>1, <1>17 DEF SliceDocument, At, Become, Job, SettlesOwn, Settled
<1>18. CASE Slice(r)
  BY <1>1, <1>18 DEF Slice, At, Become, Job, SettlesOwn, Settled
<1>19. CASE ReadStored(r)
  BY <1>1, <1>19 DEF ReadStored, At, Become, Job, SettlesOwn, Settled
<1>20. CASE SliceFails(r) \/ SliceCancelled(r)
  BY <1>1, <1>20 DEF SliceFails, SliceCancelled, At, Become, Job, SettlesOwn, Settled
<1>21. CASE RecoverCurrent(r)
  <2>1. req[r].pc \in OnOneFile /\ req[r].cur \in Files /\ AbortPrepare(r)
    BY <1>4, <1>21 DEF RecoverCurrent, At, OnOneFile
  <2>2. status'[req[r].cur] # "indexing"
    BY <1>1, <1>2, <1>21, <2>1, EndWritten DEF RecoverCurrent, Ended
  <2> QED
    BY <1>6, <2>1, <2>2
<1>22. CASE Reconcile(r)
  <2>1. /\ At(r, "pick") /\ claim' = claim /\ status' = status
        /\ Become(r, [req[r] EXCEPT !.pc = "drop", !.todo =
             {f \in req[r].prepared : status[f] \notin {"indexing", "absent"}}])
    BY <1>2, <1>3, <1>22 DEF Reconcile
  <2>2. /\ req'[r].pc = "drop" /\ req'[r].prepared = req[r].prepared
        /\ req'[r].todo =
             {f \in req[r].prepared : status[f] \notin {"indexing", "absent"}}
    BY <1>1, <2>1 DEF Become, Job
  <2>3. {f \in Files : claim[f] = r} \subseteq req[r].prepared
    BY <1>1, <2>1 DEF Consistent, Held, InPlace, OnOneFile, At
  <2> QED
    BY <1>1, <2>1, <2>2, <2>3 DEF SettlesOwn, Settled, At
<1>23. CASE BeginEmbed(r)
  <2>1. /\ req'[r].pc = "embed" /\ status' = status
        /\ claim' = [f \in Files |-> IF claim[f] = r /\ f \notin req[r].prepared
                                       THEN None ELSE claim[f]]
    BY <1>1, <1>3, <1>23 DEF BeginEmbed, Become, Job
  <2>2. CASE At(r, "drop") /\ req[r].todo = {}
    BY <1>1, <2>1, <2>2 DEF SettlesOwn, Settled, At
  <2>3. CASE At(r, "pick")
    BY <1>1, <2>1, <2>3
    DEF SettlesOwn, Settled, At, Consistent, Held, InPlace, OnOneFile
  <2> QED
    BY <1>23, <2>2, <2>3 DEF BeginEmbed
<1>24. CASE SymbolsDone(r) \/ Return(r)
  <2>1. Finish(r) /\ status' = status
    BY <1>3, <1>24 DEF SymbolsDone, Return
  <2>2. /\ req'[r].pc = "done"
        /\ claim' = [f \in Files |-> IF claim[f] = r THEN None ELSE claim[f]]
    BY <1>1, <2>1 DEF Finish, ReleaseAll, Become, Job
  <2>3. \A f \in Files : claim[f] = r => f \in Settled(r)
    BY <1>1, <1>24
    DEF SymbolsDone, Return, OrderOf, Settled, At, Consistent, Held, InPlace, OnOneFile
  <2> QED
    BY <1>1, <2>1, <2>2, <2>3 DEF SettlesOwn, Settled, At
<1>25. ASSUME NEW S, EmbedBatch(r, S) PROVE SettlesOwn(r)
  BY <1>1, <1>25 DEF EmbedBatch, At, Become, Job, SettlesOwn, Settled
<1>26. CASE EmbedFails(r)
  <2>1. PICK pc \in {"recover_failed", "recover_cancelled"} :
          Become(r, [req[r] EXCEPT !.pc = pc, !.todo = req[r].prepared])
    BY <1>26 DEF EmbedFails
  <2>2. claim' = claim
    BY <1>26 DEF EmbedFails
  <2>3. /\ req'[r].pc = pc /\ req'[r].todo = req[r].prepared
        /\ req'[r].prepared = req[r].prepared
    BY <1>1, <2>1 DEF Become, Job
  <2> QED
    BY <1>1, <2>2, <2>3 DEF SettlesOwn, Settled, At
<1>27. CASE BeginConfirm(r)
  BY <1>1, <1>27 DEF BeginConfirm, At, Become, Job, SettlesOwn, Settled
<1>28. ~CheckOrMarkFails(r) /\ ~ConfirmFails(r)
  BY <1>2 DEF CheckOrMarkFails, ConfirmFails
<1>29. ~DocumentFails(r)
  BY <1>1, <1>2 DEF DocumentFails, Recovered, OrderOf
<1> QED
  BY <1>7, <1>8, <1>9, <1>10, <1>11, <1>12, <1>13, <1>14, <1>15, <1>16, <1>17, <1>18,
     <1>19, <1>20, <1>21, <1>22, <1>23, <1>24, <1>25, <1>26, <1>27, <1>28, <1>29
  DEF JobStep

(* The worker leaves a file published, failed, or as it found it. *)
LEMMA WorkerSettles ==
  ASSUME ClaimInv, Recovered, WorkerStep, NEW f \in Files,
         claim[f] = Worker, claim'[f] = None
  PROVE  status'[f] # "indexing"
<1>1. /\ StoreTypeOK /\ WorkerTypeOK /\ worker.file = f
      /\ Worker # None /\ "db" \notin Faults
  BY ClaimInvIsConsistent, StoreAssumption
  DEF TypeInv, TypeOK, Worker, Recovered
<1>2. claim' # claim
  BY <1>1
<1>3. NoWrite => status' = status
  BY DEF NoWrite, storeVars, rowVars
<1>4. CASE Recheck
  BY <1>1, <1>2, <1>3, <1>4 DEF Recheck
<1>5. CASE WorkerMarks
  BY <1>1, <1>2, <1>5 DEF WorkerMarks, SetFileStatus, CanMove, Legal, Statuses
<1>6. CASE WorkerConfirms
  BY <1>1, <1>6, ReembedWritten DEF WorkerConfirms, Ended
<1>7. CASE WorkerRecordsFailure
  BY <1>1, <1>7, EndWritten DEF WorkerRecordsFailure, Ended
<1>8. ASSUME NEW g \in worker.todo, WorkerTakesClaim(g) PROVE claim'[f] # None
  BY <1>1, <1>8, StoreAssumption
  DEF WorkerTakesClaim, Acquire, StoreTypeOK
<1> QED
  BY <1>1, <1>2, <1>4, <1>5, <1>6, <1>7, <1>8
  DEF WorkerStep, Sweep, WorkerSkipsClaimed, WorkerReads, WorkerEmbeds,
      WorkerEmbedFails, WorkerTxFails

(* What a step of somebody else finds settled was settled before. *)
LEMMA SettledStays ==
  ASSUME ClaimInv', NEW q \in Requests, req'[q] = req[q], NEW f \in Settled(q)',
         NEW who, who # q, OnlyOf(who)
  PROVE  f \in Files /\ claim[f] = q /\ f \in Settled(q)
<1>1. f \in Files /\ claim'[f] = q
  <2>1. /\ req'[q] \in Job /\ InPlace(req'[q]) /\ None \notin Files
        /\ \A x \in req'[q].prepared \cup ({req'[q].cur} \ {None}) : claim'[x] = q
    BY StoreAssumption
    DEF ClaimInv, ClaimsHeld, Holding, TypeInv, TypeOK, RequestTypeOK, JobPlace
  <2> QED
    BY <2>1 DEF Settled, At, Job, InPlace, OnOneFile
<1>2. claim[f] = q
  BY <1>1, StoreAssumption DEF OnlyOf
<1> QED
  BY <1>1, <1>2 DEF Settled, At

(* The invariant holds initially. *)
LEMMA PendingInit == Init => PendingInv
<1> SUFFICES ASSUME Init PROVE PendingInv
  OBVIOUS
<1>1. JobSettles
  BY DEF Init, RequestInit, JobSettles, Settled, At
<1>2. IndexingIsClaimed
  BY DEF Init, StoreInit, IndexingIsClaimed
<1> QED
  BY <1>1, <1>2, OrderInit DEF PendingInv, Init, RequestInit, NothingDetached

(* A step that frees no claim, and makes no file 'indexing' whose claim is free
   or with a job. *)
Settling(who) ==
  \A f \in Files :
    /\ claim'[f] = None /\ claim[f] \in {who, None} => status'[f] # "indexing"
    /\ claim[f] \notin {who, None} /\ status[f] # "indexing" => status'[f] # "indexing"

(* Whoever settles what is its own keeps the invariant. *)
LEMMA SettlingKeeps ==
  ASSUME PendingInv, ClaimInv', NEW who \in Requests \cup {Worker, None},
         OnlyOf(who), Settling(who),
         \A q \in Requests : q # who =>
           req'[q] = req[q] \/ Settled(q)' = {},
         who \in Requests => \A f \in Settled(who)' : status'[f] # "indexing"
  PROVE  JobSettles' /\ IndexingIsClaimed'
<1>1. /\ \A q \in Requests : \A f \in Settled(q) : status[f] # "indexing"
      /\ claim \in [Files -> Requests \cup {Worker, None}]
      /\ None \notin Requests
  BY StoreAssumption
  DEF PendingInv, OrderInv, ClaimInv, TypeInv, TypeOK, StoreTypeOK, JobSettles
<1>2. ASSUME NEW q \in Requests, NEW f \in Settled(q)', q # who
      PROVE  status'[f] # "indexing"
  <2>1. f \in Files /\ claim[f] = q /\ f \in Settled(q)
    BY <1>2, SettledStays
  <2> QED
    BY <1>1, <1>2, <2>1 DEF Settling
<1>3. ASSUME NEW f \in Files, status'[f] = "indexing", claim'[f] = None
      PROVE  FALSE
  BY <1>1, <1>3 DEF OnlyOf, Settling
<1> QED
  BY <1>2, <1>3 DEF JobSettles, IndexingIsClaimed

(* An 'indexing' file stays claimed. *)
LEMMA PendingNext ==
  ASSUME Recovered, PendingInv, [Next]_vars
  PROVE  PendingInv'
<1>1. /\ OrderInv /\ NothingDetached /\ ClaimInv /\ IndexingIsClaimed
      /\ claim \in [Files -> Requests \cup {Worker, None}]
      /\ req \in [Requests -> Job] /\ None \notin Requests /\ Worker \notin Requests
  BY StoreAssumption
  DEF PendingInv, OrderInv, ClaimInv, TypeInv, TypeOK, StoreTypeOK, RequestTypeOK,
      Worker
<1>2. {"detach", "crash", "disconnect", "stream_cancel"} \cap Faults = {}
  BY DEF Recovered
<1>3. OrderInv' /\ NothingDetached' /\ ClaimInv'
  BY <1>1, <1>2, OrderNext, NextDetachesNothing DEF OrderInv
<1> DEFINE Goal == JobSettles' /\ IndexingIsClaimed'
<1>4. ASSUME NEW r \in Requests, RunJob(r) PROVE Goal
  <2>1. /\ JobStep(r) /\ OnlyOf(r) /\ SettlesOwn(r)
        /\ \A q \in Requests : q # r => req'[q] = req[q]
    BY <1>1, <1>4, JobStepClaims, JobStepSettles DEF RunJob
  <2>2. \A f \in Files : claim[f] # r => Untouched(f)
    BY <1>1, <2>1, JobWritesOwn DEF OrderInv, JobWrites
  <2>3. Settling(r)
    BY <1>1, <2>1, <2>2 DEF Settling, SettlesOwn, Untouched, IndexingIsClaimed
  <2> QED
    BY <1>3, <2>1, <2>3, SettlingKeeps DEF SettlesOwn
<1>5. ASSUME RunWorker PROVE Goal
  <2>1. WorkerStep /\ OnlyOf(Worker) /\ req' = req
    BY <1>1, <1>5, WorkerStepClaims DEF RunWorker, requestVars
  <2>2. \A f \in Files : claim[f] # Worker => Untouched(f)
    BY <1>1, <2>1, WorkerWritesOwn DEF WorkerWrites
  <2>3. Settling(Worker)
    BY <1>1, <2>1, <2>2, WorkerSettles DEF Settling, Untouched, IndexingIsClaimed
  <2> QED
    BY <1>1, <1>3, <2>1, <2>3, SettlingKeeps
<1>6. ASSUME claim' = claim,
             \A f \in Files : status'[f] = "indexing" => status[f] = "indexing",
             \A q \in Requests : req'[q] = req[q] \/ Settled(q)' = {}
      PROVE  Goal
  <2>1. OnlyOf(None) /\ Settling(None)
    BY <1>1, <1>6 DEF OnlyOf, Settling, IndexingIsClaimed
  <2> QED
    BY <1>1, <1>3, <1>6, <2>1, SettlingKeeps
<1>7. ASSUME NEW r \in Requests, RunClient(r) PROVE Goal
  <2>1. PICK m \in Modes, v \in Versions, F \in (SUBSET Files) \ {{}} : Start(r, m, v, F)
    BY <1>2, <1>7 DEF RunClient, ClientStep, Disconnect, CancelStream
  <2>2. /\ claim' = claim /\ \A f \in Files : Untouched(f)
        /\ req' = [req EXCEPT ![r] = [req[r] EXCEPT
                     !.pc = "pick", !.mode = m, !.text = v, !.todo = F]]
    BY <2>1, NothingWritten DEF Start, Become
  <2>3. Settled(r)' = {}
    BY <1>1, <2>2 DEF Settled, At, Job
  <2> QED
    BY <1>1, <1>6, <2>2, <2>3 DEF Untouched
<1>8. ASSUME UNCHANGED <<claim, req>>,
             \A f \in Files : status'[f] = "indexing" => status[f] = "indexing"
      PROVE  Goal
  BY <1>6, <1>8
<1>9. ASSUME RunCollector PROVE Goal
  BY <1>1, <1>8, <1>9, CollectorPrunes
  DEF RunCollector, requestVars, OrderInv, ClaimInv, TypeInv, TypeOK, CollectorWrites,
      Untouched, Emptying
<1>10. ASSUME NEW c \in Commands, ServeCommand(c) \/ SendCommand(c) PROVE Goal
  BY <1>8, <1>10, CommandWritesSelected
  DEF ServeCommand, SendCommand, requestVars, CommandWrites, Untouched
<1>11. ASSUME UNCHANGED vars PROVE Goal
  BY <1>8, <1>11 DEF vars, storeVars, rowVars, requestVars
<1>12. ~RunBlockingPool /\ ~Restart
  BY <1>1, <1>2 DEF RunBlockingPool, Restart, NothingDetached
<1>13. Goal
  BY <1>4, <1>5, <1>7, <1>9, <1>10, <1>11, <1>12 DEF Next
<1> QED
  BY <1>3, <1>13 DEF PendingInv

(* An 'indexing' row is work in progress: its file is claimed by whoever works
   on it, under every failure that a job recovers from.  The others, a crash, a
   client that goes away, a write that fails, leave rows the stuck-file sweep
   has to find. *)
THEOREM PendingIsClaimed ==
  ASSUME Recovered
  PROVE  Spec => []IndexingIsClaimed
<1>1. PendingInv => IndexingIsClaimed
  BY DEF PendingInv
<1> QED
  BY <1>1, PendingInit, PendingNext, PTL DEF Spec

-----------------------------------------------------------------------------
(* What a job gives up dropping is not cancelled, or shows nothing any more. *)
DropsOwn(r) ==
  \A f \in Dropping(r) :
    status'[f] = "cancelled" => ActiveOf(f)' = {} \/ f \in Dropping(r)'

(* A step of a job never leaves a file of its own cancelled with chunks. *)
LEMMA JobStepDrops ==
  ASSUME CancelInv, NeverAborted, NEW r \in Requests, JobStep(r)
  PROVE  DropsOwn(r)
<1>1. /\ ClaimInv /\ TypeInv /\ StoreTypeOK /\ OrderOf(r) /\ RowsStay
      /\ req \in [Requests -> Job] /\ req[r] \in Job /\ InPlace(req[r])
      /\ Consistent(r, req[r], claim) /\ None \notin Files
  BY ClaimInvIsConsistent, StoreAssumption
  DEF CancelInv, OrderInv, JobOrder, OrderOf, TypeInv, TypeOK, RequestTypeOK, JobPlace
<1>2. ~req[r].token /\ "db" \notin Faults /\ ~MayFail(r)
  BY <1>1 DEF OrderOf, NeverAborted, MayFail
<1>3. SUFFICES ASSUME req[r].mode = "full", req[r].pc \in Preparing \cup {"drop"}
               PROVE  DropsOwn(r)
  BY DEF DropsOwn, Dropping, At
<1>4. ASSUME req'[r].mode = "full", req'[r].pc \in Preparing, req[r].pc \in Preparing,
             req[r].prepared \subseteq req'[r].prepared
      PROVE  DropsOwn(r)
  BY <1>4 DEF DropsOwn, Dropping, At, Preparing
<1>5. ASSUME NEW f \in req[r].todo, SkipInFlight(r, f) PROVE DropsOwn(r)
  BY <1>1, <1>3, <1>4, <1>5 DEF SkipInFlight, At, Become, Job, Preparing
<1>6. ASSUME NEW f \in req[r].todo, TakeClaim(r, f) PROVE DropsOwn(r)
  BY <1>1, <1>3, <1>4, <1>6 DEF TakeClaim, At, Become, Job, Preparing
<1>7. ASSUME NEW f \in req[r].todo, DropCancelled(r, f) PROVE DropsOwn(r)
  <2>1. DropChunksOf({f}) /\ At(r, "drop") /\ f \in Files
    BY <1>1, <1>2, <1>7 DEF DropCancelled, Job
  <2>2. /\ req'[r].pc = "drop" /\ req'[r].mode = "full"
        /\ req'[r].todo = req[r].todo \ {f}
    BY <1>1, <1>3, <1>7, <2>1 DEF DropCancelled, At, Become, Job
  <2>3. ActiveOf(f)' = {}
    BY <2>1, DropWritten
  <2> QED
    BY <1>3, <2>1, <2>2, <2>3 DEF DropsOwn, Dropping, At, Preparing
<1>8. CASE SkipFile(r) \/ NeedsWork(r)
  <2>1. /\ req'[r].mode = "full" /\ req'[r].prepared = req[r].prepared
        /\ req'[r].pc \in {"pick", "mark"} /\ At(r, "check")
    <3>1. CASE SkipFile(r)
      BY <1>1, <1>3, <3>1 DEF SkipFile, At, Become, Job
    <3>2. CASE NeedsWork(r)
      BY <1>1, <1>3, <3>2 DEF NeedsWork, At, Become, Job
    <3> QED
      BY <1>8, <3>1, <3>2
  <2> QED
    BY <1>4, <2>1 DEF At, Preparing
<1>9. CASE Mark(r)
  BY <1>1, <1>3, <1>4, <1>9 DEF Mark, At, Become, Job, Preparing
<1>10. CASE SliceDocument(r)
  BY <1>1, <1>3, <1>4, <1>10 DEF SliceDocument, At, Become, Job, Preparing
<1>11. CASE Slice(r)
  BY <1>1, <1>3, <1>4, <1>11 DEF Slice, At, Become, Job, Preparing
<1>12. CASE SliceFails(r)
  <2>1. At(r, "slice") /\ status[req[r].cur] = "absent" /\ req[r].cur \in Files
    BY <1>1, <1>3, <1>12
    DEF SliceFails, NeverAborted, CanInsert, InPlace, OnOneFile, At, Job
  <2>2. \A f, g \in Files : f = g
    BY <1>1, <2>1 DEF NeverAborted, RowsStay, At
  <2>3. req[r].prepared = {}
    BY <1>1, <2>1, <2>2 DEF Consistent, Job
  <2> QED
    BY <2>1, <2>3 DEF DropsOwn, Dropping, At, Preparing
<1>13. CASE Reconcile(r)
  <2>1. /\ At(r, "pick") /\ status' = status
        /\ Become(r, [req[r] EXCEPT !.pc = "drop", !.todo =
             {f \in req[r].prepared : status[f] \notin {"indexing", "absent"}}])
    BY <1>2, <1>13 DEF Reconcile, NoWrite, storeVars, rowVars
  <2>2. /\ req'[r].pc = "drop" /\ req'[r].mode = "full"
        /\ req'[r].todo =
             {f \in req[r].prepared : status[f] \notin {"indexing", "absent"}}
    BY <1>1, <1>3, <2>1 DEF Become, Job
  <2> QED
    BY <2>1, <2>2 DEF DropsOwn, Dropping, At, Preparing
<1>14. CASE BeginEmbed(r)
  BY <1>3, <1>14 DEF BeginEmbed, DropsOwn, Dropping, At, Preparing
<1>15. ~RecoverCurrent(r) /\ ~Return(r) /\ \A f \in req[r].todo : ~RecoverOne(r, f)
  BY <1>3 DEF RecoverCurrent, Return, RecoverOne, At, Preparing
<1>16. /\ ~EmbedFails(r) /\ ~BeginConfirm(r) /\ \A S : ~EmbedBatch(r, S)
       /\ \A f \in req[r].todo : ~Confirm(r, f)
  BY <1>3 DEF EmbedFails, BeginConfirm, EmbedBatch, Confirm, At, Preparing
<1>17. ~RebuildSymbols(r) /\ ~MarkStored(r) /\ ~ReadStored(r) /\ ~SymbolsDone(r)
  BY <1>3 DEF RebuildSymbols, MarkStored, ReadStored, SymbolsDone
<1>18. ~CheckOrMarkFails(r) /\ ~ConfirmFails(r) /\ ~DocumentFails(r) /\ ~SliceCancelled(r)
  BY <1>2 DEF CheckOrMarkFails, ConfirmFails, DocumentFails, SliceCancelled,
     NeverAborted
<1> QED
  BY <1>5, <1>6, <1>7, <1>8, <1>9, <1>10, <1>11, <1>12, <1>13, <1>14, <1>15, <1>16,
     <1>17, <1>18
  DEF JobStep

(* Where the work of a job brings chunks to a cancelled file, it drops them. *)
LEMMA JobStepSlices ==
  ASSUME CancelInv, NeverAborted, NEW r \in Requests, JobStep(r), NEW f \in Files,
         status'[f] = "cancelled"
  PROVE  Untouched(f) \/ ActiveOf(f)' = {} \/ f \in Dropping(r)'
<1>1. /\ JobWrites(r, f) /\ OrderOf(r)
      /\ req \in [Requests -> Job] /\ req[r] \in Job
  BY JobWritesOwn
  DEF CancelInv, OrderInv, ClaimInv, TypeInv, TypeOK, RequestTypeOK, JobOrder, OrderOf
<1>2. ~req[r].token /\ req[r].pc \notin {"slice_cancelled", "recover_cancelled"}
  BY <1>1 DEF OrderOf, NeverAborted
<1>3. CASE ~(At(r, "slice") /\ f = req[r].cur)
  BY <1>1, <1>2, <1>3 DEF JobWrites, Taken, Requeued, Cleared, Confirmed, Ended, Untouched
<1>4. CASE At(r, "slice") /\ f = req[r].cur
  <2>1. CASE Slice(r)
    <3>1. /\ req'[r].pc = "pick" /\ req'[r].mode = "full"
          /\ req'[r].prepared = req[r].prepared \cup {f}
      BY <1>1, <1>4, <2>1 DEF Slice, At, Become, Job
    <3> QED
      BY <3>1 DEF Dropping, At, Preparing
  <2>2. CASE SliceFails(r) \/ ReadStored(r)
    BY <2>2, NothingWritten DEF SliceFails, ReadStored
  <2> QED
    BY <1>2, <1>4, <2>1, <2>2
    DEF JobStep, At, SkipInFlight, TakeClaim, DropCancelled, Confirm, RecoverOne,
        SkipFile, NeedsWork, RebuildSymbols, CheckOrMarkFails, Mark, MarkStored,
        SliceDocument, DocumentFails, SliceCancelled, RecoverCurrent, Reconcile,
        BeginEmbed, SymbolsDone, EmbedBatch, EmbedFails, BeginConfirm, ConfirmFails,
        Return
<1> QED
  BY <1>3, <1>4

(* The invariant holds initially. *)
LEMMA CancelInit == Init => CancelInv
<1> SUFFICES ASSUME Init PROVE CancelInv
  OBVIOUS
<1>1. CancelledAreDropped
  BY DEF Init, StoreInit, CancelledAreDropped
<1>2. RowsStay
  BY DEF Init, StoreInit, RequestInit, RowsStay
<1> QED
  BY <1>1, <1>2, OrderInit DEF CancelInv, Init, RequestInit, NothingDetached

(* The file a job slices has the row the job has just written. *)
LEMMA SlicedHasRow ==
  ASSUME TypeInv, NEW r \in Requests, JobStep(r), req'[r].pc \in {"document", "slice"}
  PROVE  /\ req'[r].cur = req[r].cur /\ req[r].cur \in Files
         /\ \/ status'[req[r].cur] = "indexing"
            \/ req[r].pc \in {"document", "slice"} /\ status' = status
<1>1. /\ StoreTypeOK /\ req \in [Requests -> Job] /\ req[r] \in Job /\ InPlace(req[r])
  BY DEF TypeInv, TypeOK, RequestTypeOK, JobPlace
<1>2. req[r].pc \in OnOneFile => req[r].cur \in Files
  BY <1>1 DEF InPlace, Job
<1>3. ~Finish(r) /\ ~AbortPrepare(r)
  <2>1. Finish(r) => req'[r].pc = "done"
    BY <1>1 DEF Finish, Become, Job
  <2>2. AbortPrepare(r) => req'[r].pc = "recover_failed"
    BY <1>1 DEF AbortPrepare, Become, Job
  <2> QED
    BY <2>1, <2>2
<1>4. CASE Mark(r)
  <2>1. At(r, "mark") /\ req[r].cur \in Files
    BY <1>2, <1>4 DEF Mark, At, OnOneFile
  <2>2. Taken(req[r].cur, req[r].text)
    BY <1>1, <1>4, <2>1, MarkWritten DEF Mark
  <2>3. req'[r].cur = req[r].cur
    BY <1>1, <1>4 DEF Mark, Become, Job
  <2> QED
    BY <2>1, <2>2, <2>3 DEF Taken
<1>5. CASE MarkStored(r)
  <2>1. At(r, "mark") /\ req[r].cur \in Files
    BY <1>2, <1>5 DEF MarkStored, At, OnOneFile
  <2>2. CanMove(req[r].cur, "indexing")
    BY <1>3, <1>5 DEF MarkStored
  <2>3. Requeued(req[r].cur)
    BY <1>1, <1>5, <2>1, <2>2, RequeueWritten DEF MarkStored
  <2>4. req'[r].cur = req[r].cur
    BY <1>1, <1>5, <2>2 DEF MarkStored, Become, Job
  <2> QED
    BY <2>1, <2>3, <2>4 DEF Requeued
<1>6. CASE SliceDocument(r)
  <2>1. At(r, "document") /\ status' = status
    BY <1>6 DEF SliceDocument, NoWrite, storeVars, rowVars
  <2>2. req'[r].cur = req[r].cur
    BY <1>1, <1>6 DEF SliceDocument, Become, Job
  <2> QED
    BY <1>2, <2>1, <2>2 DEF At, OnOneFile
<1>7. ASSUME NEW f \in req[r].todo
      PROVE  /\ ~SkipInFlight(r, f) /\ ~TakeClaim(r, f) /\ ~DropCancelled(r, f)
             /\ ~Confirm(r, f) /\ ~RecoverOne(r, f)
  <2>1. ~SkipInFlight(r, f)
    BY <1>1 DEF SkipInFlight, At, Become, Job
  <2>2. TakeClaim(r, f) => req'[r].pc = "check"
    BY <1>1 DEF TakeClaim, Become, Job
  <2>3. DropCancelled(r, f) => req'[r].pc = "drop"
    BY <1>1 DEF DropCancelled, At, Become, Job
  <2>4. ~Confirm(r, f)
    BY <1>1 DEF Confirm, At, Become, Job
  <2>5. RecoverOne(r, f) => req'[r].pc = req[r].pc
                            /\ req[r].pc \in {"recover_failed", "recover_cancelled"}
    <3>1. RecoverOne(r, f) => Become(r, [req[r] EXCEPT !.todo = @ \ {f}])
                              /\ req[r].pc \in {"recover_failed", "recover_cancelled"}
      BY DEF RecoverOne, At
    <3> QED
      BY <1>1, <3>1 DEF Become, Job
  <2> QED
    BY <2>1, <2>2, <2>3, <2>4, <2>5
<1>9. ~SkipFile(r) /\ ~NeedsWork(r) /\ ~RebuildSymbols(r) /\ ~Slice(r)
  <2>1. SkipFile(r) => req'[r].pc = "pick"
    BY <1>1 DEF SkipFile, Become, Job
  <2>2. NeedsWork(r) => req'[r].pc = "mark"
    BY <1>1 DEF NeedsWork, Become, Job
  <2>3. RebuildSymbols(r) => req'[r].pc = "pick"
    BY <1>1 DEF RebuildSymbols, Become, Job
  <2>4. Slice(r) => req'[r].pc = "pick"
    BY <1>1 DEF Slice, Become, Job
  <2> QED
    BY <1>1, <2>1, <2>2, <2>3, <2>4
<1>8. ~ReadStored(r)
  <2>1. ReadStored(r) => req'[r].pc = "pick"
    BY <1>1 DEF ReadStored, Become, Job
  <2> QED
    BY <1>1, <2>1
<1>10. ~SliceFails(r) /\ ~SliceCancelled(r)
  <2>1. SliceFails(r) \/ SliceCancelled(r) =>
          \E pc \in {"slice_failed", "slice_cancelled"} :
            Become(r, [req[r] EXCEPT !.pc = pc])
    BY DEF SliceFails, SliceCancelled
  <2> QED
    BY <1>1, <2>1 DEF Become, Job
<1>11. ~BeginEmbed(r) /\ ~BeginConfirm(r) /\ \A S : ~EmbedBatch(r, S)
  <2>1. ~BeginEmbed(r)
    BY <1>1 DEF BeginEmbed, Become, Job
  <2>2. BeginConfirm(r) => req'[r].pc = "confirm"
    BY <1>1 DEF BeginConfirm, Become, Job
  <2>3. ASSUME NEW S PROVE ~EmbedBatch(r, S)
    BY <1>1 DEF EmbedBatch, At, Become, Job
  <2> QED
    BY <2>1, <2>2, <2>3
<1>12. ~Reconcile(r)
  <2>1. Reconcile(r) => \E gone : Become(r, [req[r] EXCEPT !.pc = "drop", !.todo = gone])
    BY DEF Reconcile
  <2>2. ASSUME NEW gone, Become(r, [req[r] EXCEPT !.pc = "drop", !.todo = gone])
        PROVE  req'[r].pc = "drop"
    BY <1>1, <2>2 DEF Become, Job
  <2> QED
    BY <1>1, <2>1, <2>2
<1>13. ~EmbedFails(r)
  <2>1. EmbedFails(r) => \E pc \in {"recover_failed", "recover_cancelled"} :
          Become(r, [req[r] EXCEPT !.pc = pc, !.todo = req[r].prepared])
    BY DEF EmbedFails
  <2>2. ASSUME NEW pc \in {"recover_failed", "recover_cancelled"},
               Become(r, [req[r] EXCEPT !.pc = pc, !.todo = req[r].prepared])
        PROVE  req'[r].pc = pc
    BY <1>1, <2>2 DEF Become, Job
  <2> QED
    BY <1>1, <2>1, <2>2
<1> QED
  BY <1>3, <1>4, <1>5, <1>6, <1>7, <1>8, <1>9, <1>10, <1>11, <1>12, <1>13
  DEF JobStep, CheckOrMarkFails, DocumentFails, RecoverCurrent, SymbolsDone,
      ConfirmFails, Return

(* A cancelled file with chunks is about to lose them. *)
LEMMA CancelNext ==
  ASSUME NeverAborted, CancelInv, [Next]_vars
  PROVE  CancelInv'
<1>1. /\ OrderInv /\ NothingDetached /\ ClaimInv /\ TypeInv /\ StoreTypeOK
      /\ CancelledAreDropped /\ RowsStay /\ req \in [Requests -> Job] /\ JobPlace
      /\ None \notin Files
  BY StoreAssumption
  DEF CancelInv, OrderInv, ClaimInv, TypeInv, TypeOK, RequestTypeOK
<1>2. {"detach", "crash", "disconnect", "stream_cancel"} \cap Faults = {}
  BY DEF NeverAborted
<1>3. OrderInv' /\ NothingDetached'
  BY <1>1, <1>2, OrderNext, NextDetachesNothing
<1>4. ~RunBlockingPool /\ ~Restart
  BY <1>1, <1>2 DEF RunBlockingPool, Restart, NothingDetached
<1>5. ASSUME NEW r \in Requests, RunJob(r), NEW q \in Requests, q # r
      PROVE  req'[q] = req[q]
  BY <1>1, <1>5, JobStepClaims DEF RunJob
<1>6. ASSUME NEW r \in Requests, RunClient(r)
      PROVE  /\ At(r, "new") /\ req'[r].pc = "pick"
             /\ \A q \in Requests : q # r => req'[q] = req[q]
  <2>1. PICK m \in Modes, v \in Versions, F \in (SUBSET Files) \ {{}} : Start(r, m, v, F)
    BY <1>2, <1>6 DEF RunClient, ClientStep, Disconnect, CancelStream
  <2> QED
    BY <1>1, <2>1 DEF Start, At, Become, Job
<1>7. ASSUME \A r \in Requests : ~RunJob(r) /\ ~RunClient(r)
      PROVE  req' = req
  BY <1>4, <1>7
  DEF Next, RunWorker, RunCollector, ServeCommand, SendCommand, requestVars, vars
<1>8. RowsStay'
  <2> SUFFICES ASSUME "delete" \notin CommandKinds PROVE
        /\ \A f \in Files : status'[f] # "deleted"
        /\ \A q \in Requests :
             req'[q].pc \in {"document", "slice"} => status'[req'[q].cur] # "absent"
    BY DEF RowsStay, At
  <2>1. ASSUME NEW f \in Files
        PROVE  /\ status'[f] # "deleted"
               /\ status[f] # "absent" => status'[f] # "absent"
    <3>1. status[f] # "deleted"
      BY <1>1 DEF RowsStay
    <3>2. ASSUME NEW c \in Commands, CommandWrites(c, f)
          PROVE  Untouched(f) \/ status'[f] \in {"cancelled", status[f]}
      BY <1>1, <3>2 DEF CommandWrites, OrderInv, CommandsAsked
    <3> QED
      BY <1>1, <3>1, <3>2, EveryStepWrites
      DEF JobWrites, WorkerWrites, CollectorWrites, Untouched, Taken, Requeued,
          Resliced, Cleared, Confirmed, Ended, Emptying
  <2>2. ASSUME NEW q \in Requests, req'[q].pc \in {"document", "slice"}
        PROVE  status'[req'[q].cur] # "absent"
    <3>1. CASE req'[q] = req[q]
      <4>1. req[q].cur \in Files /\ status[req[q].cur] # "absent"
        BY <1>1, <2>2, <3>1 DEF RowsStay, JobPlace, InPlace, OnOneFile, Job
      <4> QED
        BY <2>1, <3>1, <4>1
    <3>2. CASE RunJob(q)
      <4>1. /\ req'[q].cur = req[q].cur
            /\ \/ status'[req[q].cur] = "indexing"
               \/ req[q].pc \in {"document", "slice"} /\ status' = status
        BY <1>1, <2>2, <3>2, SlicedHasRow DEF RunJob
      <4> QED
        BY <1>1, <4>1 DEF RowsStay
    <3>3. ~RunClient(q)
      BY <1>6, <2>2
    <3> QED
      BY <1>5, <1>6, <1>7, <3>1, <3>2, <3>3
  <2> QED
    BY <2>1, <2>2
<1>9. ASSUME NEW f \in Files, status'[f] = "cancelled", ActiveOf(f)' # {}
      PROVE  \E r \in Requests : f \in Dropping(r)'
  <2>1. Untouched(f) \/ \E r \in Requests : RunJob(r) /\ f \in Dropping(r)'
    <3>1. ASSUME NEW r \in Requests, RunJob(r)
          PROVE  Untouched(f) \/ f \in Dropping(r)'
      BY <1>9, <3>1, JobStepSlices DEF RunJob
    <3>2. ASSUME WorkerWrites(f) \/ CollectorWrites(f)
                 \/ \E c \in Commands : CommandWrites(c, f)
          PROVE  Untouched(f)
      BY <1>9, <3>2
      DEF WorkerWrites, CollectorWrites, CommandWrites, Untouched, Requeued, Ended,
          Emptying
    <3> QED
      BY <1>1, <3>1, <3>2, EveryStepWrites
  <2>2. ASSUME Untouched(f) PROVE \E r \in Requests : f \in Dropping(r)'
    <3>1. PICK q \in Requests : f \in Dropping(q)
      BY <1>1, <1>9, <2>2 DEF Untouched, CancelledAreDropped
    <3>2. CASE req'[q] = req[q]
      BY <3>1, <3>2 DEF Dropping, At
    <3>3. CASE RunJob(q)
      BY <1>9, <3>1, <3>3, JobStepDrops DEF RunJob, DropsOwn
    <3>4. ~RunClient(q)
      BY <1>6, <3>1 DEF Dropping, At, Preparing
    <3> QED
      BY <1>5, <1>6, <1>7, <3>2, <3>3, <3>4
  <2> QED
    BY <2>1, <2>2
<1> QED
  BY <1>3, <1>8, <1>9 DEF CancelInv, CancelledAreDropped

(* A cancelled file that nobody works on shows no chunks, where no prepare
   fails after another file of its request was prepared.  With two files and
   DELETE one may: the row of the file in hand vanishes, and the chunks of a
   prepared file that was cancelled are then never dropped. *)
THEOREM CancelledShowNothing ==
  ASSUME NeverAborted
  PROVE  Spec => []CancelledHidesChunks
<1>1. ASSUME CancelInv PROVE CancelledHidesChunks
  <2>1. /\ None \notin Requests /\ ClaimsHeld /\ CancelledAreDropped
        /\ \A r \in Requests : OrderOf(r)
    BY <1>1, StoreAssumption
    DEF CancelInv, OrderInv, ClaimInv, JobOrder, OrderOf
  <2>2. ASSUME NEW r \in Requests, NEW f \in Dropping(r) PROVE claim[f] = r
    BY <2>1, <2>2 DEF Dropping, ClaimsHeld, Holding, OrderOf, At
  <2> QED
    BY <2>1, <2>2 DEF CancelledAreDropped, CancelledHidesChunks
<1> QED
  BY <1>1, CancelInit, CancelNext, PTL DEF Spec
=============================================================================
