--------------------------- MODULE IndexingProofs ---------------------------
(***************************************************************************)
(* Theorems about Indexing, for every value of its constants.              *)
(***************************************************************************)
EXTENDS IndexingInvariants, TLAPS

(* Each statement of the store keeps the tables well formed. *)
LEMMA MarkIndexingTyped ==
  ASSUME StoreTypeOK, NEW f, NEW v \in Versions, MarkIndexing(f, v)
  PROVE  TablesTypeOK'
BY StoreAssumption DEF StoreTypeOK, TablesTypeOK, MarkIndexing, Statuses, chunkVars

(* Chunk numbers start at one. *)
LEMMA CountsArePositive ==
  ASSUME NEW n \in Nat, NEW i \in 1 .. n
  PROVE  i \in Nat \ {0}
OBVIOUS

(* What the slicer yields are chunk rows. *)
LEMMA SlicesAreChunks ==
  ASSUME StoreTypeOK, NEW f \in Files, NEW v \in Versions, NEW r \in Requests
  PROVE  SlicesOf(f, v, r) \subseteq Chunk
<1>1. TokenizerOf[model] \in Tokenizers
  BY StoreAssumption DEF StoreTypeOK
<1>2. ASSUME NEW i \in 1 .. Pieces[f, v]
      PROVE  [file |-> f, text |-> v, tok |-> TokenizerOf[model], by |-> r,
              ix |-> i] \in Chunk
  <2>1. Pieces[f, v] \in Nat
    BY StoreAssumption
  <2>2. i \in Nat \ {0}
    BY <2>1, CountsArePositive
  <2> QED
    BY <1>1, <2>2 DEF Chunk
<1> QED
  BY <1>2 DEF SlicesOf

(* The slice transaction. *)
LEMMA ReplaceChunksTyped ==
  ASSUME StoreTypeOK, NEW f \in Files, NEW v \in Versions, NEW r \in Requests,
         ReplaceChunks(f, v, r)
  PROVE  TablesTypeOK'
BY SlicesAreChunks, StoreAssumption
DEF StoreTypeOK, TablesTypeOK, ReplaceChunks, ActiveOf, rowVars

(* The dropping of the chunks of a set of files. *)
LEMMA DropChunksTyped ==
  ASSUME StoreTypeOK, NEW B, DropChunksOf(B), UNCHANGED <<rowVars, vectors>>
  PROVE  TablesTypeOK'
BY StoreAssumption DEF StoreTypeOK, TablesTypeOK, DropChunksOf, rowVars

(* set_file_status, which saturates the retry budget. *)
LEMMA SetFileStatusTyped ==
  ASSUME StoreTypeOK, NEW f, NEW new \in Statuses, NEW bump,
         SetFileStatus(f, new, bump)
  PROVE  TablesTypeOK'
<1>1. status' \in [Files -> Statuses \cup {"absent"}]
  BY DEF StoreTypeOK, TablesTypeOK, SetFileStatus
<1>2. \A n \in 0 .. MaxRetries : Bumped(n) \in 0 .. MaxRetries
  BY StoreAssumption DEF Bumped
<1>3. retries' \in [Files -> 0 .. MaxRetries]
  BY <1>2 DEF StoreTypeOK, TablesTypeOK, SetFileStatus
<1> QED
  BY <1>1, <1>3 DEF StoreTypeOK, TablesTypeOK, SetFileStatus, chunkVars

(* mark_indexed. *)
LEMMA MarkIndexedTyped ==
  ASSUME StoreTypeOK, NEW f, NEW v \in Versions, MarkIndexed(f, v)
  PROVE  TablesTypeOK'
BY StoreAssumption
DEF StoreTypeOK, TablesTypeOK, MarkIndexed, Statuses, chunkVars

(* mark_vectors_done and mark_reembedded. *)
LEMMA MarkReembeddedTyped ==
  ASSUME StoreTypeOK, NEW f, MarkReembedded(f)
  PROVE  TablesTypeOK'
BY StoreAssumption
DEF StoreTypeOK, TablesTypeOK, MarkReembedded, Statuses, chunkVars

(* The symbol rows of one text. *)
LEMMA ReplaceSymbolsTyped ==
  ASSUME StoreTypeOK, NEW f, NEW v \in Versions, ReplaceSymbols(f, v)
  PROVE  TablesTypeOK'
BY DEF ReplaceSymbols, rowVars, StoreTypeOK, TablesTypeOK

(* An upsert of chunks that exist. *)
LEMMA UpsertTyped ==
  ASSUME StoreTypeOK, NEW S \in SUBSET Chunk, Upsert(S)
  PROVE  TablesTypeOK'
BY DEF StoreTypeOK, TablesTypeOK, Upsert, rowVars, chunkVars

(* A transaction that wrote nothing. *)
LEMMA NoWriteTyped ==
  ASSUME StoreTypeOK, NoWrite
  PROVE  TablesTypeOK'
BY DEF StoreTypeOK, TablesTypeOK, NoWrite, storeVars, rowVars, chunkVars

-----------------------------------------------------------------------------
(* Each step of a job leaves it a job in its place. *)
LEMMA BecomeTyped ==
  ASSUME req \in [Requests -> Job], JobPlace, NEW r \in Requests,
         NEW job \in Job, InPlace(job), Become(r, job)
  PROVE  req' \in [Requests -> Job] /\ JobPlace'
BY DEF Become, JobPlace, InPlace

(* The end of a job. *)
LEMMA FinishTyped ==
  ASSUME TypeInv, NEW r \in Requests, Finish(r)
  PROVE  /\ req' \in [Requests -> Job] /\ JobPlace'
         /\ claim' \in [Files -> Requests \cup {Worker, None}]
<1>1. req[r] \in Job
  BY DEF TypeInv, TypeOK, RequestTypeOK
<1> DEFINE job == [req[r] EXCEPT !.pc = "done", !.text = None, !.todo = {},
                                 !.cur = None, !.prepared = {}, !.pending = {},
                                 !.token = FALSE]
<1>2. job \in Job /\ InPlace(job)
  BY <1>1 DEF Job, PCs, InPlace, OnOneFile
<1>3. req' \in [Requests -> Job] /\ JobPlace'
  BY <1>2, BecomeTyped DEF TypeInv, TypeOK, RequestTypeOK, Finish
<1>4. claim' \in [Files -> Requests \cup {Worker, None}]
  BY DEF TypeInv, TypeOK, StoreTypeOK, Finish, ReleaseAll
<1> QED
  BY <1>3, <1>4

(* The way of a failed prepare into recover_all. *)
LEMMA AbortPrepareTyped ==
  ASSUME TypeInv, NEW r \in Requests, req[r].pc \in OnOneFile, AbortPrepare(r)
  PROVE  /\ req' \in [Requests -> Job] /\ JobPlace'
         /\ claim' \in [Files -> Requests \cup {Worker, None}]
<1>1. req[r] \in Job /\ InPlace(req[r])
  BY DEF TypeInv, TypeOK, RequestTypeOK, JobPlace
<1> DEFINE job == [req[r] EXCEPT !.pc = "recover_failed", !.cur = None,
                                 !.todo = req[r].prepared]
<1>2. job \in Job /\ InPlace(job)
  BY <1>1 DEF Job, PCs, InPlace, OnOneFile
<1>3. req' \in [Requests -> Job] /\ JobPlace'
  BY <1>2, BecomeTyped DEF TypeInv, TypeOK, RequestTypeOK, AbortPrepare
<1>4. claim' \in [Files -> Requests \cup {Worker, None}]
  BY DEF TypeInv, TypeOK, StoreTypeOK, AbortPrepare
<1> QED
  BY <1>3, <1>4

(* The slice transaction, as a step of a job. *)
LEMMA SliceTyped ==
  ASSUME TypeInv, NEW r \in Requests, Slice(r)
  PROVE  /\ TablesTypeOK'
         /\ req' \in [Requests -> Job] /\ JobPlace'
<1> DEFINE f == req[r].cur
           v == req[r].text
           job == [req[r] EXCEPT !.pc = "pick", !.cur = None, !.prepared = @ \cup {f},
                                 !.pending = @ \cup SlicesOf(f, v, r)]
<1>1. req[r] \in Job /\ InPlace(req[r]) /\ StoreTypeOK
  BY DEF TypeInv, TypeOK, RequestTypeOK, JobPlace
<1>2. f \in Files /\ v \in Versions
  BY <1>1 DEF Slice, At, Job, InPlace, OnOneFile
<1>3. TablesTypeOK'
  BY <1>1, <1>2, ReplaceChunksTyped DEF Slice
<1>4. SlicesOf(f, v, r) \subseteq Chunk
  BY <1>1, <1>2, SlicesAreChunks
<1>5. job \in Job /\ InPlace(job)
  BY <1>1, <1>2, <1>4 DEF Job, PCs, InPlace, OnOneFile
<1>6. req' \in [Requests -> Job] /\ JobPlace'
  BY <1>5, BecomeTyped DEF TypeInv, TypeOK, RequestTypeOK, Slice
<1> QED
  BY <1>3, <1>6

(* What a step of a job writes. *)
LEMMA JobStepTyped ==
  ASSUME TypeInv, NEW r \in Requests, JobStep(r)
  PROVE  /\ TablesTypeOK'
         /\ claim' \in [Files -> Requests \cup {Worker, None}]
         /\ req' \in [Requests -> Job]
         /\ JobPlace'
<1> DEFINE Goal == /\ TablesTypeOK'
                   /\ claim' \in [Files -> Requests \cup {Worker, None}]
                   /\ req' \in [Requests -> Job]
                   /\ JobPlace'
<1>1. /\ req \in [Requests -> Job] /\ req[r] \in Job /\ InPlace(req[r])
      /\ JobPlace /\ StoreTypeOK
      /\ claim \in [Files -> Requests \cup {Worker, None}]
  BY DEF TypeInv, TypeOK, RequestTypeOK, JobPlace, StoreTypeOK
<1>2. ASSUME NEW f \in req[r].todo, SkipInFlight(r, f)
      PROVE  Goal
  BY <1>1, <1>2, BecomeTyped, NoWriteTyped
  DEF SkipInFlight, Job, PCs, InPlace, OnOneFile, At, Become
<1>3. ASSUME NEW f \in req[r].todo, TakeClaim(r, f)
      PROVE  Goal
  BY <1>1, <1>3, BecomeTyped, NoWriteTyped, StoreAssumption
  DEF TakeClaim, Acquire, Job, PCs, InPlace, OnOneFile, At, Become
<1>4. ASSUME NEW f \in req[r].todo, DropCancelled(r, f)
      PROVE  Goal
  BY <1>1, <1>4, BecomeTyped, NoWriteTyped, DropChunksTyped
  DEF DropCancelled, Job, PCs, InPlace, OnOneFile, At, Become
<1>5. ASSUME NEW f \in req[r].todo, Confirm(r, f)
      PROVE  Goal
  BY <1>1, <1>5, BecomeTyped, MarkIndexedTyped, MarkReembeddedTyped
  DEF Confirm, Job, PCs, InPlace, OnOneFile, At, Become
<1>6. ASSUME NEW f \in req[r].todo, RecoverOne(r, f)
      PROVE  Goal
  BY <1>1, <1>6, BecomeTyped, SetFileStatusTyped, NoWriteTyped
  DEF RecoverOne, Statuses, Job, PCs, InPlace, OnOneFile, At, Become
<1>7. CASE SkipFile(r)
  BY <1>1, <1>7, BecomeTyped, NoWriteTyped
  DEF SkipFile, Job, PCs, InPlace, OnOneFile, At, Become
<1>8. CASE NeedsWork(r)
  BY <1>1, <1>8, BecomeTyped, NoWriteTyped
  DEF NeedsWork, Job, PCs, InPlace, OnOneFile, At, Become
<1>9. CASE RebuildSymbols(r)
  BY <1>1, <1>9, BecomeTyped, ReplaceSymbolsTyped
  DEF RebuildSymbols, Job, PCs, InPlace, OnOneFile, At, Become
<1>10. CASE CheckOrMarkFails(r)
  BY <1>1, <1>10, FinishTyped, AbortPrepareTyped, NoWriteTyped
  DEF CheckOrMarkFails, At, OnOneFile
<1>11. CASE Mark(r)
  BY <1>1, <1>11, BecomeTyped, MarkIndexingTyped
  DEF Mark, Job, PCs, InPlace, OnOneFile, At, Become
<1>12. CASE MarkStored(r)
  <2>1. TablesTypeOK'
    BY <1>1, <1>12, SetFileStatusTyped DEF MarkStored, Statuses
  <2>2. CASE CanMove(req[r].cur, "indexing")
    <3> DEFINE job == [req[r] EXCEPT !.pc = "slice"]
    <3>1. Become(r, job) /\ UNCHANGED claim /\ req[r].pc = "mark"
      BY <1>12, <2>2 DEF MarkStored, At
    <3>2. job \in Job /\ InPlace(job)
      BY <1>1, <3>1 DEF Job, PCs, InPlace, OnOneFile
    <3> QED
      BY <1>1, <2>1, <3>1, <3>2, BecomeTyped
  <2>3. CASE ~CanMove(req[r].cur, "indexing")
    BY <1>12, <2>1, <2>3, AbortPrepareTyped DEF MarkStored, At, OnOneFile
  <2> QED
    BY <2>2, <2>3
<1>13. CASE SliceDocument(r)
  BY <1>1, <1>13, BecomeTyped, NoWriteTyped
  DEF SliceDocument, Job, PCs, InPlace, OnOneFile, At, Become
<1>14. CASE DocumentFails(r)
  BY <1>1, <1>14, AbortPrepareTyped, NoWriteTyped
  DEF DocumentFails, At, OnOneFile
<1>15. CASE Slice(r)
  BY <1>1, <1>15, SliceTyped
  DEF Slice
<1>16. CASE ReadStored(r)
  BY <1>1, <1>16, BecomeTyped, NoWriteTyped
  DEF ReadStored, ActiveOf, StoreTypeOK, TablesTypeOK, Job, PCs, InPlace, OnOneFile, At, Become
<1>17. CASE SliceFails(r) \/ SliceCancelled(r)
  BY <1>1, <1>17, BecomeTyped, NoWriteTyped
  DEF SliceFails, SliceCancelled, Job, PCs, InPlace, OnOneFile, At, Become
<1>18. CASE RecoverCurrent(r)
  BY <1>1, <1>18, AbortPrepareTyped, SetFileStatusTyped, NoWriteTyped
  DEF RecoverCurrent, Statuses, At, OnOneFile
<1>19. CASE Reconcile(r)
  <2>1. PICK gone \in SUBSET Files :
          Become(r, [req[r] EXCEPT !.pc = "drop", !.todo = gone])
    BY <1>1, <1>19 DEF Reconcile, Job
  <2> QED
    BY <1>1, <1>19, <2>1, BecomeTyped, NoWriteTyped DEF Reconcile, Job, PCs, InPlace, OnOneFile, At, Become
<1>20. CASE BeginEmbed(r)
  BY <1>1, <1>20, BecomeTyped, NoWriteTyped
  DEF BeginEmbed, Job, PCs, InPlace, OnOneFile, At, Become
<1>21. CASE SymbolsDone(r) \/ ConfirmFails(r) \/ Return(r)
  BY <1>1, <1>21, FinishTyped, NoWriteTyped
  DEF SymbolsDone, ConfirmFails, Return
<1>22. ASSUME NEW S \in (SUBSET req[r].pending) \ {{}}, EmbedBatch(r, S)
      PROVE  Goal
  BY <1>1, <1>22, BecomeTyped, UpsertTyped
  DEF EmbedBatch, Job, PCs, InPlace, OnOneFile, At, Become
<1>23. CASE EmbedFails(r)
  <2>1. PICK pc \in {"recover_failed", "recover_cancelled"} :
          Become(r, [req[r] EXCEPT !.pc = pc, !.todo = req[r].prepared])
    BY <1>23 DEF EmbedFails
  <2>2. At(r, "embed")
    BY <1>23 DEF EmbedFails
  <2> QED
    BY <1>1, <1>23, <2>1, <2>2, BecomeTyped, NoWriteTyped
    DEF EmbedFails, Job, PCs, InPlace, OnOneFile, At, Become
<1>24. CASE BeginConfirm(r)
  BY <1>1, <1>24, BecomeTyped, NoWriteTyped
  DEF BeginConfirm, Job, PCs, InPlace, OnOneFile, At, Become
<1> QED
  BY <1>2, <1>3, <1>4, <1>5, <1>6, <1>7, <1>8, <1>9, <1>10, <1>11, <1>12, <1>13, <1>14, <1>15, <1>16, <1>17, <1>18, <1>19, <1>20, <1>21, <1>22, <1>23, <1>24 DEF JobStep

(* The steps of the other actors, as far as types go. *)
LEMMA ClientStepTyped ==
  ASSUME TypeInv, NEW r \in Requests, ClientStep(r)
  PROVE  /\ TablesTypeOK'
         /\ claim' \in [Files -> Requests \cup {Worker, None}]
         /\ req' \in [Requests -> Job] /\ JobPlace'
         /\ detached' \subseteq Tx
<1>1. /\ req \in [Requests -> Job] /\ req[r] \in Job /\ InPlace(req[r])
      /\ JobPlace /\ StoreTypeOK /\ detached \subseteq Tx
      /\ claim \in [Files -> Requests \cup {Worker, None}]
  BY DEF TypeInv, TypeOK, RequestTypeOK, JobPlace, StoreTypeOK
<1>2. ~At(r, "new") /\ ~At(r, "done") => Awaiting(r) \subseteq Tx
  BY <1>1 DEF Awaiting, Tx, TxOps, Job, InPlace, OnOneFile, At
<1>3. ASSUME NEW m \in Modes, NEW v \in Versions, NEW F \in (SUBSET Files) \ {{}},
             Start(r, m, v, F), UNCHANGED detached
      PROVE  /\ TablesTypeOK' /\ claim' = claim /\ detached' \subseteq Tx
             /\ req' \in [Requests -> Job] /\ JobPlace'
  BY <1>1, <1>3, BecomeTyped, NoWriteTyped, ModesAssumption
  DEF Start, Job, PCs, InPlace, OnOneFile, At
<1>4. CASE Disconnect(r)
  BY <1>1, <1>2, <1>4, FinishTyped, NoWriteTyped DEF Disconnect, LeaveBehind
<1>5. CASE CancelStream(r)
  <2>1. detached' \subseteq Tx
    BY <1>1, <1>2, <1>5 DEF CancelStream, LeaveBehind
  <2> QED
    BY <1>1, <1>5, <2>1, BecomeTyped, NoWriteTyped
    DEF CancelStream, Job, InPlace
<1> QED
  BY <1>1, <1>3, <1>4, <1>5 DEF ClientStep

(* A transaction that runs on after its future is gone. *)
LEMMA RunDetachedTyped ==
  ASSUME TypeInv, NEW t \in detached, RunDetached(t)
  PROVE  TablesTypeOK'
<1>1. t \in Tx /\ StoreTypeOK
  BY DEF TypeInv, TypeOK, RequestTypeOK
<1>2. t.file \in Files /\ t.text \in Versions /\ t.by \in Requests /\ t.op \in TxOps
  BY <1>1 DEF Tx
<1> QED
  BY <1>1, <1>2, MarkIndexingTyped, ReplaceChunksTyped, NoWriteTyped,
     DropChunksTyped, MarkIndexedTyped, MarkReembeddedTyped, SetFileStatusTyped,
     ReplaceSymbolsTyped
  DEF RunDetached, TxOps, Statuses

(* The retry worker. *)
LEMMA WorkerStepTyped ==
  ASSUME TypeInv, WorkerStep
  PROVE  /\ TablesTypeOK' /\ WorkerTypeOK'
         /\ claim' \in [Files -> Requests \cup {Worker, None}]
<1>1. /\ WorkerTypeOK /\ StoreTypeOK /\ active \subseteq Chunk
      /\ claim \in [Files -> Requests \cup {Worker, None}]
  BY DEF TypeInv, TypeOK, StoreTypeOK, TablesTypeOK
<1>2. ASSUME LeaveFile
      PROVE  WorkerTypeOK' /\ claim' \in [Files -> Requests \cup {Worker, None}]
  BY <1>1, <1>2 DEF LeaveFile, WorkerTypeOK, WorkerPCs
<1>3. ASSUME NEW S \in (SUBSET Candidates) \ {{}}, Sweep(S)
      PROVE  TablesTypeOK' /\ WorkerTypeOK' /\ claim' = claim
  BY <1>1, <1>3, NoWriteTyped DEF Sweep, Candidates, WorkerTypeOK
<1>4. ASSUME NEW f \in worker.todo, WorkerSkipsClaimed(f)
      PROVE  TablesTypeOK' /\ WorkerTypeOK' /\ claim' = claim
  BY <1>1, <1>4, NoWriteTyped DEF WorkerSkipsClaimed, WorkerTypeOK
<1>5. ASSUME NEW f \in worker.todo, WorkerTakesClaim(f)
      PROVE  /\ TablesTypeOK' /\ WorkerTypeOK'
             /\ claim' \in [Files -> Requests \cup {Worker, None}]
  BY <1>1, <1>5, NoWriteTyped DEF WorkerTakesClaim, WorkerTypeOK, WorkerPCs, Acquire
<1>6. CASE Recheck
  BY <1>1, <1>2, <1>6, NoWriteTyped DEF Recheck, WorkerTypeOK, WorkerPCs
<1>7. CASE WorkerMarks
  BY <1>1, <1>2, <1>7, SetFileStatusTyped
  DEF WorkerMarks, WorkerTypeOK, WorkerPCs, Statuses
<1>8. CASE WorkerReads
  BY <1>1, <1>8, NoWriteTyped DEF WorkerReads, WorkerTypeOK, WorkerPCs, ActiveOf
<1>9. ASSUME NEW S \in (SUBSET worker.pending) \ {{}}, WorkerEmbeds(S)
      PROVE  TablesTypeOK' /\ WorkerTypeOK' /\ claim' = claim
  BY <1>1, <1>9, UpsertTyped DEF WorkerEmbeds, WorkerTypeOK, WorkerPCs
<1>10. CASE WorkerEmbedFails
  BY <1>1, <1>10, NoWriteTyped DEF WorkerEmbedFails, WorkerTypeOK, WorkerPCs
<1>11. CASE WorkerConfirms
  BY <1>1, <1>2, <1>11, MarkReembeddedTyped DEF WorkerConfirms
<1>12. CASE WorkerRecordsFailure
  BY <1>1, <1>2, <1>12, SetFileStatusTyped DEF WorkerRecordsFailure, Statuses
<1>13. CASE WorkerTxFails
  BY <1>1, <1>2, <1>13, NoWriteTyped DEF WorkerTxFails
<1> QED
  BY <1>1, <1>3, <1>4, <1>5, <1>6, <1>7, <1>8, <1>9, <1>10, <1>11, <1>12, <1>13
  DEF WorkerStep

(* The pruning of the rows of deleted files. *)
LEMMA PruneFilesTyped ==
  ASSUME StoreTypeOK, PruneFiles
  PROVE  TablesTypeOK'
BY StoreAssumption, NoWriteTyped
DEF StoreTypeOK, TablesTypeOK, PruneFiles, chunkVars

(* The collector. *)
LEMMA GcStepTyped ==
  ASSUME TypeInv, GcStep
  PROVE  TablesTypeOK' /\ GcTypeOK'
<1>1. GcTypeOK /\ StoreTypeOK /\ TablesTypeOK
  BY DEF TypeInv, TypeOK, StoreTypeOK
<1>2. PassDone => GcTypeOK'
  BY DEF PassDone, GcTypeOK, GcPCs
<1>3. ASSUME NEW manual \in BOOLEAN, StartPass(manual)
      PROVE  TablesTypeOK' /\ GcTypeOK'
  <2>1. TablesTypeOK'
    BY <1>1, <1>3, NoWriteTyped DEF StartPass
  <2>2. GcTypeOK'
    BY <1>3 DEF StartPass, GcTypeOK, GcPCs
  <2> QED
    BY <2>1, <2>2
<1>4. CASE SelectDeleted
  <2>1. TablesTypeOK'
    BY <1>1, <1>4, NoWriteTyped DEF SelectDeleted
  <2>2. GcTypeOK'
    BY <1>1, <1>4 DEF SelectDeleted, GcGoto, GcTypeOK, GcPCs, TablesTypeOK
  <2> QED
    BY <2>1, <2>2
<1>5. CASE DeleteVectors
  BY <1>1, <1>5
  DEF DeleteVectors, GcGoto, GcTypeOK, GcPCs, TablesTypeOK, rowVars, chunkVars
<1>6. CASE PurgeRows
  BY <1>1, <1>6 DEF PurgeRows, GcGoto, GcTypeOK, GcPCs, TablesTypeOK, rowVars
<1>7. CASE SweepFails
  BY <1>1, <1>7, NoWriteTyped DEF SweepFails, GcGoto, GcTypeOK, GcPCs
<1>8. CASE PruneFiles
  BY <1>1, <1>2, <1>8, PruneFilesTyped DEF PruneFiles
<1>9. CASE PassEnds
  BY <1>1, <1>2, <1>9, NoWriteTyped DEF PassEnds
<1> QED
  BY <1>3, <1>4, <1>5, <1>6, <1>7, <1>8, <1>9 DEF GcStep

(* The endpoints that take no claim. *)
LEMMA CommandTyped ==
  ASSUME TypeInv, NEW c \in Commands, CommandServed(c) \/ CommandSent(c)
  PROVE  TablesTypeOK' /\ CommandTypeOK'
<1>1. CommandTypeOK /\ StoreTypeOK /\ TablesTypeOK
  BY DEF TypeInv, TypeOK, StoreTypeOK
<1>2. ASSUME NEW B, Applied(c, B)
      PROVE  /\ CommandTypeOK'
             /\ status' \in [Files -> Statuses \cup {"absent"}] => TablesTypeOK'
  BY <1>1, <1>2 DEF Applied, DropChunksOf, CommandTypeOK, TablesTypeOK
<1>3. ASSUME NEW B, ApplyCancel(c, B)
      PROVE  TablesTypeOK' /\ CommandTypeOK'
  BY <1>1, <1>2, <1>3 DEF ApplyCancel, TablesTypeOK, Statuses
<1>4. ASSUME NEW B, ApplyDelete(c, B)
      PROVE  TablesTypeOK' /\ CommandTypeOK'
  BY <1>1, <1>2, <1>4 DEF ApplyDelete, TablesTypeOK, Statuses
<1>5. CASE CommandStops(c)
  BY <1>1, <1>5, NoWriteTyped DEF CommandStops, CommandTypeOK
<1>6. ASSUME NEW P \in (SUBSET Files) \ {{}}, SelectCancel(c, P) \/ SelectDelete(c, P)
      PROVE  TablesTypeOK' /\ CommandTypeOK'
  BY <1>1, <1>6, NoWriteTyped DEF SelectCancel, SelectDelete, Selects, CommandTypeOK
<1>7. ASSUME NEW P \in (SUBSET Files) \ {{}}, PostRetry(P)
      PROVE  TablesTypeOK' /\ CommandTypeOK'
  BY <1>1, <1>7, StoreAssumption
  DEF PostRetry, CommandTypeOK, TablesTypeOK, chunkVars
<1> QED
  BY <1>3, <1>4, <1>5, <1>6, <1>7 DEF CommandServed, CommandSent

(* A crash and the start of the next process. *)
LEMMA RestartTyped ==
  ASSUME TypeInv, Restart
  PROVE  TypeInv'
<1>1. /\ req \in [Requests -> Job] /\ JobPlace /\ StoreTypeOK
  BY DEF TypeInv, TypeOK, RequestTypeOK
<1>2. StoreTypeOK'
  BY <1>1, NoWriteTyped DEF Restart, StoreTypeOK
<1>3. RequestTypeOK' /\ JobPlace'
  <2>1. ASSUME NEW r \in Requests
        PROVE  req'[r] \in Job /\ InPlace(req'[r])
    BY <1>1 DEF Restart, At, Job, PCs, JobPlace, InPlace, OnOneFile
  <2>2. req' = [r \in Requests |-> req'[r]]
    BY DEF Restart
  <2> QED
    BY <2>1, <2>2 DEF Restart, RequestTypeOK, JobPlace, InPlace
<1>4. WorkerTypeOK' /\ GcTypeOK' /\ CommandTypeOK'
  BY DEF Restart, PassDone, WorkerTypeOK, WorkerPCs, GcTypeOK, GcPCs, CommandTypeOK
<1> QED
  BY <1>2, <1>3, <1>4 DEF TypeInv, TypeOK

(* The program starts with well-formed tables and no work in hand. *)
LEMMA InitTyped == Init => TypeInv
<1> SUFFICES ASSUME Init PROVE TypeInv
  OBVIOUS
<1>1. StoreTypeOK
  BY StoreAssumption DEF Init, StoreInit, StoreTypeOK, TablesTypeOK
<1>2. RequestTypeOK /\ JobPlace
  BY DEF Init, RequestInit, RequestTypeOK, Job, PCs, ModeNames, JobPlace, InPlace,
     OnOneFile
<1>3. WorkerTypeOK /\ GcTypeOK /\ CommandTypeOK
  BY DEF Init, WorkerInit, GcInit, CommandInit, WorkerTypeOK, WorkerPCs, GcTypeOK,
     GcPCs, CommandTypeOK
<1> QED
  BY <1>1, <1>2, <1>3 DEF TypeInv, TypeOK

(* Every step of every actor, crashes included, keeps them so. *)
LEMMA NextTyped ==
  ASSUME TypeInv, [Next]_vars
  PROVE  TypeInv'
<1>1. StoreTypeOK /\ RequestTypeOK /\ WorkerTypeOK /\ GcTypeOK /\ CommandTypeOK
      /\ JobPlace
  BY DEF TypeInv, TypeOK
<1>2. ASSUME NEW r \in Requests, RunJob(r) PROVE TypeInv'
  <2>1. JobStep(r) /\ UNCHANGED <<model, worker, gc, command, detached>>
    BY <1>2 DEF RunJob, JobStep
  <2>2. /\ TablesTypeOK' /\ req' \in [Requests -> Job] /\ JobPlace'
        /\ claim' \in [Files -> Requests \cup {Worker, None}]
    BY <2>1, JobStepTyped
  <2> QED
    BY <1>1, <2>1, <2>2
    DEF TypeInv, TypeOK, StoreTypeOK, RequestTypeOK, WorkerTypeOK, GcTypeOK,
        CommandTypeOK
<1>3. ASSUME NEW r \in Requests, RunClient(r) PROVE TypeInv'
  <2>1. ClientStep(r) /\ UNCHANGED <<model, worker, gc, command>>
    BY <1>3 DEF RunClient
  <2>2. /\ TablesTypeOK' /\ req' \in [Requests -> Job] /\ JobPlace'
        /\ claim' \in [Files -> Requests \cup {Worker, None}]
        /\ detached' \subseteq Tx
    BY <2>1, ClientStepTyped
  <2> QED
    BY <1>1, <2>1, <2>2
    DEF TypeInv, TypeOK, StoreTypeOK, RequestTypeOK, WorkerTypeOK, GcTypeOK,
        CommandTypeOK
<1>4. CASE RunBlockingPool
  <2>1. PICK t \in detached : RunDetached(t)
    BY <1>4 DEF RunBlockingPool
  <2>2. /\ UNCHANGED <<model, worker, gc, command, req, claim>>
        /\ detached' \subseteq detached
    BY <1>4, <2>1 DEF RunBlockingPool, RunDetached
  <2>3. TablesTypeOK'
    BY <2>1, RunDetachedTyped
  <2> QED
    BY <1>1, <2>2, <2>3
    DEF TypeInv, TypeOK, StoreTypeOK, RequestTypeOK, JobPlace, WorkerTypeOK,
        GcTypeOK, CommandTypeOK
<1>5. CASE RunWorker
  BY <1>1, <1>5, WorkerStepTyped
  DEF RunWorker, requestVars, TypeInv, TypeOK, StoreTypeOK, RequestTypeOK,
      JobPlace, GcTypeOK, CommandTypeOK
<1>6. CASE RunCollector
  BY <1>1, <1>6, GcStepTyped
  DEF RunCollector, requestVars, TypeInv, TypeOK, StoreTypeOK, RequestTypeOK,
      JobPlace, WorkerTypeOK, CommandTypeOK
<1>7. ASSUME NEW c \in Commands, ServeCommand(c) \/ SendCommand(c) PROVE TypeInv'
  BY <1>1, <1>7, CommandTyped
  DEF ServeCommand, SendCommand, requestVars, TypeInv, TypeOK, StoreTypeOK,
      RequestTypeOK, JobPlace, WorkerTypeOK, GcTypeOK
<1>8. CASE Restart
  BY <1>8, RestartTyped
<1>9. CASE UNCHANGED vars
  BY <1>1, <1>9
  DEF vars, storeVars, rowVars, chunkVars, requestVars, TypeInv, TypeOK,
      StoreTypeOK, TablesTypeOK, RequestTypeOK, JobPlace, WorkerTypeOK, GcTypeOK,
      CommandTypeOK
<1> QED
  BY <1>2, <1>3, <1>4, <1>5, <1>6, <1>7, <1>8, <1>9 DEF Next

(* Type correctness: the tables, the claim table and the state of every actor
   keep the shape the code gives them, under every failure. *)
THEOREM TypeCorrect == Spec => []TypeOK
<1>1. Spec => []TypeInv
  BY InitTyped, NextTyped, PTL DEF Spec
<1>2. TypeInv => TypeOK
  BY DEF TypeInv
<1> QED
  BY <1>1, <1>2, PTL

-----------------------------------------------------------------------------
(* Claims.  IndexClaim does its job: whoever works on a file holds the file's
   claim, and no claim outlives the work, whatever fails and when. *)
(* ClaimInv, as a statement about one job and the claim table. *)
Held(job) == job.prepared \cup ({job.cur} \ {None})

Consistent(r, job, cl) ==
  /\ job.cur \notin job.prepared \cup job.todo
  /\ job.pc = "new" => job.prepared = {}
  /\ \A f \in Held(job) : cl[f] = r
  /\ \A f \in Files : cl[f] = r => f \in Held(job) \/ job.pc = "drop"

(* A step of r takes free claims and gives its own back, and no other. *)
OnlyOf(who) ==
  \A f \in Files : claim'[f] = claim[f] \/ {claim[f], claim'[f]} \subseteq {who, None}

(* The same invariant, regrouped per job. *)
LEMMA ClaimInvIsConsistent ==
  ClaimInv <=> /\ TypeInv /\ WorkerPlace
               /\ \A r \in Requests : Consistent(r, req[r], claim)
               /\ worker.file # None => claim[worker.file] = Worker
               /\ \A f \in Files : claim[f] = Worker => worker.file = f
BY DEF ClaimInv, JobShape, ClaimsHeld, NoClaimLeaks, Holding, Held, Consistent, At

(* The claims of everybody else are untouched by a step of r. *)
LEMMA OneJobSteps ==
  ASSUME ClaimInv, NEW r \in Requests, TypeInv',
         \A q \in Requests : q # r => req'[q] = req[q],
         Consistent(r, req'[r], claim'), OnlyOf(r), worker' = worker
  PROVE  ClaimInv'
<1>1. /\ TypeInv /\ WorkerPlace
      /\ \A q \in Requests : Consistent(q, req[q], claim)
      /\ worker.file # None => claim[worker.file] = Worker
      /\ \A f \in Files : claim[f] = Worker => worker.file = f
  BY ClaimInvIsConsistent
<1>2. r # Worker /\ r # None /\ Worker # None
  BY StoreAssumption DEF Worker
<1>3. \A q \in Requests : req[q] \in Job /\ req'[q] \in Job
  BY <1>1 DEF TypeInv, TypeOK, RequestTypeOK
<1>4. worker.file \in Files \cup {None}
  BY <1>1 DEF TypeInv, TypeOK, WorkerTypeOK
<1>5. \A q \in Requests : Held(req[q]) \subseteq Files
  BY <1>3 DEF Held, Job
<1>6. ASSUME NEW q \in Requests
      PROVE  Consistent(q, req'[q], claim')
  <2>1. CASE q = r
    BY <2>1
  <2>2. CASE q # r
    <3>1. Consistent(q, req[q], claim) /\ req'[q] = req[q] /\ q # None
      BY <1>1, <2>2, StoreAssumption
    <3> QED
      BY <1>2, <1>5, <2>2, <3>1 DEF Consistent, OnlyOf
  <2> QED
    BY <2>1, <2>2
<1>7. /\ worker'.file # None => claim'[worker'.file] = Worker
      /\ \A f \in Files : claim'[f] = Worker => worker'.file = f
  BY <1>1, <1>2, <1>4 DEF OnlyOf
<1>8. WorkerPlace'
  BY <1>1 DEF WorkerPlace
<1> QED
  BY <1>6, <1>7, <1>8 DEF ClaimInv, JobShape, ClaimsHeld, NoClaimLeaks, Holding,
     Held, Consistent, At

(* The ways a job gives its claims back: all of them ... *)
LEMMA FinishReleases ==
  ASSUME TypeInv, NEW r \in Requests, Consistent(r, req[r], claim), Finish(r)
  PROVE  /\ \A q \in Requests : q # r => req'[q] = req[q]
         /\ Consistent(r, req'[r], claim') /\ OnlyOf(r)
<1>1. req \in [Requests -> Job] /\ req[r] \in Job /\ r # None /\ None \notin Files
  BY StoreAssumption DEF TypeInv, TypeOK, RequestTypeOK
<1>2. \A q \in Requests : q # r => req'[q] = req[q]
  BY <1>1 DEF Finish, Become
<1>3. OnlyOf(r)
  BY DEF Finish, ReleaseAll, OnlyOf
<1>4. /\ req'[r].pc = "done" /\ req'[r].cur = None
      /\ req'[r].prepared = {} /\ req'[r].todo = {}
  BY <1>1 DEF Finish, Become, Job
<1> QED
  BY <1>1, <1>2, <1>3, <1>4 DEF Finish, ReleaseAll, Consistent, Held

(* ... or the one of the file it has in hand. *)
LEMMA AbortReleases ==
  ASSUME TypeInv, NEW r \in Requests, Consistent(r, req[r], claim),
         req[r].pc \in OnOneFile, AbortPrepare(r)
  PROVE  /\ \A q \in Requests : q # r => req'[q] = req[q]
         /\ Consistent(r, req'[r], claim') /\ OnlyOf(r)
<1>1. /\ req \in [Requests -> Job] /\ req[r] \in Job /\ r # None
      /\ None \notin Files /\ claim \in [Files -> Requests \cup {Worker, None}]
  BY StoreAssumption DEF TypeInv, TypeOK, RequestTypeOK, StoreTypeOK
<1>2. req[r].cur \in Files /\ req[r].prepared \subseteq Files
  BY <1>1 DEF TypeInv, JobPlace, InPlace, Job
<1>3. \A q \in Requests : q # r => req'[q] = req[q]
  BY <1>1 DEF AbortPrepare, Become
<1>4. claim' = [claim EXCEPT ![req[r].cur] = None]
  BY DEF AbortPrepare
<1>5. claim[req[r].cur] = r
  BY <1>1, <1>2 DEF Consistent, Held
<1>6. OnlyOf(r)
  BY <1>1, <1>2, <1>4, <1>5 DEF OnlyOf
<1>7. /\ req'[r].pc = "recover_failed" /\ req'[r].cur = None
      /\ req'[r].prepared = req[r].prepared /\ req'[r].todo = req[r].prepared
  BY <1>1 DEF AbortPrepare, Become, Job
<1>8. req[r].pc # "drop"
  BY DEF OnOneFile
<1> QED
  BY <1>1, <1>2, <1>3, <1>4, <1>5, <1>6, <1>7, <1>8 DEF Consistent, Held

(* Every other step of a job, by the way it changes what the job holds. *)
LEMMA JobStepClaims ==
  ASSUME ClaimInv, NEW r \in Requests, JobStep(r)
  PROVE  /\ \A q \in Requests : q # r => req'[q] = req[q]
         /\ Consistent(r, req'[r], claim') /\ OnlyOf(r)
<1> DEFINE Goal == /\ \A q \in Requests : q # r => req'[q] = req[q]
                   /\ Consistent(r, req'[r], claim') /\ OnlyOf(r)
<1>1. /\ TypeInv /\ req \in [Requests -> Job] /\ req[r] \in Job
      /\ InPlace(req[r]) /\ Consistent(r, req[r], claim)
      /\ claim \in [Files -> Requests \cup {Worker, None}]
      /\ r # None /\ None \notin Files /\ r # Worker
  BY ClaimInvIsConsistent, StoreAssumption
  DEF TypeInv, TypeOK, RequestTypeOK, JobPlace, StoreTypeOK, Worker
<1>2. ASSUME NEW f \in req[r].todo, SkipInFlight(r, f)
      PROVE  Goal
  BY <1>1, <1>2
  DEF SkipInFlight, At, Become, Job, PCs, InPlace, OnOneFile, Consistent, Held,
      OnlyOf
<1>3. ASSUME NEW f \in req[r].todo, TakeClaim(r, f)
      PROVE  Goal
  BY <1>1, <1>3
  DEF TakeClaim, Acquire, At, Become, Job, PCs, InPlace, OnOneFile, Consistent,
      Held, OnlyOf
<1>4. ASSUME NEW f \in req[r].todo, DropCancelled(r, f)
      PROVE  Goal
  BY <1>1, <1>4
  DEF DropCancelled, At, Become, Job, PCs, InPlace, OnOneFile, Consistent, Held,
      OnlyOf
<1>5. ASSUME NEW f \in req[r].todo, Confirm(r, f)
      PROVE  Goal
  BY <1>1, <1>5
  DEF Confirm, At, Become, Job, PCs, InPlace, OnOneFile, Consistent, Held, OnlyOf
<1>6. ASSUME NEW f \in req[r].todo, RecoverOne(r, f)
      PROVE  Goal
  BY <1>1, <1>6
  DEF RecoverOne, At, Become, Job, PCs, InPlace, OnOneFile, Consistent, Held, OnlyOf
<1>7. CASE SkipFile(r)
  BY <1>1, <1>7
  DEF SkipFile, At, Become, Job, PCs, InPlace, OnOneFile, Consistent, Held, OnlyOf
<1>8. CASE NeedsWork(r)
  BY <1>1, <1>8
  DEF NeedsWork, At, Become, Job, PCs, InPlace, OnOneFile, Consistent, Held, OnlyOf
<1>9. CASE RebuildSymbols(r)
  BY <1>1, <1>9
  DEF RebuildSymbols, At, Become, Job, PCs, InPlace, OnOneFile, Consistent, Held,
      OnlyOf
<1>10. CASE CheckOrMarkFails(r)
  BY <1>1, <1>10, FinishReleases, AbortReleases DEF CheckOrMarkFails, At, OnOneFile
<1>11. CASE Mark(r)
  BY <1>1, <1>11
  DEF Mark, At, Become, Job, PCs, InPlace, OnOneFile, Consistent, Held, OnlyOf
<1>12. CASE MarkStored(r)
  <2>1. CASE CanMove(req[r].cur, "indexing")
    BY <1>1, <1>12, <2>1
    DEF MarkStored, At, Become, Job, PCs, InPlace, OnOneFile, Consistent, Held,
        OnlyOf
  <2>2. CASE ~CanMove(req[r].cur, "indexing")
    BY <1>1, <1>12, <2>2, AbortReleases DEF MarkStored, At, OnOneFile
  <2> QED
    BY <2>1, <2>2
<1>13. CASE SliceDocument(r)
  BY <1>1, <1>13
  DEF SliceDocument, At, Become, Job, PCs, InPlace, OnOneFile, Consistent, Held,
      OnlyOf
<1>14. CASE DocumentFails(r)
  BY <1>1, <1>14, AbortReleases DEF DocumentFails, At, OnOneFile
<1>15. CASE Slice(r)
  BY <1>1, <1>15
  DEF Slice, At, Become, Job, PCs, InPlace, OnOneFile, Consistent, Held, OnlyOf
<1>16. CASE ReadStored(r)
  BY <1>1, <1>16
  DEF ReadStored, At, Become, Job, PCs, InPlace, OnOneFile, Consistent, Held, OnlyOf
<1>17. CASE SliceFails(r) \/ SliceCancelled(r)
  BY <1>1, <1>17
  DEF SliceFails, SliceCancelled, At, Become, Job, PCs, InPlace, OnOneFile,
      Consistent, Held, OnlyOf
<1>18. CASE RecoverCurrent(r)
  BY <1>1, <1>18, AbortReleases DEF RecoverCurrent, At, OnOneFile
<1>19. CASE Reconcile(r)
  <2>1. PICK gone \in SUBSET Files :
          Become(r, [req[r] EXCEPT !.pc = "drop", !.todo = gone])
    BY <1>1, <1>19 DEF Reconcile, Job
  <2>2. At(r, "pick") /\ claim' = claim
    BY <1>19 DEF Reconcile
  <2> QED
    BY <1>1, <2>1, <2>2
    DEF At, Become, Job, PCs, InPlace, OnOneFile, Consistent, Held, OnlyOf
<1>20. CASE BeginEmbed(r)
  BY <1>1, <1>20
  DEF BeginEmbed, At, Become, Job, PCs, InPlace, OnOneFile, Consistent, Held, OnlyOf
<1>21. CASE SymbolsDone(r) \/ ConfirmFails(r) \/ Return(r)
  BY <1>1, <1>21, FinishReleases DEF SymbolsDone, ConfirmFails, Return
<1>22. ASSUME NEW S \in (SUBSET req[r].pending) \ {{}}, EmbedBatch(r, S)
      PROVE  Goal
  BY <1>1, <1>22
  DEF EmbedBatch, At, Become, Job, PCs, InPlace, OnOneFile, Consistent, Held, OnlyOf
<1>23. CASE EmbedFails(r)
  <2>1. PICK pc \in {"recover_failed", "recover_cancelled"} :
          Become(r, [req[r] EXCEPT !.pc = pc, !.todo = req[r].prepared])
    BY <1>23 DEF EmbedFails
  <2>2. At(r, "embed") /\ claim' = claim
    BY <1>23 DEF EmbedFails
  <2> QED
    BY <1>1, <2>1, <2>2
    DEF At, Become, Job, PCs, InPlace, OnOneFile, Consistent, Held, OnlyOf
<1>24. CASE BeginConfirm(r)
  BY <1>1, <1>24
  DEF BeginConfirm, At, Become, Job, PCs, InPlace, OnOneFile, Consistent, Held,
      OnlyOf
<1> QED
  BY <1>2, <1>3, <1>4, <1>5, <1>6, <1>7, <1>8, <1>9, <1>10, <1>11, <1>12, <1>13, <1>14, <1>15, <1>16, <1>17, <1>18, <1>19, <1>20, <1>21, <1>22, <1>23, <1>24
  DEF JobStep

(* Clients start jobs and go away; neither leaves a claim behind. *)
LEMMA ClientStepClaims ==
  ASSUME ClaimInv, NEW r \in Requests, ClientStep(r)
  PROVE  /\ \A q \in Requests : q # r => req'[q] = req[q]
         /\ Consistent(r, req'[r], claim') /\ OnlyOf(r)
<1>1. /\ TypeInv /\ req \in [Requests -> Job] /\ req[r] \in Job
      /\ InPlace(req[r]) /\ Consistent(r, req[r], claim)
      /\ claim \in [Files -> Requests \cup {Worker, None}]
      /\ r # None /\ None \notin Files
  BY ClaimInvIsConsistent, StoreAssumption
  DEF TypeInv, TypeOK, RequestTypeOK, JobPlace, StoreTypeOK
<1>2. ASSUME NEW m \in Modes, NEW v \in Versions, NEW F \in (SUBSET Files) \ {{}},
             Start(r, m, v, F)
      PROVE  /\ \A q \in Requests : q # r => req'[q] = req[q]
             /\ Consistent(r, req'[r], claim') /\ OnlyOf(r)
  BY <1>1, <1>2 DEF Start, At, Become, Job, PCs, InPlace, OnOneFile, Consistent, Held,
     OnlyOf
<1>3. CASE Disconnect(r)
  BY <1>1, <1>3, FinishReleases DEF Disconnect
<1>4. CASE CancelStream(r)
  BY <1>1, <1>4 DEF CancelStream, Become, Job, Consistent, Held, OnlyOf
<1> QED
  BY <1>2, <1>3, <1>4 DEF ClientStep

(* The worker has one file, and one claim, at a time. *)
LEMMA WorkerStepClaims ==
  ASSUME ClaimInv, WorkerStep
  PROVE  /\ OnlyOf(Worker) /\ WorkerPlace'
         /\ worker'.file # None => claim'[worker'.file] = Worker
         /\ \A f \in Files : claim'[f] = Worker => worker'.file = f
<1> DEFINE Goal == /\ OnlyOf(Worker) /\ WorkerPlace'
                   /\ worker'.file # None => claim'[worker'.file] = Worker
                   /\ \A f \in Files : claim'[f] = Worker => worker'.file = f
<1>1. /\ WorkerTypeOK /\ WorkerPlace /\ Worker # None /\ None \notin Files
      /\ claim \in [Files -> Requests \cup {Worker, None}]
      /\ worker.file # None => claim[worker.file] = Worker
      /\ \A f \in Files : claim[f] = Worker => worker.file = f
  BY ClaimInvIsConsistent, StoreAssumption
  DEF TypeInv, TypeOK, StoreTypeOK, Worker
<1>2. ~WorkerAt("idle") /\ LeaveFile => Goal
  BY <1>1 DEF LeaveFile, WorkerAt, WorkerTypeOK, WorkerPlace, OnlyOf
<1>3. ASSUME NEW S \in (SUBSET Candidates) \ {{}}, Sweep(S)
      PROVE  Goal
  BY <1>1, <1>3 DEF Sweep, WorkerAt, WorkerTypeOK, WorkerPlace, OnlyOf
<1>4. ASSUME NEW f \in worker.todo, WorkerSkipsClaimed(f)
      PROVE  Goal
  BY <1>1, <1>4 DEF WorkerSkipsClaimed, WorkerAt, WorkerTypeOK, WorkerPlace, OnlyOf
<1>5. ASSUME NEW f \in worker.todo, WorkerTakesClaim(f)
      PROVE  Goal
  BY <1>1, <1>5
  DEF WorkerTakesClaim, Acquire, WorkerAt, WorkerTypeOK, WorkerPlace, OnlyOf
<1>6. CASE Recheck
  BY <1>1, <1>2, <1>6 DEF Recheck, WorkerAt, WorkerTypeOK, WorkerPlace, OnlyOf
<1>7. CASE WorkerMarks
  BY <1>1, <1>2, <1>7 DEF WorkerMarks, WorkerAt, WorkerTypeOK, WorkerPlace, OnlyOf
<1>8. CASE WorkerReads
  BY <1>1, <1>8 DEF WorkerReads, WorkerAt, WorkerTypeOK, WorkerPlace, OnlyOf
<1>9. ASSUME NEW S \in (SUBSET worker.pending) \ {{}}, WorkerEmbeds(S)
      PROVE  Goal
  BY <1>1, <1>9 DEF WorkerEmbeds, WorkerAt, WorkerTypeOK, WorkerPlace, OnlyOf
<1>10. CASE WorkerEmbedFails
  BY <1>1, <1>10 DEF WorkerEmbedFails, WorkerAt, WorkerTypeOK, WorkerPlace, OnlyOf
<1>11. CASE WorkerConfirms \/ WorkerRecordsFailure \/ WorkerTxFails
  BY <1>2, <1>11 DEF WorkerConfirms, WorkerRecordsFailure, WorkerTxFails, WorkerAt
<1> QED
  BY <1>3, <1>4, <1>5, <1>6, <1>7, <1>8, <1>9, <1>10, <1>11 DEF WorkerStep

(* Nobody holds a claim when the process has just started. *)
LEMMA ClaimInit == Init => ClaimInv
<1> SUFFICES ASSUME Init PROVE ClaimInv
  OBVIOUS
<1>1. None \notin Files \cup Requests /\ Worker # None
  BY StoreAssumption DEF Worker
<1> QED
  BY <1>1, InitTyped DEF Init, StoreInit, RequestInit, WorkerInit, ClaimInv, JobShape,
     WorkerPlace, ClaimsHeld, NoClaimLeaks, Holding, At

(* The steps that change no job, no claim and not the worker's place. *)
LEMMA ClaimFrame ==
  ASSUME ClaimInv, TypeInv', UNCHANGED <<req, claim, worker>>
  PROVE  ClaimInv'
BY DEF ClaimInv, JobShape, WorkerPlace, ClaimsHeld, NoClaimLeaks, Holding, At

(* Claims are held and do not leak, whatever step is taken. *)
LEMMA ClaimNext ==
  ASSUME ClaimInv, [Next]_vars
  PROVE  ClaimInv'
<1>1. TypeInv'
  BY NextTyped DEF ClaimInv
<1>2. ASSUME NEW r \in Requests, RunJob(r) PROVE ClaimInv'
  <2>1. JobStep(r) /\ worker' = worker
    BY <1>2 DEF RunJob
  <2> QED
    BY <1>1, <2>1, JobStepClaims, OneJobSteps
<1>3. ASSUME NEW r \in Requests, RunClient(r) PROVE ClaimInv'
  <2>1. ClientStep(r) /\ worker' = worker
    BY <1>3 DEF RunClient
  <2> QED
    BY <1>1, <2>1, ClientStepClaims, OneJobSteps
<1>4. CASE RunBlockingPool
  BY <1>1, <1>4, ClaimFrame DEF RunBlockingPool, RunDetached
<1>5. CASE RunWorker
  <2>1. WorkerStep /\ req' = req
    BY <1>5 DEF RunWorker, requestVars
  <2>2. /\ OnlyOf(Worker) /\ WorkerPlace'
        /\ worker'.file # None => claim'[worker'.file] = Worker
        /\ \A f \in Files : claim'[f] = Worker => worker'.file = f
    BY <2>1, WorkerStepClaims
  <2>3. ASSUME NEW r \in Requests
        PROVE  Consistent(r, req'[r], claim')
    <3>1. Consistent(r, req[r], claim) /\ r # Worker /\ r # None /\ req[r] \in Job
      BY ClaimInvIsConsistent, StoreAssumption
      DEF Worker, TypeInv, TypeOK, RequestTypeOK
    <3>2. Held(req[r]) \subseteq Files
      BY <3>1 DEF Held, Job
    <3> QED
      BY <2>1, <2>2, <3>1, <3>2 DEF Consistent, OnlyOf
  <2> QED
    BY <1>1, <2>2, <2>3 DEF ClaimInv, JobShape, ClaimsHeld, NoClaimLeaks, Holding,
       Held, Consistent, At
<1>6. CASE RunCollector
  BY <1>1, <1>6, ClaimFrame DEF RunCollector, requestVars
<1>7. ASSUME NEW c \in Commands, ServeCommand(c) \/ SendCommand(c) PROVE ClaimInv'
  BY <1>1, <1>7, ClaimFrame DEF ServeCommand, SendCommand, requestVars
<1>8. CASE Restart
  <2>1. None \notin Files \cup Requests /\ Worker # None
    BY StoreAssumption DEF Worker
  <2>2. ASSUME NEW r \in Requests
        PROVE  /\ req'[r].cur = None /\ req'[r].prepared = {}
               /\ None \notin req'[r].todo
    BY <1>8, <2>1
    DEF Restart, ClaimInv, JobShape, TypeInv, TypeOK, RequestTypeOK, Job, JobPlace,
        InPlace, OnOneFile, At
  <2> QED
    BY <1>1, <1>8, <2>1, <2>2
    DEF Restart, ClaimInv, JobShape, WorkerPlace, ClaimsHeld, NoClaimLeaks, Holding, At
<1>9. CASE UNCHANGED vars
  BY <1>1, <1>9, ClaimFrame DEF vars, requestVars
<1> QED
  BY <1>2, <1>3, <1>4, <1>5, <1>6, <1>7, <1>8, <1>9 DEF Next

(* The inductive invariant of the claim table. *)
LEMMA ClaimInvariant == Spec => []ClaimInv
BY ClaimInit, ClaimNext, PTL DEF Spec

(* The claim table is exact under every failure.  Mutual exclusion: a file some
   job or the worker has in hand or has prepared is claimed by it, hence by
   nobody else.  No leak: whichever way a job or the worker's round ended, the
   slots it took are free again, so a file is never locked out of indexing. *)
THEOREM ClaimsAlwaysMatch == Spec => []ClaimsMatchWork
<1>1. ClaimInv => ClaimsMatchWork
  BY DEF ClaimInv, ClaimsMatchWork
<1> QED
  BY <1>1, ClaimInvariant, PTL

(* Nothing comes to be detached where no transaction outlives its future. *)
LEMMA NextDetachesNothing ==
  ASSUME "detach" \notin Faults, NothingDetached, [Next]_vars
  PROVE  NothingDetached'
BY DEF NothingDetached, Next, RunJob, JobStep, RunClient, ClientStep, Disconnect,
   CancelStream, LeaveBehind, RunBlockingPool, RunWorker, RunCollector,
   ServeCommand, SendCommand, Restart, requestVars, vars

-----------------------------------------------------------------------------
(* Work gets done: what a step leaves to do. *)
LEMMA FinishAdvances ==
  ASSUME req \in [Requests -> Job], NEW r \in Requests, Finish(r), ~At(r, "done")
  PROVE  JobAdvances(r)
<1>1. req[r].pc \in PCs /\ req'[r].pc = "done"
  BY DEF Finish, Become, Job
<1> QED BY <1>1 DEF JobAdvances, Phase, PCs, At

LEMMA AbortAdvances ==
  ASSUME req \in [Requests -> Job], NEW r \in Requests, AbortPrepare(r),
         req[r].pc \in OnOneFile
  PROVE  JobAdvances(r)
<1>1. req'[r].pc = "recover_failed"
  BY DEF AbortPrepare, Become, Job
<1> QED BY <1>1 DEF JobAdvances, Phase, OnOneFile

(* Every step of run_index_job: a file leaves the loop, the file in hand gets on, or
   the job does. *)
LEMMA JobStepAdvances ==
  ASSUME req \in [Requests -> Job], NEW r \in Requests, JobStep(r)
  PROVE  JobAdvances(r)
<1>1. req[r] \in Job
  OBVIOUS
<1>2. ASSUME NEW f \in req[r].todo,
             \/ SkipInFlight(r, f) \/ TakeClaim(r, f) \/ DropCancelled(r, f)
             \/ Confirm(r, f) \/ RecoverOne(r, f)
      PROVE  JobAdvances(r)
  <2>1. req'[r].todo = req[r].todo \ {f}
    <3>1. CASE SkipInFlight(r, f) \/ TakeClaim(r, f)
      BY <1>1, <3>1 DEF SkipInFlight, TakeClaim, Become, Job
    <3>2. CASE DropCancelled(r, f)
      BY <1>1, <3>2 DEF DropCancelled, Become, Job
    <3>3. CASE Confirm(r, f) \/ RecoverOne(r, f)
      BY <1>1, <3>3 DEF Confirm, RecoverOne, Become, Job
    <3> QED BY <1>2, <3>1, <3>2, <3>3
  <2>2. \/ req[r].pc = "pick" /\ req'[r].pc \in {"pick", "check"}
        \/ req'[r].pc = req[r].pc
    <3>1. CASE SkipInFlight(r, f)
      BY <1>1, <3>1 DEF SkipInFlight, Become, Job, At
    <3>2. CASE TakeClaim(r, f)
      BY <1>1, <3>2 DEF TakeClaim, Become, Job, At
    <3>3. CASE DropCancelled(r, f)
      BY <1>1, <3>3 DEF DropCancelled, Become, Job
    <3>4. CASE Confirm(r, f) \/ RecoverOne(r, f)
      BY <1>1, <3>4 DEF Confirm, RecoverOne, Become, Job
    <3> QED BY <1>2, <3>1, <3>2, <3>3, <3>4
  <2>3. Phase(req[r]) = Phase(req'[r])
    BY <2>2 DEF Phase
  <2>4. LessToDo(req'[r], req[r], FilePlace(req'[r]), FilePlace(req[r]))
    BY <2>1 DEF LessToDo, Fewer
  <2> QED BY <2>3, <2>4 DEF JobAdvances
(* The file in hand. *)
<1>3. ASSUME /\ req[r].pc \in OnOneFile /\ req'[r].pc \in OnOneFile \cup {"pick"}
             /\ req'[r].todo = req[r].todo
             /\ FilePlace(req[r]) < FilePlace(req'[r])
      PROVE  JobAdvances(r)
  <2>1. Phase(req[r]) = Phase(req'[r])
    BY <1>3 DEF Phase, OnOneFile
  <2> QED BY <1>3, <2>1 DEF JobAdvances, LessToDo
<1>4. CASE SkipFile(r) \/ NeedsWork(r) \/ RebuildSymbols(r) \/ SliceDocument(r)
           \/ Mark(r) \/ Slice(r) \/ ReadStored(r) \/ SliceFails(r) \/ SliceCancelled(r)
  <2>1. CASE SkipFile(r) \/ NeedsWork(r) \/ RebuildSymbols(r)
    <3>1. /\ req'[r].todo = req[r].todo
          /\ req[r].pc = "check" /\ req'[r].pc \in {"pick", "mark"}
      <4>1. CASE SkipFile(r) \/ RebuildSymbols(r)
        <5>1. Become(r, [req[r] EXCEPT !.pc = "pick", !.cur = None]) /\ At(r, "check")
          BY <4>1 DEF SkipFile, RebuildSymbols
        <5> QED BY <1>1, <5>1 DEF Become, Job, At
      <4>2. CASE NeedsWork(r)
        BY <1>1, <4>2 DEF NeedsWork, Become, Job, At
      <4> QED BY <2>1, <4>1, <4>2
    <3>2. FilePlace(req[r]) < FilePlace(req'[r])
      BY <3>1 DEF FilePlace
    <3> QED BY <1>3, <3>1, <3>2 DEF OnOneFile
  <2>2. CASE SliceDocument(r) \/ Mark(r)
    <3>1. /\ req'[r].todo = req[r].todo
          /\ \/ req[r].pc = "mark" /\ req'[r].pc \in {"document", "slice"}
             \/ req[r].pc = "document" /\ req'[r].pc = "slice"
      BY <1>1, <2>2 DEF SliceDocument, Mark, Become, Job, At
    <3>2. FilePlace(req[r]) < FilePlace(req'[r])
      BY <3>1 DEF FilePlace
    <3> QED BY <1>3, <3>1, <3>2 DEF OnOneFile
  <2>3. CASE Slice(r) \/ ReadStored(r) \/ SliceFails(r) \/ SliceCancelled(r)
    <3>1. /\ req'[r].todo = req[r].todo
          /\ req[r].pc = "slice" /\ req'[r].pc \in {"pick", "slice_failed", "slice_cancelled"}
      <4>1. CASE Slice(r)
        BY <1>1, <4>1 DEF Slice, Become, Job, At
      <4>2. CASE ReadStored(r)
        BY <1>1, <4>2 DEF ReadStored, Become, Job, At
      <4>3. CASE SliceFails(r) \/ SliceCancelled(r)
        BY <1>1, <4>3 DEF SliceFails, SliceCancelled, Become, Job, At
      <4> QED BY <2>3, <4>1, <4>2, <4>3
    <3>2. FilePlace(req[r]) < FilePlace(req'[r])
      BY <3>1 DEF FilePlace
    <3> QED BY <1>3, <3>1, <3>2 DEF OnOneFile
  <2> QED BY <1>4, <2>1, <2>2, <2>3
<1>5. CASE MarkStored(r)
  <2>1. req[r].pc = "mark"
    BY <1>5 DEF MarkStored, At
  <2>2. CASE AbortPrepare(r)
    <3>1. req[r].pc \in OnOneFile
      BY <2>1 DEF OnOneFile
    <3> QED BY <2>2, <3>1, AbortAdvances
  <2>3. CASE Become(r, [req[r] EXCEPT !.pc = "slice"])
    <3>1. req'[r].todo = req[r].todo /\ req'[r].pc = "slice"
      BY <1>1, <2>3 DEF Become, Job
    <3>2. FilePlace(req[r]) < FilePlace(req'[r])
      BY <2>1, <3>1 DEF FilePlace
    <3> QED BY <1>3, <2>1, <3>1, <3>2 DEF OnOneFile
  <2> QED BY <1>5, <2>2, <2>3 DEF MarkStored
<1>6. CASE CheckOrMarkFails(r) \/ DocumentFails(r) \/ RecoverCurrent(r)
  <2>1. req[r].pc \in OnOneFile
    BY <1>6 DEF CheckOrMarkFails, DocumentFails, RecoverCurrent, At, OnOneFile
  <2>2. Finish(r) \/ AbortPrepare(r)
    BY <1>6 DEF CheckOrMarkFails, DocumentFails, RecoverCurrent
  <2>3. ~At(r, "done")
    BY <2>1 DEF At, OnOneFile
  <2> QED BY <2>1, <2>2, <2>3, FinishAdvances, AbortAdvances
<1>7. CASE Reconcile(r) \/ BeginEmbed(r) \/ EmbedFails(r) \/ BeginConfirm(r)
  <2>1. \/ req[r].pc = "pick" /\ req'[r].pc \in {"drop", "embed"}
        \/ req[r].pc = "drop" /\ req'[r].pc = "embed"
        \/ req[r].pc = "embed"
             /\ req'[r].pc \in {"confirm", "recover_failed", "recover_cancelled"}
    <3>1. CASE Reconcile(r)
      <4>1. PICK gone : Become(r, [req[r] EXCEPT !.pc = "drop", !.todo = gone])
        BY <3>1 DEF Reconcile
      <4> QED BY <1>1, <3>1, <4>1 DEF Reconcile, Become, Job, At
    <3>3. CASE BeginEmbed(r)
      BY <1>1, <3>3 DEF BeginEmbed, Become, Job, At
    <3>2. CASE EmbedFails(r)
      <4>1. PICK pc \in {"recover_cancelled", "recover_failed"} :
              Become(r, [req[r] EXCEPT !.pc = pc, !.todo = req[r].prepared])
        BY <3>2 DEF EmbedFails
      <4>2. req'[r].pc = pc
        BY <1>1, <4>1 DEF Become, Job
      <4> QED BY <3>2, <4>2 DEF EmbedFails, At
    <3>4. CASE BeginConfirm(r)
      BY <1>1, <3>4 DEF BeginConfirm, Become, Job, At
    <3> QED BY <1>7, <3>1, <3>2, <3>3, <3>4
  <2>2. Phase(req[r]) < Phase(req'[r])
    BY <2>1 DEF Phase
  <2> QED BY <2>2 DEF JobAdvances
<1>8. ASSUME NEW S \in (SUBSET req[r].pending) \ {{}}, EmbedBatch(r, S)
      PROVE  JobAdvances(r)
  <2>1. /\ req'[r].pc = req[r].pc /\ req'[r].todo = req[r].todo
        /\ req'[r].pending = req[r].pending \ S
    BY <1>1, <1>8 DEF EmbedBatch, Become, Job
  <2>2. Fewer(req'[r].pending, req[r].pending)
    BY <2>1 DEF Fewer
  <2>3. FilePlace(req'[r]) = FilePlace(req[r]) /\ Phase(req'[r]) = Phase(req[r])
    BY <2>1 DEF FilePlace, Phase
  <2> QED BY <2>1, <2>2, <2>3 DEF JobAdvances, LessToDo
<1>9. CASE SymbolsDone(r) \/ ConfirmFails(r) \/ Return(r)
  <2>1. Finish(r) /\ ~At(r, "done")
    BY <1>9 DEF SymbolsDone, ConfirmFails, Return, At
  <2> QED BY <2>1, FinishAdvances
<1> QED BY <1>2, <1>4, <1>5, <1>6, <1>7, <1>8, <1>9 DEF JobStep

LEMMA JobStepIsOwn ==
  ASSUME NEW r \in Requests, JobStep(r)
  PROVE  \A q \in Requests : q # r => req'[q] = req[q]
<1>1. \E job : Become(r, job)
  BY DEF JobStep, SkipInFlight, TakeClaim, DropCancelled, Confirm, RecoverOne, SkipFile,
     NeedsWork, RebuildSymbols, CheckOrMarkFails, Mark, MarkStored, SliceDocument,
     DocumentFails, Slice, ReadStored, SliceFails, SliceCancelled, RecoverCurrent, Reconcile,
     BeginEmbed, SymbolsDone, EmbedBatch, EmbedFails, BeginConfirm, ConfirmFails, Return,
     Finish, AbortPrepare
<1> QED BY <1>1 DEF Become

(* Every step of the worker. *)
LEMMA WorkerStepAdvances ==
  ASSUME WorkerTypeOK, WorkerStep
  PROVE  SweepAdvances \/ SweepBegins
<1>1. /\ worker.pc \in WorkerPCs /\ worker.todo \subseteq Files
      /\ DOMAIN worker = {"pc", "todo", "file", "pending"}
  BY DEF WorkerTypeOK
<1>2. ASSUME NEW S, Sweep(S) PROVE SweepBegins
  BY <1>2 DEF Sweep, WorkerAt, SweepBegins, WorkerTypeOK
<1>3. ASSUME NEW f \in worker.todo, WorkerSkipsClaimed(f) \/ WorkerTakesClaim(f)
      PROVE  SweepAdvances
  <2>1. worker'.todo = worker.todo \ {f}
    BY <1>3 DEF WorkerSkipsClaimed, WorkerTakesClaim, WorkerTypeOK
  <2> QED BY <2>1 DEF SweepAdvances, LessToDo, Fewer
<1>4. LeaveFile /\ worker.pc # "idle" => SweepAdvances
  <2> SUFFICES ASSUME LeaveFile, worker.pc # "idle" PROVE SweepAdvances
    OBVIOUS
  <2>1. worker'.pc = "idle" /\ worker'.todo = worker.todo
    BY DEF LeaveFile, WorkerTypeOK
  <2>2. SweepPlace(worker) < SweepPlace(worker')
    BY <1>1, <2>1 DEF SweepPlace, WorkerPCs
  <2> QED BY <2>1, <2>2 DEF SweepAdvances, LessToDo
<1>5. ASSUME worker'.todo = worker.todo, SweepPlace(worker) < SweepPlace(worker')
      PROVE  SweepAdvances
  BY <1>5 DEF SweepAdvances, LessToDo
<1>6. CASE Recheck \/ WorkerMarks
  <2>1. CASE LeaveFile
    BY <1>4, <1>6, <2>1 DEF Recheck, WorkerMarks, WorkerAt
  <2>2. CASE ~LeaveFile
    <3>1. /\ worker'.todo = worker.todo
          /\ \/ worker.pc = "check" /\ worker'.pc = "mark"
             \/ worker.pc = "mark" /\ worker'.pc = "read"
      BY <1>6, <2>2 DEF Recheck, WorkerMarks, WorkerAt, WorkerTypeOK
    <3> QED BY <1>5, <3>1 DEF SweepPlace
  <2> QED BY <2>1, <2>2
<1>7. CASE WorkerReads \/ WorkerEmbedFails
  <2>1. /\ worker'.todo = worker.todo
        /\ \/ worker.pc = "read" /\ worker'.pc \in {"confirm", "embed"}
           \/ worker.pc = "embed" /\ worker'.pc = "fail"
    BY <1>7 DEF WorkerReads, WorkerEmbedFails, WorkerAt, WorkerTypeOK
  <2> QED BY <1>5, <2>1 DEF SweepPlace
<1>8. ASSUME NEW S \in (SUBSET worker.pending) \ {{}}, WorkerEmbeds(S)
      PROVE  SweepAdvances
  <2>1. /\ worker'.todo = worker.todo /\ worker'.pending = worker.pending \ S
        /\ worker.pc = "embed" /\ worker'.pc \in {"confirm", "embed"}
    BY <1>8 DEF WorkerEmbeds, WorkerAt, WorkerTypeOK
  <2>2. CASE worker'.pc = "confirm"
    BY <1>5, <2>1, <2>2 DEF SweepPlace
  <2>3. CASE worker'.pc = "embed"
    <3>1. SweepPlace(worker') = SweepPlace(worker)
      BY <2>1, <2>3 DEF SweepPlace
    <3> QED BY <2>1, <3>1 DEF SweepAdvances, LessToDo, Fewer
  <2> QED BY <2>1, <2>2, <2>3
<1>9. CASE WorkerConfirms \/ WorkerRecordsFailure \/ WorkerTxFails
  BY <1>4, <1>9 DEF WorkerConfirms, WorkerRecordsFailure, WorkerTxFails, WorkerAt
<1> QED BY <1>2, <1>3, <1>6, <1>7, <1>8, <1>9 DEF WorkerStep

(* A client only begins a job, ends it or cancels its token. *)
LEMMA ClientStepMoves ==
  ASSUME req \in [Requests -> Job], NEW r \in Requests, ClientStep(r)
  PROVE  /\ \/ JobAdvances(r)
            \/ req'[r] = [req[r] EXCEPT !.token = TRUE]
         /\ \A q \in Requests : q # r => req'[q] = req[q]
<1>1. req[r] \in Job
  OBVIOUS
<1>2. ASSUME NEW m, NEW v, NEW F, Start(r, m, v, F)
      PROVE  JobAdvances(r) /\ \A q \in Requests : q # r => req'[q] = req[q]
  <2>1. req[r].pc = "new" /\ req'[r].pc = "pick" /\ \A q \in Requests : q # r => req'[q] = req[q]
    BY <1>1, <1>2 DEF Start, At, Become, Job
  <2> QED BY <2>1 DEF JobAdvances, Phase
<1>3. CASE Disconnect(r)
  BY <1>3, FinishAdvances DEF Disconnect, Finish, Become
<1>4. CASE CancelStream(r)
  BY <1>4 DEF CancelStream, Become
<1> QED BY <1>2, <1>3, <1>4 DEF ClientStep

(* run_index_job and the retry worker never start over, for any number of files and
   chunks and under every failure: each step of a job leaves less of the request to
   do, each step of a sweep less of the sweep. *)
THEOREM WorkIsFinite == Spec => NobodyStartsOver
<1> DEFINE Kept(r) == \/ JobAdvances(r)
                      \/ /\ ~RunJob(r)
                         /\ \/ req'[r] \in {req[r], [req[r] EXCEPT !.token = TRUE]}
                            \/ req'[r].pc = "done"
           Swept == \/ SweepAdvances \/ SweepBegins \/ Restart
                    \/ ~RunWorker /\ worker' = worker
<1>1. ASSUME TypeInv, [Next]_vars
      PROVE  [(\A r \in Requests : Kept(r)) /\ Swept]_vars
  <2>1. req \in [Requests -> Job] /\ WorkerTypeOK
    BY <1>1 DEF TypeInv, TypeOK, RequestTypeOK
  <2>2. ASSUME NEW r \in Requests, RunJob(r) PROVE JobAdvances(r)
    BY <2>1, <2>2, JobStepAdvances DEF RunJob
  <2>3. RunWorker => SweepAdvances \/ SweepBegins
    BY <2>1, WorkerStepAdvances DEF RunWorker
  <2>4. ASSUME NEW r \in Requests,
               req'[r] \in {req[r], [req[r] EXCEPT !.token = TRUE]} \/ req'[r].pc = "done"
        PROVE  Kept(r)
    BY <2>2, <2>4
  <2>5. worker' = worker => Swept
    BY <2>3
  <2> HIDE DEF Kept, Swept
  <2>6. ASSUME NEW r \in Requests, RunJob(r) PROVE (\A q \in Requests : Kept(q)) /\ Swept
    <3>1. JobStep(r) /\ worker' = worker
      BY <2>6 DEF RunJob
    <3>2. \A q \in Requests : q # r => req'[q] = req[q]
      BY <3>1, JobStepIsOwn
    <3>3. Kept(r)
      BY <2>2, <2>6 DEF Kept
    <3> QED BY <2>4, <2>5, <3>1, <3>2, <3>3
  <2>7. ASSUME NEW r \in Requests, RunClient(r) PROVE (\A q \in Requests : Kept(q)) /\ Swept
    <3>1. ClientStep(r) /\ worker' = worker
      BY <2>7 DEF RunClient
    <3>2. /\ \A q \in Requests : q # r => req'[q] = req[q]
          /\ JobAdvances(r) \/ req'[r] = [req[r] EXCEPT !.token = TRUE]
      BY <2>1, <3>1, ClientStepMoves
    <3>3. Kept(r)
      BY <2>4, <3>2 DEF Kept
    <3> QED BY <2>4, <2>5, <3>1, <3>2, <3>3
  <2>8. CASE RunWorker
    <3>1. req' = req
      BY <2>8 DEF RunWorker, requestVars
    <3>2. Swept
      BY <2>3, <2>8 DEF Swept
    <3> QED BY <2>4, <3>1, <3>2
  <2>9. CASE Restart
    <3>1. \A r \in Requests : req'[r] = req[r] \/ req'[r].pc = "done"
      BY <2>9 DEF Restart
    <3>2. Swept
      BY <2>9 DEF Swept
    <3> QED BY <2>4, <3>1, <3>2
  <2>10. CASE RunBlockingPool \/ RunCollector
              \/ \E c \in Commands : ServeCommand(c) \/ SendCommand(c)
    <3>1. req' = req /\ worker' = worker
      BY <2>10 DEF RunBlockingPool, RunDetached, RunCollector, ServeCommand, SendCommand,
         requestVars
    <3> QED BY <2>4, <2>5, <3>1
  <2> QED BY <1>1, <2>6, <2>7, <2>8, <2>9, <2>10 DEF Next
<1>2. Spec => []TypeInv
  BY InitTyped, NextTyped, PTL DEF Spec
<1> QED BY <1>1, <1>2, PTL DEF Spec, NobodyStartsOver
=============================================================================
