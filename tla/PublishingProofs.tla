-------------------------- MODULE PublishingProofs --------------------------
(***************************************************************************)
(* An 'indexed' file is searchable: every active chunk of it has its point *)
(* in the collection of the model its row names.  The only assumption is   *)
(* that no transaction outlives the future that awaited it ("detach"),     *)
(* which the run detached_tx shows to be needed.  That the collector takes *)
(* no point of an active chunk needs none.                                 *)
(***************************************************************************)
EXTENDS IndexingProofs

(* The conjuncts of IndInv, for one job and one file. *)
ReadyOf(r) ==
  /\ At(r, "confirm") => req[r].todo \subseteq req[r].prepared
                         /\ req[r].pending = {}
  /\ req[r].pc \in {"document", "slice"} => status[req[r].cur] # "indexed"
  /\ At(r, "document") => req[r].mode = "full"

CoversOf(r) ==
  req[r].pc \in Publishing =>
    \A x \in req[r].prepared : \A c \in ActiveOf(x) :
      c \in req[r].pending \/ <<model, c>> \in vectors

StampsOf(r) ==
  req[r].mode = "full" =>
    \A x \in Stamped(r) : embeddedBy[x] = model \/ status[x] = "absent"

HasVectors(f) ==
  status[f] = "indexed" => \A c \in ActiveOf(f) : <<embeddedBy[f], c>> \in vectors

(* What a step may do to a file whose claim the actor does not hold: stop
   publishing it, take chunks away from it, or drop its row. *)
Safe(f) ==
  /\ ActiveOf(f)' \subseteq ActiveOf(f)
  /\ status'[f] = "indexed" => status[f] = "indexed"
  /\ status[f] = "absent" => status'[f] = "absent"
  /\ embeddedBy'[f] = embeddedBy[f] \/ status'[f] = "absent"

KeepsVectors == \A p \in vectors : p[2] \in active' => p \in vectors'

StoreStep(who) ==
  /\ \A f \in Files : Safe(f) \/ (claim[f] = who /\ HasVectors(f)')
  /\ KeepsVectors

(* Chunk rows only ever go from 'active' to 'deleted' to nothing. *)
NoNewChunks ==
  /\ active' \subseteq active /\ deleted' \subseteq active \cup deleted
  /\ active' \cap deleted' \subseteq active \cap deleted

SafeStore == (\A f \in Files : Safe(f)) /\ KeepsVectors /\ NoNewChunks

-----------------------------------------------------------------------------
(* The statements that are safe whoever executes them. *)
LEMMA NoWriteSafe == NoWrite => SafeStore
BY DEF NoWrite, storeVars, rowVars, chunkVars, SafeStore, Safe, KeepsVectors,
   NoNewChunks, ActiveOf

(* No failure or cancellation publishes a file. *)
LEMMA SetStatusSafe ==
  ASSUME StoreTypeOK, NEW f, NEW new \in Statuses \ {"indexed"}, NEW bump,
         SetFileStatus(f, new, bump)
  PROVE  SafeStore
<1>1. UNCHANGED <<embeddedBy, active, deleted, vectors>>
  BY DEF SetFileStatus, chunkVars
<1>2. \A x \in Files : /\ status'[x] = "indexed" => status[x] = "indexed"
                       /\ status[x] = "absent" => status'[x] = "absent"
  BY DEF SetFileStatus, CanMove, StoreTypeOK, TablesTypeOK, Statuses
<1> QED
  BY <1>1, <1>2 DEF SafeStore, Safe, KeepsVectors, NoNewChunks, ActiveOf

(* /cancel, DELETE /files and drop_cancelled. *)
LEMMA DropChunksSafe ==
  ASSUME NEW B, DropChunksOf(B), vectors' = vectors, embeddedBy' = embeddedBy,
         \A f \in Files : /\ status'[f] = "indexed" => status[f] = "indexed"
                          /\ status[f] = "absent" => status'[f] = "absent"
  PROVE  SafeStore
BY DEF DropChunksOf, SafeStore, Safe, KeepsVectors, NoNewChunks, ActiveOf

(* An upsert only adds points. *)
LEMMA UpsertSafe == ASSUME NEW S, Upsert(S) PROVE SafeStore
BY DEF Upsert, rowVars, chunkVars, SafeStore, Safe, KeepsVectors, NoNewChunks,
   ActiveOf

-----------------------------------------------------------------------------
(* What survives a step of somebody else: a job's own files ... *)
LEMMA JobKept ==
  ASSUME IndInv, NEW who, NEW q \in Requests, q # who, req'[q] = req[q],
         StoreStep(who), model' = model
  PROVE  ReadyOf(q)' /\ CoversOf(q)' /\ StampsOf(q)'
<1>1. /\ TypeInv /\ Consistent(q, req[q], claim)
      /\ ReadyOf(q) /\ CoversOf(q) /\ StampsOf(q)
  BY ClaimInvIsConsistent
  DEF IndInv, JobReady, JobCovers, JobStamps, ReadyOf, CoversOf, StampsOf
<1>2. req[q] \in Job /\ InPlace(req[q]) /\ None \notin Files
  BY <1>1, StoreAssumption DEF TypeInv, TypeOK, RequestTypeOK, JobPlace
<1>3. \A x \in Held(req[q]) : x \in Files /\ Safe(x)
  BY <1>1, <1>2 DEF Consistent, StoreStep, Held, Job
<1>4. ReadyOf(q)'
  <2>1. req[q].pc \in {"document", "slice"} => req[q].cur \in Held(req[q])
    BY <1>2 DEF InPlace, OnOneFile, Held
  <2> QED
    BY <1>1, <1>3, <2>1 DEF ReadyOf, At, Safe
<1>5. CoversOf(q)'
  <2>1. ASSUME NEW x \in req[q].prepared, NEW c \in ActiveOf(x)',
               req[q].pc \in Publishing
        PROVE  c \in req[q].pending \/ <<model, c>> \in vectors'
    <3>1. c \in ActiveOf(x) /\ c \in active'
      BY <1>3, <2>1 DEF Held, Safe, ActiveOf
    <3> QED
      BY <1>1, <2>1, <3>1 DEF CoversOf, StoreStep, KeepsVectors
  <2> QED
    BY <2>1 DEF CoversOf
<1>6. StampsOf(q)'
  <2>1. Stamped(q) \subseteq Held(req[q]) /\ Stamped(q)' = Stamped(q)
    BY <1>2 DEF Stamped, Held, InPlace, OnOneFile
  <2> QED
    BY <1>1, <1>3, <2>1 DEF StampsOf, Safe
<1> QED
  BY <1>4, <1>5, <1>6

(* ... the worker's file ... *)
LEMMA WorkerKept ==
  ASSUME IndInv, NEW who, who # Worker, worker' = worker, StoreStep(who),
         model' = model
  PROVE  WorkerReady' /\ WorkerCovers'
<1>1. /\ TypeInv /\ WorkerPlace /\ WorkerReady /\ WorkerCovers
      /\ worker.file # None => claim[worker.file] = Worker
  BY ClaimInvIsConsistent DEF IndInv
<1>2. WorkerReady'
  BY <1>1 DEF WorkerReady
<1>3. ASSUME worker.pc \in {"embed", "confirm"}, NEW c \in ActiveOf(worker.file)'
      PROVE  c \in worker.pending \/ <<model, c>> \in vectors'
  <2>1. worker.file \in Files /\ Safe(worker.file)
    BY <1>1, <1>3 DEF TypeInv, TypeOK, WorkerTypeOK, WorkerPlace, StoreStep
  <2>2. c \in ActiveOf(worker.file) /\ c \in active'
    BY <1>3, <2>1 DEF Safe, ActiveOf
  <2> QED
    BY <1>1, <1>3, <2>2 DEF WorkerCovers, StoreStep, KeepsVectors
<1> QED
  BY <1>2, <1>3 DEF WorkerCovers

(* ... and what is published. *)
LEMMA RowsKept ==
  ASSUME IndexedHasVectors, NEW who, StoreStep(who)
  PROVE  IndexedHasVectors'
<1>1. ASSUME NEW f \in Files PROVE HasVectors(f)'
  <2>1. CASE Safe(f)
    <3>1. ASSUME status'[f] = "indexed", NEW c \in ActiveOf(f)'
          PROVE  <<embeddedBy'[f], c>> \in vectors'
      <4>1. /\ status[f] = "indexed" /\ embeddedBy'[f] = embeddedBy[f]
            /\ c \in ActiveOf(f) /\ c \in active'
        BY <2>1, <3>1 DEF Safe, ActiveOf
      <4> QED
        BY <4>1 DEF IndexedHasVectors, StoreStep, KeepsVectors
    <3> QED
      BY <3>1 DEF HasVectors
  <2> QED
    BY <2>1 DEF StoreStep
<1> QED
  BY <1>1 DEF HasVectors, IndexedHasVectors

(* Fresh identities: no chunk row bears the name of a slice still to come. *)
LEMMA ChunksKept ==
  ASSUME ClaimInv, DeletedForGood, FreshChunks,
         NoNewChunks, gc'.batch \subseteq gc.batch \cup deleted,
         \A q \in Requests : Unsliced(q)' \subseteq Unsliced(q)
  PROVE  DeletedForGood' /\ FreshChunks'
<1>1. active \cup deleted \cup gc.batch \subseteq Chunk
  BY DEF ClaimInv, TypeInv, TypeOK, StoreTypeOK, TablesTypeOK, GcTypeOK
<1>2. DeletedForGood'
  BY <1>1 DEF DeletedForGood, NoNewChunks
<1>3. ASSUME NEW c \in (active \cup deleted \cup gc.batch)'
      PROVE  c.file \notin Unsliced(c.by)'
  <2>1. c \in active \cup deleted \cup gc.batch /\ c.by \in Requests
    BY <1>1, <1>3 DEF NoNewChunks, Chunk
  <2> QED
    BY <1>1, <2>1 DEF FreshChunks
<1> QED
  BY <1>2, <1>3 DEF FreshChunks

(* What a step of r has to show for itself. *)
OwnPart(r) ==
  ReadyOf(r)' /\ CoversOf(r)' /\ StampsOf(r)' /\ Unsliced(r)' \subseteq Unsliced(r)

(* A safe step that brings nothing new into the batch keeps it covered. *)
Carries(r) ==
  /\ req'[r].pc \in Publishing => req[r].pc \in Publishing
  /\ req'[r].prepared \subseteq req[r].prepared
  /\ req'[r].mode = req[r].mode
  /\ \A c \in req[r].pending : c.file \in req'[r].prepared =>
       c \in req'[r].pending \/ <<model, c>> \in vectors'
  /\ req'[r].pc \in {"document", "slice"} =>
       req[r].pc \in {"document", "slice"} /\ req'[r].cur = req[r].cur

(* The batch stays covered and its rows stay stamped. *)
LEMMA CarriedOn ==
  ASSUME IndInv, NEW r \in Requests, SafeStore, model' = model, Carries(r)
  PROVE  CoversOf(r)' /\ StampsOf(r)'
<1>1. /\ TypeInv /\ CoversOf(r) /\ StampsOf(r)
  BY ClaimInvIsConsistent DEF IndInv, JobCovers, JobStamps, CoversOf, StampsOf
<1>2. req[r] \in Job /\ InPlace(req[r]) /\ None \notin Files
  BY <1>1, StoreAssumption DEF TypeInv, TypeOK, RequestTypeOK, JobPlace
<1>3. ASSUME NEW x \in req'[r].prepared, NEW c \in ActiveOf(x)',
             req'[r].pc \in Publishing
      PROVE  c \in req'[r].pending \/ <<model, c>> \in vectors'
  <2>1. /\ x \in req[r].prepared /\ x \in Files /\ c \in ActiveOf(x)
        /\ c \in active' /\ c.file = x
    BY <1>2, <1>3 DEF Carries, Job, SafeStore, Safe, ActiveOf
  <2>2. c \in req[r].pending \/ <<model, c>> \in vectors
    BY <1>1, <1>3, <2>1 DEF CoversOf, Carries
  <2> QED
    BY <1>3, <2>1, <2>2 DEF Carries, SafeStore, KeepsVectors
<1>4. CoversOf(r)'
  BY <1>3 DEF CoversOf
<1>5. Stamped(r)' \subseteq Stamped(r) /\ Stamped(r) \subseteq Files
  BY <1>2 DEF Carries, Stamped, Job, InPlace, OnOneFile
<1>6. StampsOf(r)'
  BY <1>1, <1>5 DEF StampsOf, Carries, SafeStore, Safe
<1> QED
  BY <1>4, <1>6

-----------------------------------------------------------------------------
(* The steps of a job that are safe for everybody. *)
LEMMA SafeJobSteps ==
  ASSUME IndInv, NEW r \in Requests, JobStep(r), UNCHANGED <<model, gc>>,
         ~Mark(r), ~Slice(r), \A f \in req[r].todo : ~Confirm(r, f)
  PROVE  SafeStore /\ OwnPart(r)
<1> DEFINE Goal == SafeStore /\ OwnPart(r)
<1>1. /\ TypeInv /\ req \in [Requests -> Job] /\ req[r] \in Job
      /\ InPlace(req[r]) /\ StoreTypeOK /\ ReadyOf(r)
      /\ None \notin Files
  BY StoreAssumption
  DEF IndInv, ClaimInv, TypeInv, TypeOK, RequestTypeOK, JobPlace, JobReady, ReadyOf
<1>2. ASSUME SafeStore, Carries(r), Unsliced(r)' \subseteq Unsliced(r), ReadyOf(r)'
      PROVE  Goal
  BY <1>2, CarriedOn DEF OwnPart
<1>3. ASSUME Finish(r), SafeStore
      PROVE  Goal
  <2>1. /\ req'[r].pc = "done" /\ req'[r].prepared = {}
        /\ req'[r].mode = req[r].mode
    BY <1>1, <1>3 DEF Finish, Become, Job
  <2> QED
    BY <1>2, <1>3, <2>1 DEF Carries, Unsliced, ReadyOf, Publishing, Preparing, At
<1>4. ASSUME AbortPrepare(r), SafeStore
      PROVE  Goal
  <2>1. /\ req'[r].pc = "recover_failed" /\ req'[r].prepared = req[r].prepared
        /\ req'[r].mode = req[r].mode /\ req'[r].pending = req[r].pending
    BY <1>1, <1>4 DEF AbortPrepare, Become, Job
  <2> QED
    BY <1>2, <1>4, <2>1 DEF Carries, Unsliced, ReadyOf, Publishing, Preparing, At
<1>5. ASSUME NEW f \in req[r].todo, SkipInFlight(r, f)
      PROVE  Goal
  <2>1. SafeStore
    BY <1>1, <1>5, NoWriteSafe DEF SkipInFlight
  <2>2. Carries(r) /\ Unsliced(r)' \subseteq Unsliced(r) /\ ReadyOf(r)'
        BY <1>1, <1>5
    DEF SkipInFlight, At, Become, Job, Carries, Unsliced, ReadyOf, Publishing,
        Preparing
  <2> QED
    BY <1>2, <2>1, <2>2
<1>6. ASSUME NEW f \in req[r].todo, TakeClaim(r, f)
      PROVE  Goal
  <2>1. SafeStore
    BY <1>1, <1>6, NoWriteSafe DEF TakeClaim
  <2>2. Carries(r) /\ Unsliced(r)' \subseteq Unsliced(r) /\ ReadyOf(r)'
        BY <1>1, <1>6
    DEF TakeClaim, At, Become, Job, Carries, Unsliced, ReadyOf, Publishing,
        Preparing
  <2> QED
    BY <1>2, <2>1, <2>2
<1>7. ASSUME NEW f \in req[r].todo, DropCancelled(r, f)
      PROVE  Goal
  <2>1. SafeStore
    BY <1>1, <1>7, NoWriteSafe, DropChunksSafe DEF DropCancelled, rowVars
  <2>2. Carries(r) /\ Unsliced(r)' \subseteq Unsliced(r) /\ ReadyOf(r)'
        BY <1>1, <1>7
    DEF DropCancelled, At, Become, Job, Carries, Unsliced, ReadyOf, Publishing,
        Preparing
  <2> QED
    BY <1>2, <2>1, <2>2
<1>8. ASSUME NEW f \in req[r].todo, RecoverOne(r, f)
      PROVE  Goal
  <2>1. SafeStore
    BY <1>1, <1>8, NoWriteSafe, SetStatusSafe DEF RecoverOne, Statuses
  <2>2. Carries(r) /\ Unsliced(r)' \subseteq Unsliced(r) /\ ReadyOf(r)'
        BY <1>1, <1>8
    DEF RecoverOne, At, Become, Job, Carries, Unsliced, ReadyOf, Publishing,
        Preparing
  <2> QED
    BY <1>2, <2>1, <2>2
<1>9. CASE SkipFile(r)
  <2>1. SafeStore
    BY <1>1, <1>9, NoWriteSafe DEF SkipFile
  <2>2. Carries(r) /\ Unsliced(r)' \subseteq Unsliced(r) /\ ReadyOf(r)'
        BY <1>1, <1>9
    DEF SkipFile, At, Become, Job, Carries, Unsliced, ReadyOf, Publishing, Preparing
  <2> QED
    BY <1>2, <2>1, <2>2
<1>10. CASE NeedsWork(r)
  <2>1. SafeStore
    BY <1>1, <1>10, NoWriteSafe DEF NeedsWork
  <2>2. Carries(r) /\ Unsliced(r)' \subseteq Unsliced(r) /\ ReadyOf(r)'
        BY <1>1, <1>10
    DEF NeedsWork, At, Become, Job, Carries, Unsliced, ReadyOf, Publishing,
        Preparing
  <2> QED
    BY <1>2, <2>1, <2>2
<1>11. CASE RebuildSymbols(r)
  <2>1. SafeStore
        BY <1>11
    DEF RebuildSymbols, ReplaceSymbols, rowVars, SafeStore, Safe, KeepsVectors, NoNewChunks,
        ActiveOf
  <2>2. Carries(r) /\ Unsliced(r)' \subseteq Unsliced(r) /\ ReadyOf(r)'
        BY <1>1, <1>11
    DEF RebuildSymbols, ReplaceSymbols, At, Become, Job, Carries, Unsliced, ReadyOf, Publishing,
        Preparing
  <2> QED
    BY <1>2, <2>1, <2>2
<1>12. CASE CheckOrMarkFails(r)
  BY <1>3, <1>4, <1>12, NoWriteSafe DEF CheckOrMarkFails
<1>13. CASE MarkStored(r)
  <2>1. SafeStore
    BY <1>1, <1>13, SetStatusSafe DEF MarkStored, Statuses
  <2>2. CASE ~CanMove(req[r].cur, "indexing")
    BY <1>4, <1>13, <2>1, <2>2 DEF MarkStored
  <2>3. CASE CanMove(req[r].cur, "indexing")
    <3>1. req' = [req EXCEPT ![r] = [req[r] EXCEPT !.pc = "slice"]]
      BY <1>13, <2>3 DEF MarkStored, Become
    <3>2. At(r, "mark") /\ req[r].mode = "vectors" /\ req[r].cur \in Files
      BY <1>1, <1>13 DEF MarkStored, At, Job, InPlace, OnOneFile
    <3>3. status'[req[r].cur] = "indexing"
            BY <1>1, <1>13, <2>3, <3>2
      DEF MarkStored, SetFileStatus, StoreTypeOK, TablesTypeOK
    <3>4. ReadyOf(r)' /\ Unsliced(r)' \subseteq Unsliced(r)
      BY <1>1, <3>1, <3>2, <3>3 DEF ReadyOf, Unsliced, At, Job, Preparing
    <3>5. StampsOf(r)'
      BY <1>1, <3>1, <3>2 DEF StampsOf, Job
    <3>6. CoversOf(r)'
      <4>1. CoversOf(r)
        BY DEF IndInv, JobCovers, CoversOf
      <4>2. /\ req'[r].prepared = req[r].prepared /\ req'[r].pending = req[r].pending
            /\ req[r].pc \in Publishing
        BY <1>1, <3>1, <3>2 DEF Job, At, Publishing, Preparing
      <4>3. UNCHANGED <<active, vectors>>
        BY <1>13 DEF MarkStored, SetFileStatus, chunkVars
      <4> QED
        BY <4>1, <4>2, <4>3 DEF CoversOf, ActiveOf
    <3> QED
      BY <2>1, <3>4, <3>5, <3>6 DEF OwnPart
  <2> QED
    BY <2>2, <2>3
<1>14. CASE SliceDocument(r)
  <2>1. SafeStore
    BY <1>1, <1>14, NoWriteSafe DEF SliceDocument
  <2>2. Carries(r) /\ Unsliced(r)' \subseteq Unsliced(r) /\ ReadyOf(r)'
        BY <1>1, <1>14
    DEF SliceDocument, NoWrite, storeVars, rowVars, chunkVars, At, Become, Job,
        Carries, Unsliced, ReadyOf, Publishing, Preparing
  <2> QED
    BY <1>2, <2>1, <2>2
<1>15. CASE DocumentFails(r)
  BY <1>4, <1>15, NoWriteSafe DEF DocumentFails
<1>16. CASE ReadStored(r)
  <2>1. SafeStore /\ UNCHANGED <<active, vectors>>
    BY <1>16, NoWriteSafe DEF ReadStored, NoWrite, storeVars, chunkVars
  <2>2. /\ req'[r].mode = "vectors" /\ req'[r].pc = "pick" /\ req[r].pc = "slice"
        /\ req'[r].prepared = req[r].prepared \cup {req[r].cur}
        /\ req'[r].pending = req[r].pending \cup ActiveOf(req[r].cur)
        /\ req'[r].todo = req[r].todo /\ req'[r].cur = None
    BY <1>1, <1>16 DEF ReadStored, Become, At, Job
  <2>3. ReadyOf(r)' /\ StampsOf(r)' /\ Unsliced(r)' \subseteq Unsliced(r)
    BY <2>2 DEF ReadyOf, StampsOf, Unsliced, At, Preparing
  <2>4. CoversOf(r)'
    <3>1. CoversOf(r)
      BY DEF IndInv, JobCovers, CoversOf
    <3> QED
      BY <2>1, <2>2, <3>1 DEF CoversOf, ActiveOf, Publishing, Preparing
  <2> QED
    BY <2>1, <2>3, <2>4 DEF OwnPart
<1>17. CASE SliceFails(r) \/ SliceCancelled(r)
  <2>1. SafeStore
    BY <1>1, <1>17, NoWriteSafe DEF SliceFails, SliceCancelled
  <2>2. Carries(r) /\ Unsliced(r)' \subseteq Unsliced(r) /\ ReadyOf(r)'
        BY <1>1, <1>17
    DEF SliceFails, SliceCancelled, At, Become, Job, Carries, Unsliced, ReadyOf,
        Publishing, Preparing
  <2> QED
    BY <1>2, <2>1, <2>2
<1>18. CASE RecoverCurrent(r)
  <2>1. SafeStore /\ AbortPrepare(r)
    BY <1>1, <1>18, NoWriteSafe, SetStatusSafe DEF RecoverCurrent, Statuses
  <2> QED
    BY <1>4, <2>1
<1>19. CASE Reconcile(r)
  <2>1. PICK gone \in SUBSET Files :
          Become(r, [req[r] EXCEPT !.pc = "drop", !.todo = gone])
    BY <1>1, <1>19 DEF Reconcile, Job
  <2>2. At(r, "pick") /\ SafeStore
    BY <1>19, NoWriteSafe DEF Reconcile
  <2>3. Carries(r) /\ Unsliced(r)' \subseteq Unsliced(r) /\ ReadyOf(r)'
        BY <1>1, <2>1, <2>2
    DEF At, Become, Job, Carries, Unsliced, ReadyOf, Publishing, Preparing
  <2> QED
    BY <1>2, <2>2, <2>3
<1>20. CASE BeginEmbed(r)
  <2>1. SafeStore
    BY <1>1, <1>20, NoWriteSafe DEF BeginEmbed
  <2>2. Carries(r) /\ Unsliced(r)' \subseteq Unsliced(r) /\ ReadyOf(r)'
        BY <1>1, <1>20
    DEF BeginEmbed, At, Become, Job, Carries, Unsliced, ReadyOf, Publishing,
        Preparing
  <2> QED
    BY <1>2, <2>1, <2>2
<1>21. CASE SymbolsDone(r) \/ ConfirmFails(r) \/ Return(r)
  BY <1>3, <1>21, NoWriteSafe DEF SymbolsDone, ConfirmFails, Return
<1>22. ASSUME NEW S \in (SUBSET req[r].pending) \ {{}}, EmbedBatch(r, S)
      PROVE  Goal
  <2>1. SafeStore /\ vectors' = vectors \cup ({model} \X S)
    BY <1>22, UpsertSafe DEF EmbedBatch, Upsert
  <2>2. Carries(r) /\ Unsliced(r)' \subseteq Unsliced(r) /\ ReadyOf(r)'
        BY <1>1, <1>22, <2>1
    DEF EmbedBatch, At, Become, Job, Carries, Unsliced, ReadyOf, Publishing,
        Preparing
  <2> QED
    BY <1>2, <2>1, <2>2
<1>23. CASE EmbedFails(r)
  <2>1. PICK pc \in {"recover_failed", "recover_cancelled"} :
          Become(r, [req[r] EXCEPT !.pc = pc, !.todo = req[r].prepared])
    BY <1>23 DEF EmbedFails
  <2>2. At(r, "embed") /\ SafeStore
    BY <1>23, NoWriteSafe DEF EmbedFails
  <2>3. Carries(r) /\ Unsliced(r)' \subseteq Unsliced(r) /\ ReadyOf(r)'
        BY <1>1, <2>1, <2>2
    DEF At, Become, Job, Carries, Unsliced, ReadyOf, Publishing, Preparing
  <2> QED
    BY <1>2, <2>2, <2>3
<1>24. CASE BeginConfirm(r)
  <2>1. SafeStore
    BY <1>1, <1>24, NoWriteSafe DEF BeginConfirm
  <2>2. Carries(r) /\ Unsliced(r)' \subseteq Unsliced(r) /\ ReadyOf(r)'
        BY <1>1, <1>24
    DEF BeginConfirm, At, Become, Job, Carries, Unsliced, ReadyOf, Publishing,
        Preparing
  <2> QED
    BY <1>2, <2>1, <2>2
<1> QED
    BY <1>5, <1>6, <1>7, <1>8, <1>9, <1>10, <1>11, <1>12, <1>13, <1>14, <1>15,
      <1>16, <1>17, <1>18, <1>19, <1>20, <1>21, <1>22, <1>23, <1>24
  DEF JobStep

-----------------------------------------------------------------------------
(* The three steps of a job that change what is published: each does it to a
   file whose claim the job holds, and leaves it covered. *)
LEMMA MarkStep ==
  ASSUME IndInv, NEW r \in Requests, Mark(r), UNCHANGED <<model, gc>>
  PROVE  StoreStep(r) /\ NoNewChunks /\ OwnPart(r)
<1> DEFINE f == req[r].cur
<1>1. /\ TypeInv /\ req \in [Requests -> Job] /\ req[r] \in Job
      /\ InPlace(req[r]) /\ StoreTypeOK /\ Consistent(r, req[r], claim)
      /\ CoversOf(r) /\ StampsOf(r) /\ None \notin Files
  BY StoreAssumption, ClaimInvIsConsistent
  DEF IndInv, TypeInv, TypeOK, RequestTypeOK, JobPlace, JobCovers, CoversOf,
      JobStamps, StampsOf
<1>2. /\ f \in Files /\ claim[f] = r /\ f \notin req[r].prepared
      /\ req[r].pc = "mark" /\ req[r].mode = "full"
  BY <1>1 DEF Mark, At, InPlace, OnOneFile, Job, Consistent, Held
<1>3. /\ status' = [status EXCEPT ![f] = "indexing"]
      /\ embeddedBy' = [embeddedBy EXCEPT ![f] = model]
      /\ UNCHANGED <<active, deleted, vectors>>
  BY DEF Mark, MarkIndexing, chunkVars
<1>4. /\ req'[r].pc \in {"document", "slice"} /\ req'[r].cur = f
      /\ req'[r].mode = "full" /\ req'[r].prepared = req[r].prepared
      /\ req'[r].pending = req[r].pending /\ req'[r].todo = req[r].todo
      /\ req'[r].token = req[r].token
  BY <1>1, <1>2 DEF Mark, Become, Job
<1>5. status'[f] = "indexing" /\ embeddedBy'[f] = model
  BY <1>1, <1>2, <1>3 DEF StoreTypeOK, TablesTypeOK
<1>6. \A x \in Files : x # f => Safe(x)
  BY <1>1, <1>3 DEF Safe, ActiveOf, StoreTypeOK, TablesTypeOK
<1>7. StoreStep(r) /\ NoNewChunks
  BY <1>2, <1>3, <1>5, <1>6 DEF StoreStep, HasVectors, KeepsVectors, NoNewChunks
<1>8. ReadyOf(r)' /\ Unsliced(r)' \subseteq Unsliced(r)
  BY <1>2, <1>4, <1>5 DEF ReadyOf, Unsliced, At, Preparing
<1>9. CoversOf(r)'
  BY <1>1, <1>2, <1>3, <1>4 DEF CoversOf, ActiveOf, Publishing, Preparing
<1>10. StampsOf(r)'
  <2>1. ASSUME NEW x \in req[r].prepared
        PROVE  embeddedBy'[x] = model \/ status'[x] = "absent"
    <3>1. x \in Files /\ x # f
      BY <1>1, <1>2, <2>1 DEF Job
    <3>2. embeddedBy[x] = model \/ status[x] = "absent"
      BY <1>1, <1>2, <2>1 DEF StampsOf, Stamped
    <3> QED
      BY <1>1, <1>3, <3>1, <3>2 DEF StoreTypeOK, TablesTypeOK
  <2> QED
    BY <1>3, <1>4, <1>5, <2>1 DEF StampsOf, Stamped, Mark
<1> QED
  BY <1>7, <1>8, <1>9, <1>10 DEF OwnPart

(* A fresh chunk bears the name of its file and of its request. *)
LEMMA SlicesAreOwn ==
  ASSUME NEW f, NEW v, NEW r, NEW c \in SlicesOf(f, v, r)
  PROVE  c.file = f /\ c.by = r
<1>1. PICK i \in 1 .. Pieces[f, v] :
        c = [file |-> f, text |-> v, tok |-> TokenizerOf[model], by |-> r, ix |-> i]
  BY DEF SlicesOf
<1> QED
  BY <1>1

(* The slice transaction puts what it inserts into the batch of the job. *)
LEMMA SliceStep ==
  ASSUME IndInv, NEW r \in Requests, Slice(r), UNCHANGED <<model, gc>>
  PROVE  /\ StoreStep(r) /\ OwnPart(r)
         /\ DeletedForGood'
         /\ (\A q \in Requests : q # r => req'[q] = req[q]) => FreshChunks'
<1>1. /\ TypeInv /\ req \in [Requests -> Job] /\ req[r] \in Job
      /\ InPlace(req[r]) /\ StoreTypeOK /\ Consistent(r, req[r], claim)
      /\ ReadyOf(r) /\ CoversOf(r) /\ StampsOf(r)
      /\ DeletedForGood /\ FreshChunks /\ None \notin Files
      /\ active \cup deleted \cup gc.batch \subseteq Chunk
  BY StoreAssumption, ClaimInvIsConsistent
  DEF IndInv, TypeInv, TypeOK, RequestTypeOK, JobPlace, JobReady, ReadyOf,
      JobCovers, CoversOf, JobStamps, StampsOf, StoreTypeOK, TablesTypeOK, GcTypeOK
<1>2. PICK f \in Files : f = req[r].cur
  BY <1>1 DEF Slice, At, InPlace, OnOneFile, Job
<1>3. PICK new : new = SlicesOf(f, req[r].text, r)
  OBVIOUS
<1>4. /\ f \in Files /\ claim[f] = r /\ f \notin req[r].prepared
      /\ f \notin req[r].todo
      /\ req[r].pc = "slice" /\ req[r].mode = "full" /\ status[f] # "indexed"
      /\ ~req[r].token
  BY <1>2, <1>1 DEF Slice, At, InPlace, OnOneFile, Job, Consistent, Held, ReadyOf
<1>5. /\ active' = (active \ ActiveOf(f)) \cup new
      /\ deleted' = deleted \cup ActiveOf(f)
      /\ UNCHANGED <<status, embeddedBy, vectors>>
  BY <1>2, <1>3 DEF Slice, ReplaceChunks, rowVars
<1>6. /\ req'[r].pc = "pick" /\ req'[r].cur = None /\ req'[r].mode = "full"
      /\ req'[r].prepared = req[r].prepared \cup {f}
      /\ req'[r].pending = req[r].pending \cup new
      /\ req'[r].todo = req[r].todo
  BY <1>2, <1>1, <1>4, <1>3 DEF Slice, Become, Job
<1>7. \A c \in new : c.file = f /\ c.by = r
  BY <1>3, SlicesAreOwn
<1>8. f \in Unsliced(r)
  BY <1>2, <1>1, <1>4 DEF Unsliced, At, Preparing
<1>9. \A c \in new : c \notin active \cup deleted \cup gc.batch
  BY <1>1, <1>7, <1>8 DEF FreshChunks
<1>10. ActiveOf(f)' = new
  BY <1>5, <1>7 DEF ActiveOf
<1>11. \A x \in Files : x # f => ActiveOf(x)' = ActiveOf(x)
  BY <1>5, <1>7 DEF ActiveOf
<1>12. StoreStep(r)
  BY <1>4, <1>5, <1>11 DEF StoreStep, Safe, HasVectors, KeepsVectors
<1>13. ReadyOf(r)' /\ Unsliced(r)' \subseteq Unsliced(r)
  BY <1>4, <1>6 DEF ReadyOf, Unsliced, At, Preparing
<1>14. CoversOf(r)'
  <2>1. ASSUME NEW x \in req'[r].prepared, NEW c \in ActiveOf(x)'
        PROVE  c \in req'[r].pending \/ <<model, c>> \in vectors'
    <3>1. CASE x = f
      BY <1>6, <1>10, <2>1, <3>1
    <3>2. CASE x # f
      <4>1. x \in req[r].prepared /\ x \in Files
        BY <1>1, <1>6, <2>1, <3>2 DEF Job
      <4>2. c \in req[r].pending \/ <<model, c>> \in vectors
        BY <1>1, <1>4, <1>11, <2>1, <3>2, <4>1 DEF CoversOf, Publishing, Preparing
      <4> QED
        BY <1>5, <1>6, <4>2
    <3> QED
      BY <3>1, <3>2
  <2> QED
    BY <2>1 DEF CoversOf, Slice
<1>15. StampsOf(r)'
  <2>1. Stamped(r)' \subseteq Stamped(r)
    BY <1>2, <1>4, <1>6 DEF Stamped
  <2> QED
    BY <1>1, <1>4, <1>5, <2>1 DEF StampsOf
<1>16. DeletedForGood'
  BY <1>1, <1>5, <1>9 DEF DeletedForGood, ActiveOf
<1>17. ASSUME \A q \in Requests : q # r => req'[q] = req[q]
       PROVE  FreshChunks'
  <2>1. ASSUME NEW q \in Requests PROVE Unsliced(q)' \subseteq Unsliced(q)
    BY <1>13, <1>17 DEF Unsliced, At
  <2>2. ASSUME NEW c \in (active \cup deleted \cup gc.batch)'
        PROVE  c.file \notin Unsliced(c.by)'
    <3>1. CASE c \in new
      BY <1>4, <1>6, <1>7, <3>1 DEF Unsliced, At, Preparing
    <3>2. CASE c \notin new
      <4>1. c \in active \cup deleted \cup gc.batch /\ c.by \in Requests
        BY <1>1, <1>5, <2>2, <3>2 DEF ActiveOf, Chunk
      <4> QED
        BY <1>1, <2>1, <4>1 DEF FreshChunks
    <3> QED
      BY <3>1, <3>2
  <2> QED
    BY <2>2 DEF FreshChunks
<1> QED
  BY <1>12, <1>13, <1>14, <1>15, <1>16, <1>17 DEF OwnPart

(* mark_indexed publishes a file whose chunks all have their points. *)
LEMMA ConfirmStep ==
  ASSUME IndInv, NEW r \in Requests, NEW f \in req[r].todo, Confirm(r, f),
         UNCHANGED <<model, gc>>
  PROVE  StoreStep(r) /\ NoNewChunks /\ OwnPart(r)
<1>1. /\ TypeInv /\ req \in [Requests -> Job] /\ req[r] \in Job
      /\ StoreTypeOK /\ Consistent(r, req[r], claim)
      /\ ReadyOf(r) /\ CoversOf(r) /\ StampsOf(r) /\ IndexedHasVectors
      /\ InPlace(req[r])
  BY ClaimInvIsConsistent
  DEF IndInv, TypeInv, TypeOK, RequestTypeOK, JobPlace, JobReady, ReadyOf,
      JobCovers, CoversOf, JobStamps, StampsOf
<1>2. /\ req[r].pc = "confirm" /\ f \in req[r].prepared /\ f \in Files
      /\ claim[f] = r /\ req[r].pending = {}
  BY <1>1 DEF Confirm, At, ReadyOf, Job, Consistent, Held
<1>3. /\ req'[r].pc = "confirm" /\ req'[r].prepared = req[r].prepared
      /\ req'[r].todo = req[r].todo \ {f} /\ req'[r].pending = {}
      /\ req'[r].mode = req[r].mode /\ req'[r].cur = req[r].cur
  BY <1>1, <1>2 DEF Confirm, Become, Job
<1>4. \A c \in ActiveOf(f) : <<model, c>> \in vectors
  BY <1>1, <1>2 DEF CoversOf, Publishing
<1>5. /\ UNCHANGED <<active, deleted, vectors>>
      /\ status' = [status EXCEPT ![f] = IF @ = "indexing" THEN "indexed" ELSE @]
      /\ embeddedBy' = IF req[r].mode # "full" /\ status[f] = "indexing"
                         THEN [embeddedBy EXCEPT ![f] = model] ELSE embeddedBy
  BY <1>1, <1>2 DEF Confirm, MarkIndexed, MarkReembedded, chunkVars, StoreTypeOK,
     TablesTypeOK
<1>6. \A x \in Files : x # f => Safe(x)
  BY <1>1, <1>5 DEF Safe, ActiveOf, StoreTypeOK, TablesTypeOK
<1>7. HasVectors(f)'
  <2>1. ASSUME status'[f] = "indexed", NEW c \in ActiveOf(f)
        PROVE  <<embeddedBy'[f], c>> \in vectors
    <3>1. CASE status[f] = "indexing"
      <4>1. embeddedBy'[f] = model
        BY <1>1, <1>2, <1>5, <3>1
        DEF StampsOf, Stamped, StoreTypeOK, TablesTypeOK, Job, ModeNames
      <4> QED
        BY <1>4, <2>1, <4>1
    <3>2. CASE status[f] # "indexing"
      BY <1>1, <1>2, <1>5, <2>1, <3>2 DEF IndexedHasVectors, StoreTypeOK, TablesTypeOK
    <3> QED
      BY <3>1, <3>2
  <2> QED
    BY <1>5, <2>1 DEF HasVectors, ActiveOf
<1>8. StoreStep(r) /\ NoNewChunks
  BY <1>2, <1>5, <1>6, <1>7 DEF StoreStep, KeepsVectors, NoNewChunks
<1>9. ReadyOf(r)' /\ Unsliced(r)' \subseteq Unsliced(r)
  BY <1>1, <1>2, <1>3 DEF ReadyOf, Unsliced, At, Preparing
<1>10. CoversOf(r)'
  BY <1>1, <1>2, <1>3, <1>5 DEF CoversOf, ActiveOf, Publishing
<1>11. StampsOf(r)'
  <2>1. Stamped(r)' = Stamped(r) /\ Stamped(r) \subseteq Files
    BY <1>1, <1>2, <1>3 DEF Stamped, Job
  <2>2. /\ req[r].mode = "full" => embeddedBy' = embeddedBy
        /\ \A x \in Files : status[x] = "absent" => status'[x] = "absent"
    BY <1>1, <1>2, <1>5 DEF StoreTypeOK, TablesTypeOK
  <2> QED
    BY <1>1, <1>3, <2>1, <2>2 DEF StampsOf
<1> QED
  BY <1>8, <1>9, <1>10, <1>11 DEF OwnPart

-----------------------------------------------------------------------------
(* Every conjunct of IndInv but the claims and NothingDetached. *)
Parts ==
  /\ JobReady /\ WorkerReady /\ DeletedForGood /\ FreshChunks
  /\ JobCovers /\ JobStamps /\ WorkerCovers /\ IndexedHasVectors

(* What a job does on its own behalf harms nobody else. *)
LEMMA OneJobKeepsParts ==
  ASSUME IndInv, NEW r \in Requests, StoreStep(r), OwnPart(r),
         \A q \in Requests : q # r => req'[q] = req[q],
         UNCHANGED <<model, worker>>, DeletedForGood', FreshChunks'
  PROVE  Parts'
<1>1. r # Worker
  BY StoreAssumption DEF Worker
<1>2. ASSUME NEW q \in Requests
      PROVE  ReadyOf(q)' /\ CoversOf(q)' /\ StampsOf(q)'
  BY JobKept DEF OwnPart
<1>3. JobReady' /\ JobCovers' /\ JobStamps'
  BY <1>2 DEF JobReady, JobCovers, JobStamps, ReadyOf, CoversOf, StampsOf
<1>4. WorkerReady' /\ WorkerCovers'
  BY <1>1, WorkerKept
<1>5. IndexedHasVectors'
  BY RowsKept DEF IndInv
<1> QED
  BY <1>3, <1>4, <1>5 DEF Parts

(* A step of a job. *)
LEMMA JobStepParts ==
  ASSUME IndInv, NEW r \in Requests, RunJob(r)
  PROVE  Parts'
<1>1. JobStep(r) /\ UNCHANGED <<model, gc, worker>> /\ ClaimInv
  BY DEF RunJob, IndInv
<1>2. \A q \in Requests : q # r => req'[q] = req[q]
  BY <1>1, JobStepClaims
<1>3. ASSUME NoNewChunks, OwnPart(r)
      PROVE  DeletedForGood' /\ FreshChunks'
  <2>1. \A q \in Requests : Unsliced(q)' \subseteq Unsliced(q)
    BY <1>2, <1>3 DEF OwnPart, Unsliced, At
  <2> QED
    BY <1>1, <1>3, <2>1, ChunksKept DEF IndInv
<1>4. CASE Mark(r)
  BY <1>1, <1>2, <1>3, <1>4, MarkStep, OneJobKeepsParts
<1>5. CASE Slice(r)
  BY <1>1, <1>2, <1>5, SliceStep, OneJobKeepsParts
<1>6. ASSUME NEW f \in req[r].todo, Confirm(r, f) PROVE Parts'
  BY <1>1, <1>2, <1>3, <1>6, ConfirmStep, OneJobKeepsParts
<1>7. CASE ~Mark(r) /\ ~Slice(r) /\ \A f \in req[r].todo : ~Confirm(r, f)
  <2>1. SafeStore /\ OwnPart(r)
    BY <1>1, <1>7, SafeJobSteps
  <2>2. StoreStep(r) /\ NoNewChunks
    BY <2>1 DEF SafeStore, StoreStep
  <2> QED
    BY <1>1, <1>2, <1>3, <2>1, <2>2, OneJobKeepsParts
<1> QED
  BY <1>4, <1>5, <1>6, <1>7

(* A request arrives, or its client goes away. *)
LEMMA ClientStepParts ==
  ASSUME IndInv, NEW r \in Requests, RunClient(r)
  PROVE  Parts'
<1>1. /\ TypeInv /\ ClaimInv /\ req \in [Requests -> Job] /\ req[r] \in Job
      /\ InPlace(req[r]) /\ ReadyOf(r) /\ None \notin Files
      /\ At(r, "new") => req[r].prepared = {}
  BY StoreAssumption
  DEF IndInv, ClaimInv, JobShape, TypeInv, TypeOK, RequestTypeOK, JobPlace, JobReady,
      ReadyOf
<1>2. /\ ClientStep(r) /\ UNCHANGED <<model, gc, worker>>
      /\ \A q \in Requests : q # r => req'[q] = req[q]
  BY <1>1, ClientStepClaims DEF RunClient
<1>3. SafeStore
  BY <1>2, NoWriteSafe DEF ClientStep, Start, Disconnect, CancelStream
<1>4. OwnPart(r)
  <2>1. ASSUME NEW m \in Modes, NEW v \in Versions, NEW F \in (SUBSET Files) \ {{}},
               Start(r, m, v, F)
        PROVE  OwnPart(r)
    <3>1. At(r, "new") /\ req[r].cur = None /\ req[r].prepared = {}
      BY <1>1, <2>1 DEF Start, InPlace, OnOneFile, At
    <3>2. /\ req'[r].pc = "pick" /\ req'[r].prepared = {} /\ req'[r].cur = None
          /\ req'[r].todo \subseteq Files
      BY <1>1, <2>1, <3>1 DEF Start, Become, Job
    <3> QED
      BY <3>1, <3>2
      DEF OwnPart, ReadyOf, CoversOf, StampsOf, Stamped, Unsliced, At, Preparing
  <2>2. CASE Disconnect(r)
    <3>1. req'[r].pc = "done" /\ req'[r].prepared = {} /\ req'[r].cur = None
      BY <1>1, <2>2 DEF Disconnect, Finish, Become, Job
    <3> QED
      BY <3>1 DEF OwnPart, ReadyOf, CoversOf, StampsOf, Stamped, Unsliced, At,
         Publishing, Preparing
  <2>3. CASE CancelStream(r)
    <3>1. /\ req'[r].pc = req[r].pc /\ req'[r].prepared = req[r].prepared
          /\ req'[r].cur = req[r].cur /\ req'[r].mode = req[r].mode
          /\ req'[r].todo = req[r].todo /\ req'[r].pending = req[r].pending
      BY <1>1, <2>3 DEF CancelStream, Become, Job
    <3>2. Carries(r)
      BY <3>1 DEF Carries
    <3>3. ReadyOf(r)' /\ Unsliced(r)' \subseteq Unsliced(r)
      BY <1>1, <2>3, <3>1
      DEF CancelStream, NoWrite, storeVars, rowVars, ReadyOf, Unsliced, At
    <3> QED
      BY <1>2, <1>3, <3>2, <3>3, CarriedOn DEF OwnPart
  <2> QED
    BY <1>2, <2>1, <2>2, <2>3 DEF ClientStep
<1>5. DeletedForGood' /\ FreshChunks'
  <2>1. \A q \in Requests : Unsliced(q)' \subseteq Unsliced(q)
    BY <1>2, <1>4 DEF OwnPart, Unsliced, At
  <2> QED
    BY <1>2, <1>3, <2>1, ChunksKept DEF SafeStore, IndInv
<1>6. StoreStep(r)
  BY <1>3 DEF SafeStore, StoreStep
<1> QED
  BY <1>2, <1>4, <1>5, <1>6, OneJobKeepsParts

-----------------------------------------------------------------------------
(* The jobs, and the chunks, while another actor takes a step. *)
LEMMA OthersKeepJobs ==
  ASSUME IndInv, NEW who, who \notin Requests, StoreStep(who), NoNewChunks,
         UNCHANGED <<req, model>>, gc'.batch \subseteq gc.batch \cup deleted
  PROVE  /\ JobReady' /\ JobCovers' /\ JobStamps' /\ IndexedHasVectors'
         /\ DeletedForGood' /\ FreshChunks'
<1>1. ASSUME NEW q \in Requests
      PROVE  ReadyOf(q)' /\ CoversOf(q)' /\ StampsOf(q)'
  BY JobKept
<1>2. \A q \in Requests : Unsliced(q)' \subseteq Unsliced(q)
  BY DEF Unsliced, At
<1> QED
  BY <1>1, <1>2, RowsKept, ChunksKept
  DEF IndInv, JobReady, JobCovers, JobStamps, ReadyOf, CoversOf, StampsOf

(* A step of the retry worker. *)
LEMMA WorkerStepParts ==
  ASSUME IndInv, RunWorker
  PROVE  Parts'
<1>1. /\ TypeInv /\ WorkerTypeOK /\ StoreTypeOK /\ WorkerPlace
      /\ WorkerReady /\ WorkerCovers /\ IndexedHasVectors
      /\ worker.file # None => claim[worker.file] = Worker
  BY ClaimInvIsConsistent DEF IndInv, TypeInv, TypeOK
<1>2. WorkerStep /\ UNCHANGED <<model, req, gc>> /\ Worker \notin Requests
  BY StoreAssumption DEF RunWorker, requestVars, Worker
<1> DEFINE Goal == StoreStep(Worker) /\ NoNewChunks /\ WorkerReady' /\ WorkerCovers'
<1>3. SafeStore => StoreStep(Worker) /\ NoNewChunks
  BY DEF SafeStore, StoreStep
<1>4. worker'.pc \notin {"embed", "confirm"} => WorkerReady' /\ WorkerCovers'
  BY DEF WorkerReady, WorkerCovers
<1>5. LeaveFile => worker'.pc = "idle"
  BY <1>1 DEF LeaveFile, WorkerTypeOK
<1>6. ASSUME NEW S \in (SUBSET Candidates) \ {{}}, Sweep(S) PROVE Goal
  BY <1>1, <1>3, <1>4, <1>6, NoWriteSafe DEF Sweep, WorkerAt, WorkerTypeOK
<1>7. ASSUME NEW f \in worker.todo, WorkerSkipsClaimed(f) \/ WorkerTakesClaim(f)
      PROVE  Goal
  BY <1>1, <1>3, <1>4, <1>7, NoWriteSafe
  DEF WorkerSkipsClaimed, WorkerTakesClaim, WorkerAt, WorkerTypeOK
<1>8. ASSUME Recheck PROVE Goal
  <2>1. worker'.pc \in {"mark", "idle"}
    BY <1>1, <1>5, <1>8 DEF Recheck, WorkerTypeOK
  <2> QED
    BY <1>3, <1>4, <1>8, <2>1, NoWriteSafe DEF Recheck
<1>9. ASSUME WorkerMarks PROVE Goal
  <2>1. worker'.pc \in {"read", "idle"}
    BY <1>1, <1>5, <1>9 DEF WorkerMarks, WorkerTypeOK
  <2> QED
    BY <1>1, <1>3, <1>4, <1>9, <2>1, SetStatusSafe DEF WorkerMarks, Statuses
<1>10. ASSUME WorkerReads PROVE Goal
  <2>1. SafeStore /\ UNCHANGED <<active, vectors>>
    BY <1>10, NoWriteSafe DEF WorkerReads, NoWrite, storeVars, chunkVars
  <2>2. /\ worker'.pending = ActiveOf(worker.file) /\ worker'.file = worker.file
        /\ worker'.pc = "confirm" => worker'.pending = {}
    BY <1>1, <1>10 DEF WorkerReads, WorkerTypeOK
  <2> QED
    BY <1>3, <2>1, <2>2 DEF WorkerReady, WorkerCovers, ActiveOf
<1>11. ASSUME NEW S \in (SUBSET worker.pending) \ {{}}, WorkerEmbeds(S) PROVE Goal
  <2>1. /\ SafeStore /\ vectors' = vectors \cup ({model} \X S) /\ active' = active
    BY <1>11, UpsertSafe DEF WorkerEmbeds, Upsert, chunkVars
  <2>2. /\ worker'.pending = worker.pending \ S /\ worker'.file = worker.file
        /\ worker'.pc = "confirm" => worker'.pending = {}
        /\ worker.pc = "embed"
    BY <1>1, <1>11 DEF WorkerEmbeds, WorkerAt, WorkerTypeOK
  <2>3. WorkerCovers'
    BY <1>1, <1>2, <2>1, <2>2 DEF WorkerCovers, ActiveOf
  <2> QED
    BY <1>3, <2>1, <2>2, <2>3 DEF WorkerReady
<1>12. ASSUME WorkerEmbedFails PROVE Goal
  BY <1>1, <1>3, <1>4, <1>12, NoWriteSafe DEF WorkerEmbedFails, WorkerTypeOK
<1>13. ASSUME WorkerConfirms PROVE Goal
  <2>1. PICK f : f = worker.file
    OBVIOUS
  <2>2. f \in Files /\ claim[f] = Worker /\ \A c \in ActiveOf(f) : <<model, c>> \in vectors
    BY <1>1, <1>13, <2>1
    DEF WorkerConfirms, WorkerAt, WorkerTypeOK, WorkerPlace, WorkerReady, WorkerCovers
  <2>3. UNCHANGED <<active, deleted, vectors>>
    BY <1>13 DEF WorkerConfirms, MarkReembedded, chunkVars
  <2>4. \A x \in Files : x # f => Safe(x)
    BY <1>1, <1>13, <2>3, <2>1
    DEF WorkerConfirms, MarkReembedded, Safe, ActiveOf, StoreTypeOK, TablesTypeOK
  <2>5. HasVectors(f)'
    <3>1. CASE status[f] = "indexing"
      <4>1. embeddedBy'[f] = model
        BY <1>1, <1>13, <2>2, <2>1, <3>1
        DEF WorkerConfirms, MarkReembedded, StoreTypeOK, TablesTypeOK
      <4> QED
        BY <2>2, <2>3, <4>1 DEF HasVectors, ActiveOf
    <3>2. CASE status[f] # "indexing"
      <4>1. UNCHANGED <<status, embeddedBy>>
        BY <1>13, <2>1, <3>2 DEF WorkerConfirms, MarkReembedded
      <4> QED
        BY <1>1, <2>2, <2>3, <4>1 DEF IndexedHasVectors, HasVectors, ActiveOf
    <3> QED
      BY <3>1, <3>2
  <2>6. StoreStep(Worker) /\ NoNewChunks
    BY <2>2, <2>3, <2>4, <2>5 DEF StoreStep, KeepsVectors, NoNewChunks
  <2> QED
    BY <1>4, <1>5, <1>13, <2>6 DEF WorkerConfirms
<1>14. ASSUME WorkerRecordsFailure PROVE Goal
  BY <1>1, <1>3, <1>4, <1>5, <1>14, SetStatusSafe DEF WorkerRecordsFailure, Statuses
<1>15. ASSUME WorkerTxFails PROVE Goal
  BY <1>3, <1>4, <1>5, <1>15, NoWriteSafe DEF WorkerTxFails
<1>16. Goal
  BY <1>2, <1>6, <1>7, <1>8, <1>9, <1>10, <1>11, <1>12, <1>13, <1>14, <1>15
  DEF WorkerStep
<1> QED
  BY <1>2, <1>16, OthersKeepJobs DEF Parts

(* The collector and the endpoints hold no claim, and need none. *)
LEMMA ClaimlessParts ==
  ASSUME IndInv, SafeStore, UNCHANGED <<req, worker, model>>,
         gc'.batch \subseteq gc.batch \cup deleted
  PROVE  Parts'
<1>1. None \notin Requests /\ None # Worker
  BY StoreAssumption DEF Worker
<1>2. StoreStep(None) /\ NoNewChunks
  BY DEF SafeStore, StoreStep
<1> QED
  BY <1>1, <1>2, OthersKeepJobs, WorkerKept DEF Parts

(* A step of the collector. *)
LEMMA CollectorParts ==
  ASSUME IndInv, RunCollector
  PROVE  Parts'
<1>1. /\ GcTypeOK /\ StoreTypeOK /\ DeletedForGood
  BY DEF IndInv, ClaimInv, TypeInv, TypeOK
<1>2. GcStep /\ UNCHANGED <<req, worker, model>>
  BY DEF RunCollector, requestVars
<1> DEFINE Goal == SafeStore /\ gc'.batch \subseteq gc.batch \cup deleted
<1>3. ASSUME NEW manual \in BOOLEAN, StartPass(manual) PROVE Goal
  BY <1>3, NoWriteSafe DEF StartPass
<1>4. ASSUME SelectDeleted PROVE Goal
  BY <1>1, <1>4, NoWriteSafe DEF SelectDeleted, GcGoto, GcTypeOK
<1>5. ASSUME DeleteVectors PROVE Goal
  <2>1. SafeStore
    BY <1>1, <1>5
    DEF DeleteVectors, rowVars, chunkVars, SafeStore, Safe, KeepsVectors,
        NoNewChunks, ActiveOf, DeletedForGood
  <2> QED
    BY <1>1, <1>5, <2>1 DEF DeleteVectors, GcGoto, GcTypeOK
<1>6. ASSUME PurgeRows PROVE Goal
  <2>1. SafeStore
    BY <1>6 DEF PurgeRows, rowVars, SafeStore, Safe, KeepsVectors, NoNewChunks, ActiveOf
  <2> QED
    BY <1>1, <1>6, <2>1 DEF PurgeRows, GcGoto, GcTypeOK
<1>7. ASSUME SweepFails PROVE Goal
  BY <1>1, <1>7, NoWriteSafe DEF SweepFails, GcGoto, GcTypeOK
<1>8. ASSUME PruneFiles PROVE Goal
  <2>1. SafeStore
    <3>1. CASE \E f \in Emptied : symbols[f] # None
      BY <1>8, <3>1, NoWriteSafe DEF PruneFiles
    <3>2. CASE ~\E f \in Emptied : symbols[f] # None
      BY <1>8, <3>2
      DEF PruneFiles, chunkVars, SafeStore, Safe, KeepsVectors, NoNewChunks, ActiveOf
    <3> QED
      BY <3>1, <3>2
  <2> QED
    BY <1>8, <2>1 DEF PruneFiles, PassDone
<1>9. ASSUME PassEnds PROVE Goal
  BY <1>9, NoWriteSafe DEF PassEnds, PassDone
<1>10. Goal
  BY <1>2, <1>3, <1>4, <1>5, <1>6, <1>7, <1>8, <1>9 DEF GcStep
<1> QED
  BY <1>2, <1>10, ClaimlessParts

(* A step of an endpoint that takes no claim. *)
LEMMA CommandParts ==
  ASSUME IndInv, NEW c \in Commands, ServeCommand(c) \/ SendCommand(c)
  PROVE  Parts'
<1>1. UNCHANGED <<req, worker, model, gc>>
  BY DEF ServeCommand, SendCommand, requestVars
<1>2. ASSUME NEW B, ApplyCancel(c, B) \/ ApplyDelete(c, B) PROVE SafeStore
  BY <1>2, DropChunksSafe DEF ApplyCancel, ApplyDelete, Applied
<1>3. ASSUME CommandStops(c) PROVE SafeStore
  BY <1>3, NoWriteSafe DEF CommandStops
<1>4. ASSUME NEW P, SelectCancel(c, P) \/ SelectDelete(c, P) PROVE SafeStore
  BY <1>4, NoWriteSafe DEF SelectCancel, SelectDelete, Selects
<1>5. ASSUME NEW P, PostRetry(P) PROVE SafeStore
  BY <1>5
  DEF PostRetry, chunkVars, SafeStore, Safe, KeepsVectors, NoNewChunks, ActiveOf
<1>6. SafeStore
  BY <1>2, <1>3, <1>4, <1>5 DEF ServeCommand, SendCommand, CommandServed, CommandSent
<1> QED
  BY <1>1, <1>6, ClaimlessParts

(* After a crash nobody is publishing anything, whatever model comes up. *)
LEMMA RestartParts ==
  ASSUME IndInv, Restart
  PROVE  Parts'
<1>1. /\ ClaimInv /\ TypeInv /\ JobShape /\ IndexedHasVectors
      /\ DeletedForGood /\ FreshChunks
      /\ UNCHANGED <<status, embeddedBy, active, deleted, vectors>>
  BY DEF IndInv, ClaimInv, Restart, NoWrite, storeVars, rowVars, chunkVars
<1>2. /\ gc'.batch = {} /\ worker'.pc = "idle"
  BY DEF Restart, PassDone
<1>3. ASSUME NEW r \in Requests
      PROVE  /\ req'[r].pc \in {"new", "done"} /\ req'[r].prepared = {}
             /\ req'[r].pc = "new" => At(r, "new")
  BY <1>1 DEF Restart, JobShape, At
<1>4. JobReady' /\ JobCovers'
  BY <1>3 DEF JobReady, JobCovers, Publishing, Preparing, At
<1>5. JobStamps'
  BY <1>3 DEF JobStamps, Stamped
<1>6. WorkerReady' /\ WorkerCovers'
  BY <1>2 DEF WorkerReady, WorkerCovers
<1>7. DeletedForGood' /\ IndexedHasVectors'
  BY <1>1, <1>2 DEF DeletedForGood, IndexedHasVectors, ActiveOf
<1>8. FreshChunks'
  <2>1. ASSUME NEW c \in active \cup deleted
        PROVE  c.file \notin Unsliced(c.by)'
    <3>1. c.by \in Requests /\ c.file \in Files
      BY <1>1, <2>1 DEF TypeInv, TypeOK, StoreTypeOK, TablesTypeOK, Chunk
    <3>2. ~At(c.by, "new")
      BY <1>1, <2>1, <3>1 DEF FreshChunks, Unsliced, At, Preparing
    <3> QED
      BY <1>3, <3>1, <3>2 DEF Unsliced, At, Preparing
  <2> QED
    BY <1>1, <1>2, <2>1 DEF FreshChunks
<1> QED
  BY <1>4, <1>5, <1>6, <1>7, <1>8 DEF Parts

-----------------------------------------------------------------------------
(* Nothing is indexed at first. *)
LEMMA IndInit == Init => IndInv
<1> SUFFICES ASSUME Init PROVE IndInv
  OBVIOUS
<1>1. ClaimInv
  BY ClaimInit
<1> QED
  BY <1>1
  DEF Init, StoreInit, RequestInit, WorkerInit, GcInit, IndInv, NothingDetached,
      JobReady, WorkerReady, DeletedForGood, FreshChunks, JobCovers, JobStamps,
      Stamped, WorkerCovers, IndexedHasVectors, Publishing, Preparing, At

(* The inductive invariant of publishing. *)
LEMMA IndNext ==
  ASSUME "detach" \notin Faults, IndInv, [Next]_vars
  PROVE  IndInv'
<1>1. ClaimInv' /\ NothingDetached'
  BY ClaimNext, NextDetachesNothing DEF IndInv
<1>2. ~RunBlockingPool
  BY DEF RunBlockingPool, IndInv, NothingDetached
<1>3. ASSUME UNCHANGED vars PROVE Parts'
  BY <1>3
  DEF IndInv, Parts, vars, storeVars, rowVars, chunkVars, requestVars, JobReady,
      WorkerReady, DeletedForGood, FreshChunks, Unsliced, JobCovers, JobStamps,
      Stamped, WorkerCovers, IndexedHasVectors, ActiveOf, At
<1>4. Parts'
  BY <1>2, <1>3, JobStepParts, ClientStepParts, WorkerStepParts, CollectorParts,
     CommandParts, RestartParts DEF Next
<1> QED
  BY <1>1, <1>4 DEF IndInv, Parts

(* What the tables, the actors and the collections have in common at every moment,
   as long as no transaction outlives the future that awaited it: a published
   file has its vectors, one that is about to be published has those that its job
   has sent, what the collector is about to purge is deleted for good. *)
THEOREM IndexingInvariant ==
  ASSUME "detach" \notin Faults
  PROVE  Spec => []IndInv
<1>1. Init => IndInv
  BY IndInit
<1>2. IndInv /\ [Next]_vars => IndInv'
  BY IndNext
<1> QED
  BY <1>1, <1>2, PTL DEF Spec

(* An 'indexed' file is searchable in the collection its row names, whatever
   fails and whoever interferes, as long as no transaction outlives the future
   that awaited it. *)
THEOREM IndexedIsSearchable ==
  ASSUME "detach" \notin Faults
  PROVE  Spec => []IndexedHasVectors
<1>1. Init => IndInv
  BY IndInit
<1>2. IndInv /\ [Next]_vars => IndInv'
  BY IndNext
<1>3. IndInv => IndexedHasVectors
  BY DEF IndInv
<1> QED
  BY <1>1, <1>2, <1>3, PTL DEF Spec

(* Nobody but the collector ever takes a point away. *)
LEMMA OnlyCollectorRemoves ==
  ASSUME TypeInv, [Next]_vars, ~DeleteVectors
  PROVE  vectors \subseteq vectors'
<1>1. NoWrite => vectors' = vectors
  BY DEF NoWrite, storeVars
<1>2. ASSUME NEW f, NEW new, NEW bump, SetFileStatus(f, new, bump)
      PROVE  vectors' = vectors
  BY <1>2 DEF SetFileStatus
<1>3. ASSUME NEW f, NEW v, MarkIndexing(f, v) \/ MarkIndexed(f, v) \/ MarkReembedded(f)
      PROVE  vectors' = vectors
  BY <1>3 DEF MarkIndexing, MarkIndexed, MarkReembedded
<1>4. ASSUME NEW f, NEW v, NEW r, ReplaceChunks(f, v, r) PROVE vectors' = vectors
  BY <1>4 DEF ReplaceChunks
<1>5. ASSUME NEW S, Upsert(S) PROVE vectors \subseteq vectors'
  BY <1>5 DEF Upsert
<1>6. ASSUME NEW r \in Requests, JobStep(r) PROVE vectors \subseteq vectors'
  BY <1>1, <1>2, <1>3, <1>4, <1>5, <1>6
  DEF JobStep, SkipInFlight, TakeClaim, DropCancelled, Confirm, RecoverOne, SkipFile,
      NeedsWork, RebuildSymbols, ReplaceSymbols, CheckOrMarkFails, Mark, MarkStored, SliceDocument,
      DocumentFails, Slice, ReadStored, SliceFails, SliceCancelled, RecoverCurrent,
      Reconcile, BeginEmbed, SymbolsDone, EmbedBatch, EmbedFails, BeginConfirm,
      ConfirmFails, Return
<1>7. ASSUME NEW r \in Requests, ClientStep(r) PROVE vectors \subseteq vectors'
  BY <1>1, <1>7 DEF ClientStep, Start, Disconnect, CancelStream
<1>8. ASSUME NEW t, RunDetached(t), TypeInv PROVE vectors \subseteq vectors'
  <2>1. t.op \in TxOps
    BY <1>8 DEF RunDetached, TypeInv, TypeOK, RequestTypeOK, Tx
  <2> QED
    BY <1>1, <1>2, <1>3, <1>4, <1>8, <2>1 DEF RunDetached, TxOps, ReplaceSymbols
<1>9. ASSUME WorkerStep PROVE vectors \subseteq vectors'
  BY <1>1, <1>2, <1>3, <1>5, <1>9
  DEF WorkerStep, Sweep, WorkerSkipsClaimed, WorkerTakesClaim, Recheck, WorkerMarks,
      WorkerReads, WorkerEmbeds, WorkerEmbedFails, WorkerConfirms,
      WorkerRecordsFailure, WorkerTxFails
<1>10. ASSUME GcStep PROVE vectors \subseteq vectors'
  BY <1>1, <1>10
  DEF GcStep, StartPass, SelectDeleted, PurgeRows, SweepFails, PruneFiles, PassEnds
<1>11. ASSUME NEW c, CommandServed(c) \/ CommandSent(c) PROVE vectors \subseteq vectors'
  BY <1>1, <1>11
  DEF CommandServed, CommandSent, ApplyCancel, ApplyDelete, Applied, CommandStops,
      SelectCancel, SelectDelete, Selects, PostRetry
<1> QED
  BY <1>1, <1>6, <1>7, <1>8, <1>9, <1>10, <1>11
  DEF Next, RunJob, RunClient, RunBlockingPool, RunWorker, RunCollector, ServeCommand,
      SendCommand, Restart, vars, storeVars

-----------------------------------------------------------------------------
(* The life of a chunk row under every failure, transactions that outlive
   their job included.  Whoever slices nothing keeps ChunkInv. *)
LEMMA NamesStayFresh ==
  ASSUME ChunkInv, NoNewChunks, gc'.batch \subseteq gc.batch \cup deleted,
         detached' \subseteq detached,
         \A q \in Requests : Unsliced(q)' \subseteq Unsliced(q)
  PROVE  DeletedForGood' /\ FreshChunks' /\ LastSlicing'
<1>1. DeletedForGood' /\ FreshChunks'
  BY ChunksKept DEF ChunkInv
<1>2. (active \cup deleted \cup gc.batch)' \subseteq active \cup deleted \cup gc.batch
  BY DEF NoNewChunks
<1>3. ASSUME NEW t \in detached', t.op = "slice"
      PROVE  Unsliced(t.by)' = {}
  <2>1. t \in detached /\ t.by \in Requests /\ Unsliced(t.by) = {}
    BY <1>3 DEF ChunkInv, LastSlicing, ClaimInv, TypeInv, TypeOK, RequestTypeOK, Tx
  <2> QED
    BY <2>1
<1> QED
  BY <1>1, <1>2, <1>3 DEF ChunkInv, LastSlicing

(* A slicing, of a job or left behind, gives the rows it inserts a name that
   no row has, and nobody else will use. *)
LEMMA SlicingNamesFresh ==
  ASSUME ChunkInv, NEW f \in Files, NEW v, NEW r \in Requests, ReplaceChunks(f, v, r),
         gc' = gc,
         \A c \in active \cup deleted \cup gc.batch : c.file # f \/ c.by # r,
         \A q \in Requests : Unsliced(q)' \subseteq Unsliced(q), f \notin Unsliced(r)',
         \A t \in detached' :
           t \in detached /\ (t.op = "slice" => t.file # f \/ t.by # r)
  PROVE  DeletedForGood' /\ FreshChunks' /\ LastSlicing'
<1> DEFINE new == SlicesOf(f, v, r)
<1>1. /\ active' = (active \ ActiveOf(f)) \cup new
      /\ deleted' = deleted \cup ActiveOf(f)
      /\ \A c \in new : c.file = f /\ c.by = r
  BY SlicesAreOwn DEF ReplaceChunks
<1>2. /\ DeletedForGood /\ FreshChunks /\ LastSlicing
      /\ active \cup deleted \cup gc.batch \subseteq Chunk /\ detached \subseteq Tx
  BY DEF ChunkInv, ClaimInv, TypeInv, TypeOK, StoreTypeOK, TablesTypeOK, GcTypeOK,
         RequestTypeOK
<1> HIDE DEF new
<1>3. DeletedForGood'
  BY <1>1, <1>2 DEF DeletedForGood, ActiveOf
<1>4. ASSUME NEW c \in (active \cup deleted \cup gc.batch)'
      PROVE  c \in new \/ c \in active \cup deleted \cup gc.batch
  BY <1>1 DEF ActiveOf
<1>5. ASSUME NEW c \in (active \cup deleted \cup gc.batch)'
      PROVE  c.file \notin Unsliced(c.by)'
  <2>1. CASE c \in new
    BY <1>1, <2>1
  <2>2. CASE c \in active \cup deleted \cup gc.batch
    BY <1>2, <2>2 DEF FreshChunks, Chunk
  <2> QED
    BY <1>4, <1>5, <2>1, <2>2
<1>6. ASSUME NEW t \in detached', t.op = "slice"
      PROVE  /\ Unsliced(t.by)' = {}
             /\ \A u \in detached' : u.op = "slice" /\ u.by = t.by => u = t
             /\ \A c \in (active \cup deleted \cup gc.batch)' : c.file # t.file \/ c.by # t.by
  <2>1. t \in detached /\ t.by \in Requests /\ (t.file # f \/ t.by # r)
    BY <1>2, <1>6 DEF Tx
  <2>2. Unsliced(t.by)' = {} /\ \A u \in detached' : u.op = "slice" /\ u.by = t.by => u = t
    BY <1>2, <1>6, <2>1 DEF LastSlicing
  <2>3. ASSUME NEW c \in (active \cup deleted \cup gc.batch)'
        PROVE  c.file # t.file \/ c.by # t.by
    <3>1. CASE c \in new
      BY <1>1, <2>1, <3>1
    <3>2. CASE c \in active \cup deleted \cup gc.batch
      BY <1>2, <1>6, <2>1, <3>2 DEF LastSlicing
    <3> QED
      BY <1>4, <2>3, <3>1, <3>2
  <2> QED
    BY <2>2, <2>3
<1> QED
  BY <1>3, <1>5, <1>6 DEF FreshChunks, LastSlicing

(* A step of a job that slices nothing writes no new chunk row, and has no
   more to slice than before. *)
LEMMA JobInsertsNothing ==
  ASSUME ClaimInv, NEW r \in Requests, JobStep(r), ~Slice(r)
  PROVE  NoNewChunks /\ Unsliced(r)' \subseteq Unsliced(r)
<1> DEFINE Goal == NoNewChunks /\ Unsliced(r)' \subseteq Unsliced(r)
<1>1. /\ req \in [Requests -> Job] /\ req[r] \in Job /\ InPlace(req[r])
      /\ None \notin Files
  BY StoreAssumption DEF ClaimInv, TypeInv, TypeOK, RequestTypeOK, JobPlace
<1>2. UNCHANGED <<active, deleted>> => NoNewChunks
  BY DEF NoNewChunks
<1>3. NoWrite => NoNewChunks
  BY <1>2 DEF NoWrite, storeVars, chunkVars
<1>4. ASSUME NEW f, NEW new, NEW bump, SetFileStatus(f, new, bump) PROVE NoNewChunks
  BY <1>2, <1>4 DEF SetFileStatus, chunkVars
<1>5. req'[r].pc \notin Preparing \cup {"new"} => Unsliced(r)' = {}
  BY DEF Unsliced, At
<1>6. ASSUME Finish(r) \/ AbortPrepare(r) PROVE Unsliced(r)' = {}
  <2>1. Finish(r) => req'[r].pc = "done"
    BY <1>1 DEF Finish, Become, Job
  <2>2. AbortPrepare(r) => req'[r].pc = "recover_failed"
    BY <1>1 DEF AbortPrepare, Become, Job
  <2> QED
    BY <1>5, <1>6, <2>1, <2>2 DEF Preparing
<1>7. ASSUME NEW f \in req[r].todo, SkipInFlight(r, f) PROVE Goal
  BY <1>1, <1>3, <1>7 DEF SkipInFlight, Become, At, Unsliced, Preparing, Job
<1>8. ASSUME NEW f \in req[r].todo, TakeClaim(r, f) PROVE Goal
  BY <1>1, <1>3, <1>8 DEF TakeClaim, Become, At, Unsliced, Preparing, Job
<1>9. ASSUME NEW f \in req[r].todo, DropCancelled(r, f) PROVE Goal
  <2>1. NoNewChunks
    BY <1>3, <1>9 DEF DropCancelled, DropChunksOf, NoNewChunks
  <2>2. req'[r].pc = "drop"
    BY <1>1, <1>9 DEF DropCancelled, Become, At, Job
  <2> QED
    BY <1>5, <2>1, <2>2 DEF Preparing
<1>10. ASSUME NEW f \in req[r].todo, Confirm(r, f) PROVE Goal
  <2>1. NoNewChunks
    BY <1>2, <1>10 DEF Confirm, MarkIndexed, MarkReembedded, chunkVars
  <2>2. req'[r].pc = "confirm"
    BY <1>1, <1>10 DEF Confirm, Become, At, Job
  <2> QED
    BY <1>5, <2>1, <2>2 DEF Preparing
<1>11. ASSUME NEW f \in req[r].todo, RecoverOne(r, f) PROVE Goal
  <2>1. NoNewChunks
    BY <1>3, <1>4, <1>11 DEF RecoverOne
  <2>2. req'[r].pc \in {"recover_failed", "recover_cancelled"}
    BY <1>1, <1>11 DEF RecoverOne, Become, At, Job
  <2> QED
    BY <1>5, <2>1, <2>2 DEF Preparing
<1>12. CASE SkipFile(r)
  BY <1>1, <1>3, <1>12 DEF SkipFile, Become, At, Unsliced, Preparing, Job
<1>13. CASE NeedsWork(r)
  BY <1>1, <1>3, <1>13 DEF NeedsWork, Become, At, Unsliced, Preparing, Job
<1>14. CASE RebuildSymbols(r)
  BY <1>1, <1>2, <1>14 DEF RebuildSymbols, ReplaceSymbols, Become, At, Unsliced, Preparing, Job
<1>15. CASE CheckOrMarkFails(r) \/ DocumentFails(r)
  BY <1>3, <1>6, <1>15 DEF CheckOrMarkFails, DocumentFails
<1>16. CASE Mark(r)
  <2>1. NoNewChunks
    BY <1>2, <1>16 DEF Mark, MarkIndexing, chunkVars
  <2> QED
    BY <1>1, <1>16, <2>1 DEF Mark, Become, At, Unsliced, Preparing, Job
<1>17. CASE MarkStored(r)
  <2>1. NoNewChunks
    BY <1>4, <1>17 DEF MarkStored
  <2>2. CASE CanMove(req[r].cur, "indexing")
    BY <1>1, <1>17, <2>1, <2>2 DEF MarkStored, Become, At, Unsliced, Preparing, Job
  <2> QED
    BY <1>6, <1>17, <2>1, <2>2 DEF MarkStored
<1>18. CASE SliceDocument(r)
  BY <1>1, <1>3, <1>18 DEF SliceDocument, Become, At, Unsliced, Preparing, Job
<1>19. CASE ReadStored(r)
  BY <1>1, <1>3, <1>19 DEF ReadStored, Become, At, Unsliced, Preparing, Job
<1>20. CASE RecoverCurrent(r)
  BY <1>3, <1>4, <1>6, <1>20 DEF RecoverCurrent
<1>21. CASE SymbolsDone(r) \/ ConfirmFails(r) \/ Return(r)
  BY <1>3, <1>6, <1>21 DEF SymbolsDone, ConfirmFails, Return
<1>22. ASSUME NEW S \in (SUBSET req[r].pending) \ {{}}, EmbedBatch(r, S) PROVE Goal
  <2>1. NoNewChunks
    BY <1>2, <1>22 DEF EmbedBatch, Upsert, chunkVars
  <2>2. req'[r].pc = "embed"
    BY <1>1, <1>22 DEF EmbedBatch, Become, At, Job
  <2> QED
    BY <1>5, <2>1, <2>2 DEF Preparing
<1>23. CASE \/ SliceFails(r) \/ SliceCancelled(r) \/ Reconcile(r) \/ BeginEmbed(r)
            \/ EmbedFails(r) \/ BeginConfirm(r)
  <2>1. NoNewChunks
    BY <1>3, <1>23
    DEF SliceFails, SliceCancelled, Reconcile, BeginEmbed, EmbedFails, BeginConfirm
  <2>2. CASE Reconcile(r)
    <3>1. PICK gone : Become(r, [req[r] EXCEPT !.pc = "drop", !.todo = gone])
      BY <2>2 DEF Reconcile
    <3>2. req'[r].pc = "drop"
      BY <1>1, <3>1 DEF Become, Job
    <3> QED
      BY <1>5, <2>1, <3>2 DEF Preparing
  <2>3. CASE SliceFails(r) \/ SliceCancelled(r) \/ BeginEmbed(r) \/ BeginConfirm(r)
    <3>1. SliceFails(r) => req'[r].pc = "slice_failed"
      BY <1>1 DEF SliceFails, Become, Job
    <3>2. SliceCancelled(r) => req'[r].pc = "slice_cancelled"
      BY <1>1 DEF SliceCancelled, Become, Job
    <3>3. BeginEmbed(r) => req'[r].pc = "embed"
      BY <1>1 DEF BeginEmbed, Become, Job
    <3>4. BeginConfirm(r) => req'[r].pc = "confirm"
      BY <1>1 DEF BeginConfirm, Become, Job
    <3> QED
      BY <1>5, <2>1, <2>3, <3>1, <3>2, <3>3, <3>4 DEF Preparing
  <2>4. CASE EmbedFails(r)
    <3>1. PICK pc \in {"recover_cancelled", "recover_failed"} :
            Become(r, [req[r] EXCEPT !.pc = pc, !.todo = req[r].prepared])
      BY <2>4 DEF EmbedFails
    <3>2. req'[r].pc = pc
      BY <1>1, <3>1 DEF Become, Job
    <3> QED
      BY <1>5, <2>1, <3>1, <3>2 DEF Preparing
  <2> QED
    BY <1>23, <2>2, <2>3, <2>4
<1> QED
  BY <1>7, <1>8, <1>9, <1>10, <1>11, <1>12, <1>13, <1>14, <1>15, <1>16, <1>17,
     <1>18, <1>19, <1>20, <1>21, <1>22, <1>23 DEF JobStep

(* A job slices under a name of its own. *)
LEMMA JobNamesFresh ==
  ASSUME ChunkInv, NEW r \in Requests, RunJob(r)
  PROVE  DeletedForGood' /\ FreshChunks' /\ LastSlicing'
<1>1. /\ JobStep(r) /\ gc' = gc /\ detached' = detached
      /\ ClaimInv /\ FreshChunks /\ LastSlicing
      /\ req \in [Requests -> Job] /\ req[r] \in Job /\ InPlace(req[r])
      /\ JobShape /\ None \notin Files
  BY StoreAssumption
  DEF ChunkInv, ClaimInv, TypeInv, TypeOK, RequestTypeOK, JobPlace, RunJob, JobStep
<1>2. \A q \in Requests : q # r => Unsliced(q)' = Unsliced(q)
  BY <1>1, JobStepClaims DEF Unsliced, At
<1>3. CASE ~Slice(r)
  BY <1>1, <1>2, <1>3, JobInsertsNothing, NamesStayFresh
<1>4. CASE Slice(r)
  <2> DEFINE f == req[r].cur
  <2>1. /\ f \in Files /\ ReplaceChunks(f, req[r].text, r) /\ f \in Unsliced(r)
        /\ req[r].pc = "slice" /\ ~req[r].token /\ f \notin req[r].todo
    BY <1>1, <1>4
    DEF Slice, At, InPlace, OnOneFile, Job, JobShape, Unsliced, Preparing
  <2>2. /\ req'[r].pc = "pick" /\ req'[r].cur = None /\ req'[r].todo = req[r].todo
        /\ req'[r].token = req[r].token
    BY <1>1, <1>4 DEF Slice, Become, Job
  <2>3. Unsliced(r)' \subseteq Unsliced(r) /\ f \notin Unsliced(r)'
    BY <2>1, <2>2 DEF Unsliced, At, Preparing
  <2>4. \A c \in active \cup deleted \cup gc.batch : c.file # f \/ c.by # r
    BY <1>1, <2>1 DEF FreshChunks
  <2>5. \A t \in detached : t.op = "slice" => t.by # r
    BY <1>1, <2>1 DEF LastSlicing
  <2> QED
    BY <1>1, <1>2, <2>1, <2>3, <2>4, <2>5, SlicingNamesFresh
<1> QED
  BY <1>3, <1>4

(* What a job leaves behind it was waiting for. *)
LEMMA SlicingAwaited ==
  ASSUME NEW r, NEW t \in Awaiting(r), t.op = "slice"
  PROVE  At(r, "slice") /\ t.file = req[r].cur /\ t.by = r
BY DEF Awaiting, At

(* A job that leaves a slicing behind slices nothing any more. *)
LEMMA ClientNamesFresh ==
  ASSUME ChunkInv, NEW r \in Requests, RunClient(r)
  PROVE  DeletedForGood' /\ FreshChunks' /\ LastSlicing'
<1>1. /\ ClientStep(r) /\ gc' = gc /\ ClaimInv /\ DeletedForGood
      /\ FreshChunks /\ LastSlicing
      /\ req \in [Requests -> Job] /\ req[r] \in Job /\ InPlace(req[r])
      /\ None \notin Files /\ detached \subseteq Tx
      /\ active \cup deleted \cup gc.batch \subseteq Chunk
  BY StoreAssumption
  DEF ChunkInv, ClaimInv, TypeInv, TypeOK, RequestTypeOK, JobPlace, RunClient,
      StoreTypeOK, TablesTypeOK, GcTypeOK
<1>2. UNCHANGED <<active, deleted>>
  BY <1>1 DEF ClientStep, Start, Disconnect, CancelStream, NoWrite, storeVars, chunkVars
<1>3. NoNewChunks /\ \A q \in Requests : q # r => Unsliced(q)' = Unsliced(q)
  BY <1>1, <1>2, ClientStepClaims DEF Unsliced, At, NoNewChunks
<1>4. Unsliced(r)' \subseteq Unsliced(r)
  <2>1. ASSUME NEW m \in Modes, NEW v \in Versions, NEW F \in (SUBSET Files) \ {{}},
               Start(r, m, v, F)
        PROVE  Unsliced(r)' \subseteq Unsliced(r)
    <3>1. /\ At(r, "new") /\ req'[r].cur = None /\ req'[r].todo \subseteq Files
          /\ req'[r].pc = "pick"
      BY <1>1, <2>1 DEF Start, Become, At, InPlace, OnOneFile, Job
    <3> QED
      BY <3>1 DEF Unsliced, At, Preparing
  <2>2. CASE Disconnect(r)
    <3>1. req'[r].pc = "done"
      BY <1>1, <2>2 DEF Disconnect, Finish, Become
    <3> QED
      BY <3>1 DEF Unsliced, At, Preparing
  <2>3. CASE CancelStream(r)
    <3>1. req'[r].token = TRUE /\ req'[r].pc # "new"
      BY <1>1, <2>3 DEF CancelStream, Become, At, Job
    <3> QED
      BY <3>1 DEF Unsliced, At
  <2> QED
    BY <1>1, <2>1, <2>2, <2>3 DEF ClientStep
<1>5. CASE detached' \subseteq detached
  BY <1>1, <1>3, <1>4, <1>5, NamesStayFresh
<1>6. ASSUME NEW t \in Awaiting(r), detached' = detached \cup {t},
             Disconnect(r) \/ CancelStream(r)
      PROVE  LastSlicing'
  <2>1. /\ ~req[r].token
        /\ req'[r].pc = "done" \/ (req'[r].token = TRUE /\ req'[r].pc # "new")
    <3>1. CASE Disconnect(r)
      BY <1>1, <3>1 DEF Disconnect, Finish, Become, Job
    <3>2. CASE CancelStream(r)
      BY <1>1, <3>2 DEF CancelStream, Become, At, Job
    <3> QED
      BY <1>6, <3>1, <3>2
  <2>2. Unsliced(r)' = {}
    BY <2>1 DEF Unsliced, At, Preparing
  <2>3. t.op = "slice" =>
          t.file \in Unsliced(r) /\ t.by = r /\ t.file = req[r].cur
    BY <1>1, <1>6, <2>1, SlicingAwaited DEF Unsliced, At, InPlace, OnOneFile, Preparing, Job
  <2>4. ASSUME NEW u \in detached, u.op = "slice"
        PROVE  Unsliced(u.by)' = {} /\ (t.op = "slice" => u.by # r)
    <3>1. Unsliced(u.by) = {} /\ u.by \in Requests
      BY <1>1, <2>4 DEF LastSlicing, Tx
    <3> QED
      BY <1>3, <1>4, <2>3, <3>1
  <2>5. ASSUME NEW u \in detached', u.op = "slice"
        PROVE  /\ Unsliced(u.by)' = {}
               /\ \A w \in detached' : w.op = "slice" /\ w.by = u.by => w = u
               /\ \A c \in (active \cup deleted \cup gc.batch)' : c.file # u.file \/ c.by # u.by
    <3>1. CASE u \in detached
      BY <1>1, <1>2, <1>6, <2>3, <2>4, <2>5, <3>1 DEF LastSlicing
    <3>2. CASE u = t
      BY <1>1, <1>2, <1>6, <2>2, <2>3, <2>4, <2>5, <3>2 DEF FreshChunks
    <3> QED
      BY <1>6, <2>5, <3>1, <3>2
  <2> QED
    BY <2>5 DEF LastSlicing
<1>7. DeletedForGood' /\ FreshChunks'
  BY <1>1, <1>3, <1>4, ChunksKept
<1> QED
  BY <1>1, <1>5, <1>6, <1>7 DEF ClientStep, Disconnect, CancelStream, LeaveBehind

(* A slicing left behind writes under the name it was to be given. *)
LEMMA DetachedNamesFresh ==
  ASSUME ChunkInv, RunBlockingPool
  PROVE  DeletedForGood' /\ FreshChunks' /\ LastSlicing'
<1>1. PICK t \in detached : RunDetached(t)
  BY DEF RunBlockingPool
<1>2. /\ gc' = gc /\ detached' = detached \ {t} /\ LastSlicing
      /\ t.op \in TxOps /\ t.file \in Files /\ t.by \in Requests
      /\ \A q \in Requests : Unsliced(q)' = Unsliced(q)
  BY <1>1
  DEF RunBlockingPool, RunDetached, ChunkInv, ClaimInv, TypeInv, TypeOK, RequestTypeOK,
      Tx, Unsliced, At
<1>3. NoNewChunks => DeletedForGood' /\ FreshChunks' /\ LastSlicing'
  BY <1>2, NamesStayFresh
<1>4. UNCHANGED <<active, deleted>> => NoNewChunks
  BY DEF NoNewChunks
<1>5. CASE t.op = "slice" /\ CanInsert(t.file, t.text)
  <2>1. ReplaceChunks(t.file, t.text, t.by)
    BY <1>1, <1>5 DEF RunDetached
  <2>2. /\ Unsliced(t.by) = {}
        /\ \A u \in detached' : u.op = "slice" => u.by # t.by
        /\ \A c \in active \cup deleted \cup gc.batch : c.file # t.file \/ c.by # t.by
    BY <1>2, <1>5 DEF LastSlicing
  <2> QED
    BY <1>2, <2>1, <2>2, SlicingNamesFresh
<1>6. CASE t.op = "slice" /\ ~CanInsert(t.file, t.text)
  <2>1. NoWrite
    BY <1>1, <1>6 DEF RunDetached
  <2> QED
    BY <1>3, <1>4, <2>1 DEF NoWrite, storeVars, chunkVars
<1>7. CASE t.op = "drop"
  <2>1. DropChunksOf({t.file})
    BY <1>1, <1>7 DEF RunDetached
  <2> QED
    BY <1>3, <2>1 DEF DropChunksOf, NoNewChunks
<1>8. CASE t.op \notin {"slice", "drop"}
  <2>1. UNCHANGED <<active, deleted>>
    BY <1>1, <1>2, <1>8
    DEF RunDetached, TxOps, MarkIndexing, MarkIndexed, MarkReembedded, SetFileStatus,
        ReplaceSymbols, NoWrite, storeVars, chunkVars
  <2> QED
    BY <1>3, <1>4, <2>1
<1> QED
  BY <1>5, <1>6, <1>7, <1>8

(* The worker, the collector and the endpoints insert no chunk row. *)
LEMMA OthersInsertNothing ==
  ASSUME ClaimInv,
         \/ RunWorker \/ RunCollector
         \/ \E c \in Commands : ServeCommand(c) \/ SendCommand(c)
  PROVE  NoNewChunks /\ gc'.batch \subseteq gc.batch \cup deleted
<1> DEFINE Goal == NoNewChunks /\ gc'.batch \subseteq gc.batch \cup deleted
<1>1. UNCHANGED <<active, deleted>> => NoNewChunks
  BY DEF NoNewChunks
<1>2. NoWrite => NoNewChunks
  BY <1>1 DEF NoWrite, storeVars, chunkVars
<1>3. GcTypeOK
  BY DEF ClaimInv, TypeInv, TypeOK
<1>4. CASE RunWorker
  <2>1. UNCHANGED <<active, deleted, gc>>
    BY <1>4
    DEF RunWorker, WorkerStep, Sweep, WorkerSkipsClaimed, WorkerTakesClaim, Recheck,
        WorkerMarks, WorkerReads, WorkerEmbeds, WorkerEmbedFails, WorkerConfirms,
        WorkerRecordsFailure, WorkerTxFails, NoWrite, storeVars, chunkVars,
        SetFileStatus, MarkReembedded, Upsert
  <2> QED
    BY <1>1, <2>1
<1>5. CASE RunCollector
  <2>1. CASE StartPass(TRUE) \/ StartPass(FALSE) \/ PassEnds
    BY <1>2, <2>1 DEF StartPass, PassEnds, PassDone
  <2>2. CASE DeleteVectors
    BY <1>1, <1>3, <2>2 DEF DeleteVectors, GcGoto, GcTypeOK, chunkVars
  <2>3. CASE PurgeRows
    BY <1>3, <2>3 DEF PurgeRows, GcGoto, GcTypeOK, NoNewChunks
  <2>4. CASE PruneFiles
    BY <1>2, <2>4 DEF PruneFiles, PassDone, NoWrite, storeVars, chunkVars, NoNewChunks
  <2>5. CASE SelectDeleted
    BY <1>2, <1>3, <2>5 DEF SelectDeleted, GcGoto, GcTypeOK
  <2>6. CASE SweepFails
    BY <1>2, <1>3, <2>6 DEF SweepFails, GcGoto, GcTypeOK
  <2> QED
    BY <1>5, <2>1, <2>2, <2>3, <2>4, <2>5, <2>6 DEF RunCollector, GcStep
<1>6. ASSUME NEW c \in Commands, ServeCommand(c) \/ SendCommand(c) PROVE Goal
  <2>1. gc' = gc
    BY <1>6 DEF ServeCommand, SendCommand
  <2>2. ASSUME NEW B, ApplyCancel(c, B) \/ ApplyDelete(c, B) PROVE NoNewChunks
    BY <2>2 DEF ApplyCancel, ApplyDelete, Applied, DropChunksOf, NoNewChunks
  <2>3. ASSUME NEW P, PostRetry(P) PROVE NoNewChunks
    BY <1>1, <2>3 DEF PostRetry, chunkVars
  <2> QED
    BY <1>2, <1>6, <2>1, <2>2, <2>3
    DEF ServeCommand, SendCommand, CommandServed, CommandSent, CommandStops,
        SelectCancel, SelectDelete, Selects
<1> QED
  BY <1>4, <1>5, <1>6

(* After a crash nothing is left behind. *)
LEMMA RestartNamesFresh ==
  ASSUME ChunkInv, Restart
  PROVE  DeletedForGood' /\ FreshChunks' /\ LastSlicing'
<1>1. NoNewChunks /\ detached' = {} /\ gc'.batch = {}
  BY DEF Restart, PassDone, NoWrite, storeVars, chunkVars, NoNewChunks
<1>2. ASSUME NEW q \in Requests PROVE Unsliced(q)' \subseteq Unsliced(q)
  <2>1. \/ At(q, "new") /\ req'[q] = req[q]
        \/ req'[q].pc = "done"
    BY DEF Restart
  <2> QED
    BY <2>1 DEF Unsliced, At, Preparing
<1> QED
  BY <1>1, <1>2, NamesStayFresh

(* No row is there, and none is about to be collected. *)
LEMMA ChunkInit == Init => ChunkInv
BY ClaimInit
DEF Init, StoreInit, RequestInit, GcInit, ChunkInv, DeletedForGood, FreshChunks, LastSlicing

(* The inductive invariant of chunk rows. *)
LEMMA ChunkNext == ASSUME ChunkInv, [Next]_vars PROVE ChunkInv'
<1> DEFINE Kept == DeletedForGood' /\ FreshChunks' /\ LastSlicing'
<1>1. ClaimInv /\ ClaimInv'
  BY ClaimNext DEF ChunkInv
<1>2. UNCHANGED req => \A q \in Requests : Unsliced(q)' \subseteq Unsliced(q)
  BY DEF Unsliced, At
<1>3. ASSUME \/ RunWorker \/ RunCollector
             \/ \E c \in Commands : ServeCommand(c) \/ SendCommand(c)
      PROVE  Kept
  <2>1. UNCHANGED <<req, detached>>
    BY <1>3 DEF RunWorker, RunCollector, ServeCommand, SendCommand, requestVars
  <2> QED
    BY <1>1, <1>2, <1>3, <2>1, OthersInsertNothing, NamesStayFresh
<1>4. ASSUME UNCHANGED vars PROVE Kept
  <2>1. NoNewChunks /\ UNCHANGED <<req, detached, gc>>
    BY <1>4 DEF vars, storeVars, chunkVars, requestVars, NoNewChunks
  <2> QED
    BY <1>2, <2>1, NamesStayFresh
<1>5. Kept
  BY <1>3, <1>4, JobNamesFresh, ClientNamesFresh, DetachedNamesFresh, RestartNamesFresh
  DEF Next
<1> QED
  BY <1>1, <1>5 DEF ChunkInv

(* The collector never takes the point of a chunk that is active, although it
   selects a batch in one step and deletes its points in a later one, and
   whatever a transaction nobody waits for any more inserts in between. *)
THEOREM CollectorIsSafe == Spec => CollectorSparesActive
<1>1. ASSUME ChunkInv, [Next]_vars
      PROVE  \A p \in vectors \ vectors' : p[2] \notin active
  <2>1. CASE DeleteVectors
    BY <1>1, <2>1 DEF ChunkInv, DeletedForGood, DeleteVectors
  <2>2. CASE ~DeleteVectors
    BY <1>1, <2>2, OnlyCollectorRemoves DEF ChunkInv, ClaimInv
  <2> QED
    BY <2>1, <2>2
<1> QED
  BY <1>1, ChunkInit, ChunkNext, PTL DEF Spec, CollectorSparesActive

=============================================================================
