----------------------------- MODULE ContentProofs -----------------------------
(***************************************************************************)
(* What an 'indexed' row says about its chunks is true: they are those of  *)
(* the text the row names, all of them, their symbols come from that text, *)
(* and every point of the collection belongs to one of them.  With that,   *)
(* each file of the index goes through its lifecycle.                      *)
(***************************************************************************)
EXTENDS StatusProofs, PublishingProofs

-----------------------------------------------------------------------------
(* What leaves the chunks of a file with their text. *)
LEMMA WholeKept ==
  ASSUME NEW f \in Files, Whole(f), sha'[f] = sha[f], ActiveOf(f)' = ActiveOf(f),
         status[f] = "absent" => status'[f] = "absent"
  PROVE  Whole(f)'
<1>1. Fresh(f)'
  BY DEF Whole, Fresh
<1>2. Complete(f) => Complete(f)'
  BY Zenon DEF Complete
<1> QED
  BY <1>1, <1>2 DEF Whole

(* A file without chunks is whole where somebody may have taken them away. *)
LEMMA WholeEmptied ==
  ASSUME NEW f \in Files, ActiveOf(f)' = {}, NoStops => status'[f] = "absent"
  PROVE  Whole(f)'
BY DEF Whole, Fresh

(* The slices of a text are numbered without gaps. *)
LEMMA SliceNumbers ==
  ASSUME NEW f, NEW v, NEW r
  PROVE  {c.ix : c \in SlicesOf(f, v, r)} = 1 .. Pieces[f, v]
<1> DEFINE slice(i) ==
      [file |-> f, text |-> v, tok |-> TokenizerOf[model], by |-> r, ix |-> i]
<1>1. SlicesOf(f, v, r) = {slice(i) : i \in 1 .. Pieces[f, v]}
  BY Zenon DEF SlicesOf
<1>2. \A i : slice(i).ix = i
  OBVIOUS
<1> HIDE DEF slice
<1>3. {c.ix : c \in {slice(i) : i \in 1 .. Pieces[f, v]}} = 1 .. Pieces[f, v]
  BY <1>2, Zenon
<1> QED
  BY <1>1, <1>3, Zenon

(* A file is whole when it has just been sliced. *)
LEMMA WholeSliced ==
  ASSUME NEW f \in Files, NEW v, NEW r, Resliced(f, v, r),
         sha[f] = v \/ status[f] = "absent"
  PROVE  Whole(f)'
<1>1. /\ ActiveOf(f)' = SlicesOf(f, v, r) /\ sha'[f] = sha[f] /\ status'[f] = status[f]
      /\ \A c \in SlicesOf(f, v, r) : c.text = v
      /\ status[f] = "absent" => SlicesOf(f, v, r) = {}
  BY SliceFiles, NoSlices DEF Resliced, CanInsert
<1>2. Fresh(f)'
  BY <1>1 DEF Fresh
<1>3. ASSUME sha[f] = v PROVE Complete(f)'
  <2>1. v = sha'[f]
    BY <1>1, <1>3
  <2>2. {c.ix : c \in SlicesOf(f, v, r)} = 1 .. Pieces[f, v]
    BY SliceNumbers, Zenon
  <2>3. {c.ix : c \in ActiveOf(f)'} = 1 .. Pieces[f, v]
    BY <1>1, <2>2, Zenon
  <2>4. 1 .. Pieces[f, v] = 1 .. Pieces[f, sha'[f]]
    BY <2>1, Zenon
  <2> QED
    BY <2>3, <2>4, Zenon DEF Complete
<1> QED
  BY <1>1, <1>2, <1>3 DEF Whole

-----------------------------------------------------------------------------
(* The conjuncts of ContentInv, for one job and one file. *)
HashesOf(r) ==
  req[r].mode = "full" =>
    \A x \in Stamped(r) :
      /\ sha[x] = req[r].text \/ status[x] = "absent"
      /\ NoStops /\ req[r].pc \in Preparing => status[x] = "indexing"

Sound(f) ==
  \/ Whole(f) \/ status[f] = "cancelled"
  \/ status[f] = "indexing" /\ \E r \in Requests : f \in Torn(r)

(* How the bookkeeping of a job goes on: it marks only the file it has in hand,
   its re-check leads it there, and what it drops it has found gone. *)
GoesOn(r) ==
  /\ \/ Stamped(r)' = {} \/ req'[r].mode # "full"
     \/ /\ req'[r].mode = req[r].mode /\ req'[r].text = req[r].text
        /\ Stamped(r)' \subseteq Stamped(r) \cup {x \in {req[r].cur} : Mark(r)}
        /\ req'[r].pc \in Preparing => req[r].pc \in Preparing
  /\ req'[r].pc = "mark" => NeedsWork(r) /\ req'[r].mode = req[r].mode
                            /\ req'[r].cur = req[r].cur
  /\ req'[r].pc = "drop" =>
       Reconcile(r) \/ (At(r, "drop") /\ req'[r].todo \subseteq req[r].todo)

(* The steps that keep the text and the files of a job. *)
LEMMA StaysOn ==
  ASSUME NEW r \in Requests, req'[r].pc \notin {"mark", "drop"},
         req'[r].mode = req[r].mode, req'[r].text = req[r].text,
         Stamped(r)' \subseteq Stamped(r),
         req'[r].pc \in Preparing => req[r].pc \in Preparing
  PROVE  GoesOn(r)
BY DEF GoesOn

(* Every step of a job moves it on along its places. *)
LEMMA JobStepGoesOn ==
  ASSUME TypeInv, NEW r \in Requests, JobStep(r)
  PROVE  GoesOn(r)
<1>1. /\ req \in [Requests -> Job] /\ req[r] \in Job /\ InPlace(req[r])
      /\ None \notin Files
  BY StoreAssumption DEF TypeInv, TypeOK, RequestTypeOK, JobPlace
<1>2. Finish(r) => GoesOn(r)
  <2>1. Finish(r) => /\ req'[r].pc = "done" /\ req'[r].prepared = {}
    BY <1>1 DEF Finish, Become, Job
  <2> QED
    BY <2>1 DEF GoesOn, Stamped
<1>3. AbortPrepare(r) => GoesOn(r)
  <2>1. AbortPrepare(r) =>
          /\ req'[r].pc = "recover_failed" /\ req'[r].mode = req[r].mode
          /\ req'[r].text = req[r].text /\ req'[r].prepared = req[r].prepared
    BY <1>1 DEF AbortPrepare, Become, Job
  <2> QED
    BY <2>1, StaysOn DEF Stamped, Preparing
<1>4. ASSUME req'[r].mode # "full", req'[r].pc \notin {"mark", "drop"}
      PROVE  GoesOn(r)
  BY <1>4 DEF GoesOn
<1>5. ASSUME NEW f \in req[r].todo, SkipInFlight(r, f) PROVE GoesOn(r)
  BY <1>1, <1>5, StaysOn DEF SkipInFlight, At, Become, Job, Stamped, Preparing
<1>6. ASSUME NEW f \in req[r].todo, TakeClaim(r, f) PROVE GoesOn(r)
  BY <1>1, <1>6, StaysOn DEF TakeClaim, At, Become, Job, Stamped, Preparing
<1>7. ASSUME NEW f \in req[r].todo, DropCancelled(r, f) PROVE GoesOn(r)
  BY <1>1, <1>7 DEF DropCancelled, At, Become, Job, Stamped, Preparing, GoesOn
<1>8. ASSUME NEW f \in req[r].todo, Confirm(r, f) PROVE GoesOn(r)
  BY <1>1, <1>8, StaysOn DEF Confirm, At, Become, Job, Stamped, Preparing
<1>9. ASSUME NEW f \in req[r].todo, RecoverOne(r, f) PROVE GoesOn(r)
  <2>1. Become(r, [req[r] EXCEPT !.todo = @ \ {f}])
    BY <1>9 DEF RecoverOne
  <2>2. req[r].pc \in {"recover_failed", "recover_cancelled"}
    BY <1>9 DEF RecoverOne, At
  <2> QED
    BY <1>1, <2>1, <2>2, StaysOn DEF Become, Job, Stamped, Preparing
<1>10. CASE SkipFile(r)
  BY <1>1, <1>10, StaysOn DEF SkipFile, At, Become, Job, Stamped, Preparing
<1>11. CASE NeedsWork(r)
  BY <1>1, <1>11 DEF NeedsWork, At, Become, Job, Stamped, Preparing, GoesOn
<1>12. CASE RebuildSymbols(r)
  BY <1>1, <1>4, <1>12 DEF RebuildSymbols, ReplaceSymbols, At, Become, Job
<1>13. CASE CheckOrMarkFails(r) \/ DocumentFails(r) \/ RecoverCurrent(r)
             \/ SymbolsDone(r) \/ ConfirmFails(r) \/ Return(r)
  BY <1>2, <1>3, <1>13 DEF CheckOrMarkFails, DocumentFails, RecoverCurrent,
     SymbolsDone, ConfirmFails, Return
<1>14. CASE Mark(r)
  <2>1. /\ req'[r].pc \in {"document", "slice"} /\ req'[r].mode = req[r].mode
        /\ req'[r].text = req[r].text /\ req'[r].prepared = req[r].prepared
        /\ req'[r].cur = req[r].cur /\ req[r].pc = "mark"
    BY <1>1, <1>14 DEF Mark, At, Become, Job
  <2> QED
    BY <1>14, <2>1 DEF GoesOn, Stamped, Preparing
<1>15. CASE MarkStored(r)
  <2>1. CASE CanMove(req[r].cur, "indexing")
    BY <1>1, <1>4, <1>15, <2>1 DEF MarkStored, At, Become, Job
  <2>2. CASE ~CanMove(req[r].cur, "indexing")
    BY <1>3, <1>15, <2>2 DEF MarkStored
  <2> QED
    BY <2>1, <2>2
<1>16. CASE SliceDocument(r)
  BY <1>1, <1>16, StaysOn DEF SliceDocument, At, Become, Job, Stamped, Preparing
<1>17. CASE Slice(r)
  <2>1. /\ req'[r].pc = "pick" /\ req'[r].mode = req[r].mode
        /\ req'[r].text = req[r].text /\ req[r].pc = "slice"
        /\ req'[r].prepared = req[r].prepared \cup {req[r].cur}
    BY <1>1, <1>17 DEF Slice, At, Become, Job
  <2> QED
    BY <2>1, StaysOn DEF Stamped, Preparing
<1>18. CASE ReadStored(r)
  BY <1>1, <1>4, <1>18 DEF ReadStored, At, Become, Job
<1>19. CASE SliceFails(r) \/ SliceCancelled(r)
  <2>1. PICK pc \in {"slice_failed", "slice_cancelled"} :
          Become(r, [req[r] EXCEPT !.pc = pc])
    BY <1>19 DEF SliceFails, SliceCancelled
  <2> QED
    BY <1>1, <2>1, StaysOn DEF Become, Job, Stamped, Preparing
<1>20. CASE Reconcile(r)
  <2>1. PICK gone : Become(r, [req[r] EXCEPT !.pc = "drop", !.todo = gone])
    BY <1>20 DEF Reconcile
  <2>2. /\ req'[r].pc = "drop" /\ req'[r].mode = req[r].mode
        /\ req'[r].text = req[r].text /\ req'[r].prepared = req[r].prepared
    BY <1>1, <2>1 DEF Become, Job
  <2>3. Stamped(r)' \subseteq Stamped(r)
    BY <2>2 DEF Stamped
  <2> QED
    BY <1>20, <2>2, <2>3 DEF GoesOn, Preparing
<1>21. CASE BeginEmbed(r)
  BY <1>1, <1>21, StaysOn DEF BeginEmbed, At, Become, Job, Stamped, Preparing
<1>22. ASSUME NEW S, EmbedBatch(r, S) PROVE GoesOn(r)
  BY <1>1, <1>22, StaysOn DEF EmbedBatch, At, Become, Job, Stamped, Preparing
<1>23. CASE EmbedFails(r)
  <2>1. PICK pc \in {"recover_failed", "recover_cancelled"} :
          Become(r, [req[r] EXCEPT !.pc = pc, !.todo = req[r].prepared])
    BY <1>23 DEF EmbedFails
  <2> QED
    BY <1>1, <2>1, StaysOn DEF Become, Job, Stamped, Preparing
<1>24. CASE BeginConfirm(r)
  BY <1>1, <1>24, StaysOn DEF BeginConfirm, At, Become, Job, Stamped, Preparing
<1> QED
  BY <1>5, <1>6, <1>7, <1>8, <1>9, <1>10, <1>11, <1>12, <1>13, <1>14, <1>15, <1>16,
     <1>17, <1>18, <1>19, <1>20, <1>21, <1>22, <1>23, <1>24
  DEF JobStep

(* What ContentInv says of one job in the middle of its work. *)
LEMMA JobFacts ==
  ASSUME ContentInv, NEW r \in Requests
  PROVE  /\ ClaimInv /\ TypeInv /\ StoreTypeOK /\ OrderOf(r) /\ HashesOf(r)
         /\ req \in [Requests -> Job] /\ req[r] \in Job /\ InPlace(req[r])
         /\ Consistent(r, req[r], claim) /\ None \notin Files /\ r # None /\ r # Worker
         /\ NoStops /\ At(r, "drop") => req[r].todo = {}
         /\ \A f \in Files :
              At(r, "mark") /\ req[r].mode = "vectors" /\ req[r].cur = f => Whole(f)
BY ClaimInvIsConsistent, StoreAssumption
DEF ContentInv, OrderInv, JobOrder, OrderOf, JobHashes, HashesOf, NothingDropped,
    RepublishWhole, TypeInv, TypeOK, RequestTypeOK, JobPlace, Worker

(* Who has a file in hand, or has prepared it, holds its claim. *)
LEMMA TornIsHeld ==
  ASSUME ContentInv, NEW r \in Requests, NEW f \in Torn(r)
  PROVE  /\ f \in Files /\ claim[f] = r /\ f = req[r].cur /\ req[r].mode = "full"
         /\ req[r].pc \in {"document", "slice", "slice_cancelled"}
BY JobFacts DEF Torn, Job, InPlace, OnOneFile, Consistent, Held

(* The files a job has stamped are claimed by it. *)
LEMMA StampedIsHeld ==
  ASSUME ContentInv, NEW r \in Requests, NEW x \in Stamped(r)
  PROVE  x \in Files /\ claim[x] = r
BY JobFacts DEF Stamped, Job, InPlace, OnOneFile, Consistent, Held

(* What a job begins to tear it is going to slice, and it slices what it has
   torn, or finds it cancelled. *)
LEMMA TornEnds ==
  ASSUME ContentInv, Sliced, NEW r \in Requests, JobStep(r), NEW f \in Torn(r),
         status[f] = "indexing"
  PROVE  \/ Whole(f)' \/ status'[f] = "cancelled"
         \/ status'[f] = "indexing" /\ f \in Torn(r)'
<1>1. /\ ClaimInv /\ TypeInv /\ StoreTypeOK /\ OrderOf(r) /\ HashesOf(r)
      /\ req \in [Requests -> Job] /\ req[r] \in Job /\ InPlace(req[r])
  BY JobFacts
<1>2. /\ f \in Files /\ f = req[r].cur /\ req[r].mode = "full"
      /\ req[r].pc \in {"document", "slice", "slice_cancelled"}
  BY TornIsHeld
<1>3. NoWrite => status'[f] = "indexing"
  BY DEF NoWrite, storeVars, rowVars
<1>4. CASE SliceDocument(r)
  <2>1. /\ req'[r].pc = "slice" /\ req'[r].cur = f /\ req'[r].mode = "full"
    BY <1>1, <1>2, <1>4 DEF SliceDocument, Become, Job
  <2> QED
    BY <1>3, <1>4, <2>1 DEF SliceDocument, Torn
<1>5. CASE Slice(r)
  <2>1. Resliced(f, req[r].text, r) /\ At(r, "slice")
    BY <1>2, <1>5, SliceWritten DEF Slice
  <2>2. sha[f] = req[r].text
    BY <1>1, <1>2, <2>1 DEF HashesOf, Stamped, At
  <2> QED
    BY <1>2, <2>1, <2>2, WholeSliced
<1>6. CASE SliceCancelled(r)
  <2>1. /\ req'[r].pc = "slice_cancelled" /\ req'[r].cur = f /\ req'[r].mode = "full"
    BY <1>1, <1>2, <1>6 DEF SliceCancelled, Become, Job
  <2> QED
    BY <1>3, <1>6, <2>1 DEF SliceCancelled, Torn
<1>7. CASE RecoverCurrent(r)
  <2>1. SetFileStatus(f, "cancelled", FALSE)
    BY <1>2, <1>7 DEF RecoverCurrent, At, Sliced
  <2> QED
    BY <1>1, <1>2, <2>1, EndWritten DEF Ended
<1>8. ~SliceFails(r) /\ ~DocumentFails(r)
  BY <1>1, <1>2 DEF SliceFails, DocumentFails, CanInsert, Sliced, OrderOf
<1> QED
  BY <1>2, <1>4, <1>5, <1>6, <1>7, <1>8
  DEF JobStep, At, SkipInFlight, TakeClaim, DropCancelled, Confirm, RecoverOne,
      SkipFile, NeedsWork, RebuildSymbols, CheckOrMarkFails, Mark, MarkStored,
      ReadStored, Reconcile, BeginEmbed, SymbolsDone, EmbedBatch, EmbedFails,
      BeginConfirm, ConfirmFails, Return

(* A job keeps its files sound. *)
LEMMA JobStepSound ==
  ASSUME ContentInv, Sliced, NEW r \in Requests, JobStep(r), NEW f \in Files,
         claim[f] = r, Sound(f)
  PROVE  \/ Whole(f)' \/ status'[f] = "cancelled"
         \/ status'[f] = "indexing" /\ f \in Torn(r)'
<1>1. /\ ClaimInv /\ TypeInv /\ StoreTypeOK /\ OrderOf(r) /\ HashesOf(r)
      /\ req \in [Requests -> Job] /\ req[r] \in Job /\ InPlace(req[r])
      /\ NoStops /\ At(r, "drop") => req[r].todo = {}
      /\ At(r, "mark") /\ req[r].mode = "vectors" /\ f = req[r].cur => Whole(f)
  BY JobFacts
<1>2. CASE f \in Torn(r) /\ status[f] = "indexing"
  BY <1>2, TornEnds
<1>3. CASE ~(f \in Torn(r) /\ status[f] = "indexing")
  <2>1. Whole(f) \/ status[f] = "cancelled"
    BY <1>3, TornIsHeld DEF Sound
  <2>2. Untouched(f) => Whole(f)' \/ status'[f] = "cancelled"
    BY <2>1, WholeKept DEF Untouched
  <2>3. ASSUME NEW new, Ended(f, new) PROVE Whole(f)' \/ status'[f] = "cancelled"
    BY <2>1, <2>3, WholeKept DEF Ended
  <2>4. CASE At(r, "mark") /\ f = req[r].cur /\ req[r].mode = "full"
    <3>1. CASE Mark(r)
      <4>1. status'[f] = "indexing"
        BY <1>1, <2>4, <3>1, MarkWritten DEF Mark, Taken
      <4>2. /\ req'[r].pc \in {"document", "slice"} /\ req'[r].cur = f
            /\ req'[r].mode = "full"
        BY <1>1, <2>4, <3>1 DEF Mark, Become, Job
      <4> QED
        BY <4>1, <4>2 DEF Torn
    <3>2. CASE CheckOrMarkFails(r)
      BY <2>2, <3>2, NothingWritten DEF CheckOrMarkFails
    <3> QED
      BY <2>4, <3>1, <3>2
      DEF JobStep, At, SkipInFlight, TakeClaim, DropCancelled, Confirm, RecoverOne,
          SkipFile, NeedsWork, RebuildSymbols, MarkStored, SliceDocument, DocumentFails,
          Slice, ReadStored, SliceFails, SliceCancelled, RecoverCurrent, Reconcile,
          BeginEmbed, SymbolsDone, EmbedBatch, EmbedFails, BeginConfirm, ConfirmFails,
          Return
  <2>5. ASSUME At(r, "mark"), f = req[r].cur, req[r].mode = "vectors", Requeued(f)
        PROVE  Whole(f)'
    BY <1>1, <2>5, WholeKept DEF Requeued
  <2>6. ASSUME At(r, "slice"), f = req[r].cur, req[r].mode = "full",
               Resliced(f, req[r].text, r)
        PROVE  Whole(f)'
    BY <1>1, <2>6, WholeSliced DEF HashesOf, Stamped, At
  <2>7. ASSUME At(r, "drop"), f \in req[r].todo, Cleared(f) PROVE Whole(f)'
    BY <1>1, <2>7, WholeEmptied DEF Cleared
  <2>8. ASSUME At(r, "confirm"), f \in req[r].todo, req[r].mode = "full",
               Confirmed(f, req[r].text)
        PROVE  Whole(f)' \/ status'[f] = "cancelled"
    <3>1. status[f] = "indexing" => sha[f] = req[r].text
      BY <1>1, <2>8 DEF OrderOf, HashesOf, Stamped, At
    <3> QED
      BY <2>1, <2>8, <3>1, WholeKept DEF Confirmed
  <2>9. JobWrites(r, f)
    BY <1>1, JobWritesOwn DEF ContentInv, OrderInv
  <2> QED
    BY <2>2, <2>3, <2>4, <2>5, <2>6, <2>7, <2>8, <2>9 DEF JobWrites
<1> QED
  BY <1>2, <1>3

-----------------------------------------------------------------------------
(* What a step may do to a file whose claim the actor does not hold. *)
Kept(f) ==
  /\ Whole(f) => Whole(f)'
  /\ status'[f] = status[f] \/ Whole(f)'
  /\ sha'[f] = sha[f] \/ status'[f] = "absent"
  /\ status[f] = "absent" => status'[f] = "absent"
  /\ NoStops /\ status[f] = "indexing" => status'[f] = "indexing"

(* A file whose row and chunks are left alone keeps what it shows. *)
LEMMA UntouchedIsKept == ASSUME NEW f \in Files, Untouched(f) PROVE Kept(f)
BY WholeKept DEF Untouched, Kept

(* The collector and the commands tear no file. *)
LEMMA OthersKeepFiles ==
  ASSUME ContentInv, NEW f \in Files,
         \/ GcStep
         \/ \E c \in Commands : CommandServed(c) \/ CommandSent(c)
  PROVE  Kept(f)
<1>1. OrderInv /\ StoreTypeOK
  BY DEF ContentInv, OrderInv, ClaimInv, TypeInv, TypeOK
<1>2. ASSUME Emptying(f) PROVE Kept(f)
  BY <1>2, WholeEmptied DEF Emptying, Kept
<1>3. ASSUME NEW c \in Commands, CommandServed(c) \/ CommandSent(c) PROVE Kept(f)
  <2>1. CASE NoStops
    BY <1>1, <1>3, <2>1, QuietEndpoints, UntouchedIsKept
  <2>2. CASE ~NoStops
    <3>1. CASE Untouched(f)
      BY <3>1, UntouchedIsKept
    <3>2. CASE ~Untouched(f)
      <4>1. /\ ActiveOf(f)' = {} /\ sha'[f] = sha[f]
            /\ status[f] = "absent" => status'[f] = "absent"
        BY <1>3, <3>2, CommandWritesSelected DEF CommandWrites
      <4> QED
        BY <2>2, <4>1, WholeEmptied DEF Kept
    <3> QED
      BY <3>1, <3>2
  <2> QED
    BY <2>1, <2>2
<1> QED
  BY <1>1, <1>2, <1>3, CollectorPrunes, UntouchedIsKept DEF CollectorWrites

(* What ContentInv says of a job. *)
JobPart(r) ==
  /\ HashesOf(r)
  /\ NoStops /\ At(r, "drop") => req[r].todo = {}
  /\ \A f \in Files :
       At(r, "mark") /\ req[r].mode = "vectors" /\ req[r].cur = f => Whole(f)

WorkerPart ==
  \A f \in Files : worker.pc = "mark" /\ worker.file = f => Whole(f)

(* The invariant, file by file and job by job. *)
LEMMA ContentIsParts ==
  ContentInv <=> /\ OrderInv /\ NothingDetached
                 /\ \A f \in Files : Sound(f)
                 /\ \A r \in Requests : JobPart(r)
                 /\ WorkerPart
BY DEF ContentInv, OnlyTornAreBroken, RepublishWhole, JobHashes, NothingDropped, Sound,
   JobPart, HashesOf, WorkerPart

(* Nobody disturbs what a job is at work on. *)
LEMMA OthersKeepPart ==
  ASSUME ContentInv, NEW q \in Requests,
         \A f \in Files : claim[f] = q => Kept(f),
         req'[q] = req[q] \/ req'[q] = [req[q] EXCEPT !.token = TRUE]
  PROVE  JobPart(q)' /\ Torn(q)' = Torn(q)
<1>1. /\ HashesOf(q) /\ req[q] \in Job /\ InPlace(req[q])
      /\ Consistent(q, req[q], claim) /\ None \notin Files
      /\ NoStops /\ At(q, "drop") => req[q].todo = {}
      /\ \A f \in Files :
           At(q, "mark") /\ req[q].mode = "vectors" /\ req[q].cur = f => Whole(f)
  BY JobFacts
<1>2. /\ req'[q].pc = req[q].pc /\ req'[q].mode = req[q].mode
      /\ req'[q].text = req[q].text /\ req'[q].cur = req[q].cur
      /\ req'[q].prepared = req[q].prepared /\ req'[q].todo = req[q].todo
  BY <1>1 DEF Job
<1>3. Stamped(q)' = Stamped(q) /\ Torn(q)' = Torn(q)
  BY <1>2 DEF Stamped, Torn
<1>4. \A x \in Stamped(q) : Kept(x)
  BY StampedIsHeld
<1>5. HashesOf(q)'
  BY <1>1, <1>2, <1>3, <1>4 DEF HashesOf, Kept
<1>6. ASSUME NEW f \in Files, req[q].pc = "mark", req[q].mode = "vectors", req[q].cur = f
      PROVE  Whole(f)'
  <2>1. claim[f] = q
    BY <1>1, <1>6 DEF Consistent, Held
  <2> QED
    BY <1>1, <1>6, <2>1 DEF At, Kept
<1> QED
  BY <1>1, <1>2, <1>3, <1>5, <1>6 DEF JobPart, At

(* A sound file nobody has torn, and that is no leftover of a cancellation, is
   whole. *)
LEMMA SoundIsWhole ==
  ASSUME ContentInv, NEW f \in Files,
         status[f] \notin {"cancelled", "indexing"} \/ claim[f] \notin Requests,
         status[f] # "cancelled"
  PROVE  Whole(f)
<1>1. Sound(f)
  BY ContentIsParts
<1> QED
  BY <1>1, TornIsHeld DEF Sound

(* A job leaves its own part in order. *)
LEMMA OwnJobPart ==
  ASSUME ContentInv, Sliced, NEW r \in Requests, JobStep(r)
  PROVE  JobPart(r)'
<1>1. /\ ClaimInv /\ TypeInv /\ StoreTypeOK /\ HashesOf(r) /\ JobOrder
      /\ req \in [Requests -> Job] /\ req[r] \in Job /\ InPlace(req[r])
      /\ Consistent(r, req[r], claim) /\ None \notin Files
      /\ NoStops /\ At(r, "drop") => req[r].todo = {}
  BY JobFacts DEF ContentInv, OrderInv
<1>2. GoesOn(r)
  BY <1>1, JobStepGoesOn
<1>3. HashesOf(r)'
  <2> SUFFICES ASSUME req'[r].mode = "full", NEW x \in Stamped(r)'
               PROVE  /\ sha'[x] = req'[r].text \/ status'[x] = "absent"
                      /\ NoStops /\ req'[r].pc \in Preparing => status'[x] = "indexing"
    BY DEF HashesOf
  <2>1. /\ req[r].mode = "full" /\ req'[r].text = req[r].text
        /\ Stamped(r)' \subseteq Stamped(r) \cup {y \in {req[r].cur} : Mark(r)}
        /\ req'[r].pc \in Preparing => req[r].pc \in Preparing
    BY <1>2 DEF GoesOn
  <2>2. CASE Mark(r) /\ x = req[r].cur
    <3>1. x \in Files
      BY <1>1, <2>2 DEF Mark, At, InPlace, OnOneFile, Job
    <3> QED
      BY <1>1, <2>1, <2>2, <3>1, MarkWritten DEF Mark, Taken
  <2>3. CASE x \in Stamped(r)
    <3>1. x \in Files /\ JobWrites(r, x)
      BY <1>1, <2>3, StampedIsHeld, JobWritesOwn
    <3>2. /\ sha[x] = req[r].text \/ status[x] = "absent"
          /\ NoStops /\ req[r].pc \in Preparing => status[x] = "indexing"
      BY <1>1, <2>1, <2>3 DEF HashesOf
    <3>3. CASE Untouched(x)
      BY <2>1, <3>2, <3>3 DEF Untouched
    <3>4. CASE ~Untouched(x)
      <4>1. \/ sha'[x] = req[r].text
            \/ sha'[x] = sha[x] /\ (status[x] = "absent" => status'[x] = "absent")
        BY <3>1, <3>4
        DEF JobWrites, Taken, Requeued, Resliced, Cleared, Ended, Confirmed
      <4>2. req[r].pc \in Preparing => status'[x] \in {"indexing", status[x]}
        BY <3>1, <3>4
        DEF JobWrites, Taken, Requeued, Resliced, Cleared, Ended, Confirmed, Preparing, At
      <4> QED
        BY <2>1, <3>2, <4>1, <4>2
    <3> QED
      BY <3>3, <3>4
  <2> QED
    BY <2>1, <2>2, <2>3
<1>4. ASSUME NoStops, req'[r].pc = "drop" PROVE req'[r].todo = {}
  <2>1. CASE Reconcile(r)
    <3>1. PICK gone \in {{x \in req[r].prepared : status[x] \notin {"indexing", "absent"}},
                         {}} :
            Become(r, [req[r] EXCEPT !.pc = "drop", !.todo = gone])
      BY <2>1 DEF Reconcile
    <3>2. \A x \in req[r].prepared : status[x] = "indexing"
      BY <1>1, <1>4, <2>1 DEF Reconcile, HashesOf, Stamped, At, Preparing
    <3>3. gone = {}
      BY <3>1, <3>2
    <3> QED
      BY <1>1, <3>1, <3>3 DEF Become, Job
  <2>2. CASE ~Reconcile(r)
    BY <1>1, <1>2, <1>4, <2>2 DEF GoesOn
  <2> QED
    BY <2>1, <2>2
<1>5. ASSUME NEW f \in Files, req'[r].pc = "mark", req'[r].mode = "vectors",
             req'[r].cur = f
      PROVE  Whole(f)'
  <2>1. NeedsWork(r) /\ req[r].mode = "vectors" /\ req[r].cur = f
    BY <1>2, <1>5 DEF GoesOn
  <2>2. status[f] = "indexed" /\ Untouched(f)
    BY <2>1, NothingWritten DEF NeedsWork, Reembeddable
  <2> QED
    BY <2>2, SoundIsWhole, WholeKept DEF Untouched
<1> QED
  BY <1>3, <1>4, <1>5 DEF JobPart, At

(* The invariant holds initially. *)
LEMMA ContentInit == Init => ContentInv
<1> SUFFICES ASSUME Init PROVE ContentInv
  OBVIOUS
<1>1. ASSUME NEW f \in Files PROVE Whole(f)
  BY DEF Init, StoreInit, Whole, Fresh, ActiveOf
<1>2. \A r \in Requests : JobPart(r)
  BY <1>1 DEF Init, RequestInit, JobPart, HashesOf, Stamped, At
<1> QED
  BY <1>1, <1>2, OrderInit, ContentIsParts
  DEF Sound, WorkerPart, NothingDetached, Init, RequestInit

(* The worker publishes again what it found whole. *)
LEMMA WorkerStepContent ==
  ASSUME ContentInv, Sliced, WorkerStep
  PROVE  /\ \A f \in Files : claim[f] # Worker => Kept(f)
         /\ \A f \in Files : claim[f] = Worker => Whole(f)' \/ status'[f] = "cancelled"
         /\ WorkerPart'
<1>1. /\ ClaimInv /\ StoreTypeOK /\ WorkerPart /\ Worker \notin Requests
      /\ \A f \in Files : Sound(f)
  BY ContentIsParts, StoreAssumption
  DEF OrderInv, ClaimInv, TypeInv, TypeOK, Worker
<1>2. \A f \in Files : WorkerWrites(f)
  BY <1>1, WorkerWritesOwn
<1>3. ASSUME NEW f \in Files, claim[f] # Worker PROVE Kept(f)
  BY <1>2, <1>3, UntouchedIsKept DEF WorkerWrites
<1>4. ASSUME NEW f \in Files, claim[f] = Worker
      PROVE  Whole(f)' \/ status'[f] = "cancelled"
  <2>1. Whole(f) \/ status[f] = "cancelled"
    BY <1>1, <1>4, SoundIsWhole
  <2>2. CASE Untouched(f)
    BY <2>1, <2>2, WholeKept DEF Untouched
  <2>3. CASE worker.pc = "mark" /\ f = worker.file /\ Requeued(f)
    BY <1>1, <2>3, WholeKept DEF WorkerPart, Requeued
  <2>4. ASSUME NEW new, Ended(f, new) PROVE Whole(f)' \/ status'[f] = "cancelled"
    BY <2>1, <2>4, WholeKept DEF Ended
  <2> QED
    BY <1>2, <2>2, <2>3, <2>4 DEF WorkerWrites
<1>5. WorkerPart'
  <2> SUFFICES ASSUME NEW f \in Files, worker'.pc = "mark", worker'.file = f
               PROVE  Whole(f)'
    BY DEF WorkerPart
  <2>1. /\ worker.file = f /\ NoWrite /\ claim[f] = Worker
        /\ status[f] \in {"indexing", "failed"}
    BY <1>1, RecheckMarks
  <2>2. Whole(f)
    BY <1>1, <2>1, SoundIsWhole
  <2> QED
    BY <2>1, <2>2, WholeKept, NothingWritten DEF Untouched
<1> QED
  BY <1>3, <1>4, <1>5

(* A file nobody's step moves stays sound. *)
LEMMA KeptIsSound ==
  ASSUME ContentInv, NEW f \in Files, Kept(f),
         \A q \in Requests : claim[f] = q => Torn(q)' = Torn(q)
  PROVE  Sound(f)'
<1>1. Sound(f)
  BY ContentIsParts
<1>2. ASSUME NEW q \in Requests, f \in Torn(q) PROVE f \in Torn(q)'
  BY <1>2, TornIsHeld
<1> QED
  BY <1>1, <1>2 DEF Sound, Kept

(* Rows stay true to their chunks. *)
LEMMA ContentNext ==
  ASSUME Sliced, ContentInv, [Next]_vars
  PROVE  ContentInv'
<1>1. /\ OrderInv /\ NothingDetached /\ ClaimInv /\ WorkerPart
      /\ req \in [Requests -> Job]
      /\ \A f \in Files : Sound(f)
  BY ContentIsParts
  DEF OrderInv, ClaimInv, TypeInv, TypeOK, RequestTypeOK
<1>2. {"detach", "crash", "disconnect"} \cap Faults = {}
  BY DEF Sliced
<1>3. OrderInv' /\ NothingDetached'
  BY <1>1, <1>2, OrderNext, NextDetachesNothing
<1> DEFINE Goal == /\ \A f \in Files : Sound(f)'
                   /\ \A q \in Requests : JobPart(q)'
                   /\ WorkerPart'
<1>4. ASSUME worker' = worker, \A f \in Files : claim[f] = Worker => Kept(f)
      PROVE  WorkerPart'
  <2>1. WorkerPlace /\ (worker.file # None => claim[worker.file] = Worker) /\ None \notin Files
    BY <1>1, StoreAssumption, ClaimInvIsConsistent
  <2>2. ASSUME NEW f \in Files, worker.pc = "mark", worker.file = f PROVE Whole(f)'
    BY <1>1, <1>4, <2>1, <2>2 DEF WorkerPart, Kept
  <2> QED
    BY <1>4, <2>2 DEF WorkerPart
<1>5. ASSUME NEW r \in Requests, RunJob(r) PROVE Goal
  <2>1. /\ JobStep(r) /\ worker' = worker
        /\ \A q \in Requests : q # r => req'[q] = req[q]
    BY <1>1, <1>5, JobStepClaims DEF RunJob
  <2>2. ASSUME NEW f \in Files, claim[f] # r PROVE Kept(f)
    BY <1>1, <2>1, <2>2, JobWritesOwn, UntouchedIsKept DEF JobWrites, OrderInv
  <2>3. ASSUME NEW q \in Requests, q # r PROVE JobPart(q)' /\ Torn(q)' = Torn(q)
    BY <2>1, <2>2, <2>3, OthersKeepPart
  <2>4. JobPart(r)'
    BY <2>1, OwnJobPart
  <2>5. ASSUME NEW f \in Files PROVE Sound(f)'
    <3>1. CASE claim[f] = r
      BY <1>1, <2>1, <3>1, JobStepSound DEF Sound
    <3>2. CASE claim[f] # r
      BY <2>2, <2>3, <3>2, KeptIsSound
    <3> QED
      BY <3>1, <3>2
  <2>6. WorkerPart'
    BY <1>4, <2>1, <2>2, StoreAssumption DEF Worker
  <2> QED
    BY <2>3, <2>4, <2>5, <2>6
<1>6. ASSUME \A f \in Files : Kept(f), worker' = worker,
             \A q \in Requests : req'[q] = req[q] \/ req'[q] = [req[q] EXCEPT !.token = TRUE]
      PROVE  Goal
  <2>1. ASSUME NEW q \in Requests PROVE JobPart(q)' /\ Torn(q)' = Torn(q)
    BY <1>6, OthersKeepPart
  <2> QED
    BY <1>4, <1>6, <2>1, KeptIsSound
<1>7. ASSUME RunWorker PROVE Goal
  <2>1. WorkerStep /\ req' = req
    BY <1>7 DEF RunWorker, requestVars
  <2>2. /\ \A f \in Files : claim[f] # Worker => Kept(f)
        /\ \A f \in Files : claim[f] = Worker => Whole(f)' \/ status'[f] = "cancelled"
        /\ WorkerPart'
    BY <2>1, WorkerStepContent
  <2>3. ASSUME NEW q \in Requests PROVE JobPart(q)' /\ Torn(q)' = Torn(q)
    <3>1. \A f \in Files : claim[f] = q => Kept(f)
      BY <2>2, StoreAssumption DEF Worker
    <3> QED
      BY <2>1, <3>1, OthersKeepPart
  <2>4. ASSUME NEW f \in Files PROVE Sound(f)'
    <3>1. CASE claim[f] = Worker
      BY <2>2, <3>1 DEF Sound
    <3>2. CASE claim[f] # Worker
      BY <2>2, <2>3, <3>2, KeptIsSound
    <3> QED
      BY <3>1, <3>2
  <2> QED
    BY <2>2, <2>3, <2>4
<1>8. ASSUME NEW r \in Requests, RunClient(r) PROVE Goal
  <2>1. /\ ClientStep(r) /\ worker' = worker
        /\ \A q \in Requests : q # r => req'[q] = req[q]
    BY <1>1, <1>8, ClientStepClaims DEF RunClient
  <2>2. \A f \in Files : Untouched(f)
    BY <2>1, NothingWritten DEF ClientStep, Start, Disconnect, CancelStream
  <2>3. CASE CancelStream(r)
    <3>1. req'[r] = [req[r] EXCEPT !.token = TRUE]
      BY <1>1, <2>3 DEF CancelStream, Become
    <3> QED
      BY <1>6, <2>1, <2>2, <3>1, UntouchedIsKept
  <2>4. ASSUME NEW m, NEW v, NEW F, Start(r, m, v, F) PROVE Goal
    <3>1. /\ At(r, "new") /\ req'[r].pc = "pick" /\ req'[r].cur = req[r].cur
          /\ req'[r].prepared = req[r].prepared
      BY <1>1, <2>4 DEF Start, At, Become, Job
    <3>2. req[r].prepared = {} /\ req[r].cur = None
      BY <1>1, <3>1 DEF ClaimInv, JobShape, TypeInv, JobPlace, InPlace, OnOneFile, At
    <3>3. /\ JobPart(r)' /\ Torn(r)' = {} /\ Torn(r) = {}
      BY <3>1, <3>2 DEF JobPart, HashesOf, Stamped, Torn, At
    <3>4. ASSUME NEW q \in Requests PROVE JobPart(q)' /\ Torn(q)' = Torn(q)
      BY <2>1, <2>2, <3>3, OthersKeepPart, UntouchedIsKept
    <3> QED
      BY <1>4, <2>1, <2>2, <3>4, KeptIsSound, UntouchedIsKept
  <2> QED
    BY <1>2, <2>1, <2>3, <2>4 DEF ClientStep, Disconnect
<1>9. ASSUME RunCollector PROVE Goal
  BY <1>6, <1>9, OthersKeepFiles DEF RunCollector, requestVars
<1>10. ASSUME NEW c \in Commands, ServeCommand(c) \/ SendCommand(c) PROVE Goal
  BY <1>6, <1>10, OthersKeepFiles DEF ServeCommand, SendCommand, requestVars
<1>11. ASSUME UNCHANGED vars PROVE Goal
  <2>1. NoWrite /\ req' = req /\ worker' = worker
    BY <1>11 DEF vars, requestVars, NoWrite
  <2> QED
    BY <1>6, <2>1, NothingWritten, UntouchedIsKept
<1>12. ~RunBlockingPool /\ ~Restart
  BY <1>1, <1>2 DEF RunBlockingPool, Restart, NothingDetached
<1>13. Goal
  BY <1>5, <1>7, <1>8, <1>9, <1>10, <1>11, <1>12 DEF Next
<1>14. /\ \A f \in Files : Sound(f)'
       /\ \A q \in Requests : JobPart(q)'
       /\ WorkerPart'
  BY <1>13
<1> QED
  BY <1>3, <1>14
  DEF ContentInv, OnlyTornAreBroken, RepublishWhole, JobHashes, NothingDropped, Sound,
      JobPart, HashesOf, WorkerPart

(* What is 'indexed' is whole. *)
LEMMA IndexedIsWhole ==
  ASSUME ContentInv, NEW f \in Files, status[f] = "indexed"
  PROVE  Whole(f)
BY SoundIsWhole

(* The chunks of an 'indexed' file were cut from the text its row names, whatever
   clients, the worker and the collector do meanwhile, where nothing fails but
   the embedder and Qdrant.  A crash between the write of the hash and the slice
   transaction breaks it: the worker then publishes the old chunks. *)
THEOREM IndexedShaIsTrue ==
  ASSUME Sliced
  PROVE  Spec => []IndexedShaDescribesChunks
<1>1. ContentInv => IndexedShaDescribesChunks
  BY IndexedIsWhole DEF IndexedShaDescribesChunks, Whole, Fresh
<1> QED
  BY <1>1, ContentInit, ContentNext, PTL DEF Spec

(* An 'indexed' file has all its chunks, if moreover no client cancels or
   deletes files. *)
THEOREM IndexedIsWholeFile ==
  ASSUME Sliced, NoStops
  PROVE  Spec => []IndexedIsComplete
<1>1. ASSUME ContentInv PROVE IndexedIsComplete
  <2>1. ASSUME NEW f \in Files, status[f] = "indexed" PROVE Complete(f)
    BY <1>1, <2>1, IndexedIsWhole DEF Whole
  <2> QED
    BY <2>1, Zenon DEF IndexedIsComplete, Complete
<1> QED
  BY <1>1, ContentInit, ContentNext, PTL DEF Spec

-----------------------------------------------------------------------------
(* Whether the symbol rows of a file parallel its chunks. *)
Parallel(f) ==
  symbols[f] # None => \A c \in ActiveOf(f) : c.text = symbols[f]

(* Every statement but the rebuild of symbols alone keeps them together: it
   touches neither, or replaces or removes both. *)
LEMMA NeitherTouched ==
  ASSUME UNCHANGED <<symbols, active>>, NEW f \in Files, Parallel(f)
  PROVE  Parallel(f)'
BY DEF Parallel, ActiveOf

(* A slicing writes chunks and symbols in one transaction, *)
LEMMA BothReplaced ==
  ASSUME StoreTypeOK, NEW g \in Files, NEW v \in Versions, NEW r, ReplaceChunks(g, v, r),
         NEW f \in Files, Parallel(f)
  PROVE  Parallel(f)'
<1>1. /\ active' = (active \ ActiveOf(g)) \cup SlicesOf(g, v, r)
      /\ symbols' = [symbols EXCEPT ![g] = IF g \in Markdown THEN None ELSE v]
      /\ \A c \in SlicesOf(g, v, r) : c.file = g /\ c.text = v
      /\ symbols \in [Files -> Versions \cup {None}]
  BY SliceFiles DEF ReplaceChunks, StoreTypeOK, TablesTypeOK
<1>2. CASE f = g
  <2>1. \A c \in active' : c.file = g => c.text = v
    BY <1>1 DEF ActiveOf
  <2>2. symbols'[f] # None => symbols'[f] = v
    BY <1>1, <1>2
  <2> QED
    BY <1>2, <2>1, <2>2 DEF Parallel, ActiveOf
<1>3. CASE f # g
  BY <1>1, <1>3 DEF Parallel, ActiveOf
<1> QED
  BY <1>2, <1>3

(* and what drops the chunks drops the symbols. *)
LEMMA BothRemoved ==
  ASSUME NEW B, DropChunksOf(B), NEW f \in Files, Parallel(f)
  PROVE  Parallel(f)'
BY DEF DropChunksOf, Parallel, ActiveOf

(* The rebuild compares the hash of the text it is given with the row's. *)
LEMMA SymbolsRebuilt ==
  ASSUME TypeInv, IndexedShaDescribesChunks, NEW g, NEW v, CanRebuild(g, v),
         ReplaceSymbols(g, v), NEW f \in Files, Parallel(f)
  PROVE  Parallel(f)'
<1>1. /\ status[g] = "indexed" /\ sha[g] = v
      /\ symbols' = [symbols EXCEPT ![g] = IF g \in Markdown THEN None ELSE v]
      /\ active' = active
  BY DEF CanRebuild, ReplaceSymbols
<1>2. symbols \in [Files -> Versions \cup {None}]
  BY DEF TypeInv, TypeOK, StoreTypeOK, TablesTypeOK
<1> QED
  BY <1>1, <1>2 DEF Parallel, ActiveOf, IndexedShaDescribesChunks

(* No step of a job parts chunks and symbols. *)
LEMMA JobKeepsParallel ==
  ASSUME TypeInv, IndexedShaDescribesChunks, NEW r \in Requests, JobStep(r),
         NEW f \in Files, Parallel(f)
  PROVE  Parallel(f)'
<1>1. /\ StoreTypeOK /\ req[r] \in Job /\ InPlace(req[r])
  BY DEF TypeInv, TypeOK, RequestTypeOK, JobPlace
<1>2. CASE Slice(r)
  <2>1. /\ ReplaceChunks(req[r].cur, req[r].text, r)
        /\ req[r].cur \in Files /\ req[r].text \in Versions
    BY <1>1, <1>2 DEF Slice, At, InPlace, OnOneFile, Job
  <2> QED
    BY <1>1, <2>1, BothReplaced
<1>3. ASSUME NEW g \in req[r].todo, DropCancelled(r, g) PROVE Parallel(f)'
  BY <1>3, BothRemoved, NeitherTouched
  DEF DropCancelled, NoWrite, storeVars, chunkVars
<1>4. CASE RebuildSymbols(r)
  BY <1>4, SymbolsRebuilt DEF RebuildSymbols
<1>5. CASE UNCHANGED <<symbols, active>>
  BY <1>5, NeitherTouched
<1>6. NoWrite => UNCHANGED <<symbols, active>>
  BY DEF NoWrite, storeVars, chunkVars
<1>7. ASSUME NEW g \in req[r].todo,
             \/ SkipInFlight(r, g) \/ TakeClaim(r, g) \/ Confirm(r, g) \/ RecoverOne(r, g)
      PROVE  UNCHANGED <<symbols, active>>
  BY <1>6, <1>7
  DEF SkipInFlight, TakeClaim, Confirm, RecoverOne, MarkIndexed, MarkReembedded,
      SetFileStatus, chunkVars
<1>8. ASSUME \/ SkipFile(r) \/ NeedsWork(r) \/ CheckOrMarkFails(r) \/ SliceDocument(r)
             \/ DocumentFails(r) \/ ReadStored(r) \/ SliceFails(r) \/ SliceCancelled(r)
             \/ Reconcile(r) \/ BeginEmbed(r) \/ SymbolsDone(r) \/ EmbedFails(r)
             \/ BeginConfirm(r) \/ ConfirmFails(r) \/ Return(r)
      PROVE  UNCHANGED <<symbols, active>>
  BY <1>6, <1>8
  DEF SkipFile, NeedsWork, CheckOrMarkFails, SliceDocument, DocumentFails, ReadStored,
      SliceFails, SliceCancelled, Reconcile, BeginEmbed, SymbolsDone, EmbedFails,
      BeginConfirm, ConfirmFails, Return
<1>9. ASSUME \/ Mark(r) \/ MarkStored(r) \/ RecoverCurrent(r)
             \/ \E S \in (SUBSET req[r].pending) \ {{}} : EmbedBatch(r, S)
      PROVE  UNCHANGED <<symbols, active>>
  BY <1>6, <1>9
  DEF Mark, MarkIndexing, MarkStored, RecoverCurrent, SetFileStatus, EmbedBatch, Upsert,
      chunkVars
<1> QED
  BY <1>2, <1>3, <1>4, <1>5, <1>7, <1>8, <1>9 DEF JobStep

(* Symbols stay parallel to the chunks, whoever writes. *)
LEMMA ParallelNext ==
  ASSUME TypeInv, IndexedShaDescribesChunks, [Next]_vars, NEW f \in Files, Parallel(f)
  PROVE  Parallel(f)'
<1>1. StoreTypeOK /\ detached \subseteq Tx
  BY DEF TypeInv, TypeOK, RequestTypeOK
<1>2. NoWrite => Parallel(f)'
  BY NeitherTouched DEF NoWrite, storeVars, chunkVars
<1>3. ASSUME NEW r \in Requests, RunJob(r) PROVE Parallel(f)'
  BY <1>3, JobKeepsParallel DEF RunJob
<1>4. ASSUME NEW r \in Requests, RunClient(r) PROVE Parallel(f)'
  BY <1>2, <1>4 DEF RunClient, ClientStep, Start, Disconnect, CancelStream
<1>5. ASSUME NEW t \in detached, RunDetached(t) PROVE Parallel(f)'
  <2>1. t.op \in TxOps /\ t.file \in Files /\ t.text \in Versions
    BY <1>1, <1>5 DEF Tx
  <2>2. CASE t.op = "slice"
    BY <1>1, <1>2, <1>5, <2>1, <2>2, BothReplaced DEF RunDetached
  <2>3. CASE t.op = "drop"
    BY <1>5, <2>3, BothRemoved DEF RunDetached
  <2>5. CASE t.op = "symbols"
    BY <1>2, <1>5, <2>5, SymbolsRebuilt DEF RunDetached
  <2>4. CASE t.op \notin {"slice", "symbols", "drop"}
    <3>1. UNCHANGED <<symbols, active>>
      BY <1>5, <2>1, <2>4
      DEF RunDetached, TxOps, MarkIndexing, MarkIndexed, MarkReembedded, SetFileStatus,
          chunkVars
    <3> QED
      BY <3>1, NeitherTouched
  <2> QED
    BY <2>2, <2>3, <2>4, <2>5
<1>6. CASE WorkerStep
  <2>1. UNCHANGED <<symbols, active>>
    BY <1>6
    DEF WorkerStep, Sweep, WorkerSkipsClaimed, WorkerTakesClaim, Recheck, WorkerMarks,
        WorkerReads, WorkerEmbeds, WorkerEmbedFails, WorkerConfirms,
        WorkerRecordsFailure, WorkerTxFails, NoWrite, storeVars, chunkVars,
        SetFileStatus, MarkReembedded, Upsert
  <2> QED
    BY <2>1, NeitherTouched
<1>7. CASE GcStep
  <2>1. UNCHANGED <<symbols, active>>
    BY <1>7
    DEF GcStep, StartPass, SelectDeleted, DeleteVectors, PurgeRows, SweepFails,
        PruneFiles, PassEnds, NoWrite, storeVars, chunkVars
  <2> QED
    BY <2>1, NeitherTouched
<1>8. ASSUME NEW c \in Commands, CommandServed(c) \/ CommandSent(c) PROVE Parallel(f)'
  <2>1. ASSUME NEW B, ApplyCancel(c, B) \/ ApplyDelete(c, B) PROVE Parallel(f)'
    BY <2>1, BothRemoved DEF ApplyCancel, ApplyDelete, Applied
  <2>2. ASSUME NEW P, PostRetry(P) PROVE Parallel(f)'
    BY <2>2, NeitherTouched DEF PostRetry, chunkVars
  <2> QED
    BY <1>2, <1>8, <2>1, <2>2
    DEF CommandServed, CommandSent, CommandStops, SelectCancel, SelectDelete, Selects
<1>9. Restart \/ UNCHANGED vars => Parallel(f)'
  BY <1>2 DEF Restart, vars, NoWrite
<1> QED
  BY <1>3, <1>4, <1>5, <1>6, <1>7, <1>8, <1>9
  DEF Next, RunBlockingPool, RunWorker, RunCollector, ServeCommand, SendCommand

(* Stored symbols come from the text the chunks come from: a rebuild of symbols
   alone, which reads no chunk, may trust the hash in the row. *)
THEOREM SymbolsAreParallel ==
  ASSUME Sliced
  PROVE  Spec => []SymbolsParallelChunks
<1> DEFINE Inv == ContentInv /\ SymbolsParallelChunks
<1>1. Init => Inv
  BY ContentInit DEF Init, StoreInit, SymbolsParallelChunks
<1>2. ASSUME Inv, [Next]_vars PROVE Inv'
  <2>1. /\ ContentInv' /\ TypeInv /\ IndexedShaDescribesChunks
    BY <1>2, ContentNext, IndexedIsWhole
    DEF ContentInv, OrderInv, ClaimInv, IndexedShaDescribesChunks, Whole, Fresh
  <2>2. \A f \in Files : Parallel(f)
    BY <1>2 DEF SymbolsParallelChunks, Parallel
  <2>3. \A f \in Files : Parallel(f)'
    BY <1>2, <2>1, <2>2, ParallelNext
  <2> QED
    BY <2>1, <2>3 DEF SymbolsParallelChunks, Parallel
<1>3. Inv => SymbolsParallelChunks
  OBVIOUS
<1> QED
  BY <1>1, <1>2, <1>3, PTL DEF Spec

-----------------------------------------------------------------------------
(* What the batch of a job, and that of the worker, are made of. *)
BatchOf(r) ==
  req[r].pc \in Publishing \cup {"new"} =>
    \A c \in req[r].pending : c \in active /\ c.file \in req[r].prepared

WorkerBatch == worker.pc = "embed" => worker.pending \subseteq ActiveOf(worker.file)

(* Chunk rows stay, in one state or the other, and a point that is new is that
   of an active chunk. *)
ChunksRemain == active \cup deleted \subseteq active' \cup deleted'

NewPointsAreActive == \A p \in vectors' \ vectors : p[2] \in active

Tracks == ChunksRemain /\ NewPointsAreActive

(* The statements, with the chunks and points they write. *)
LEMMA UnwrittenTracks ==
  ASSUME UNCHANGED <<active, deleted, vectors>> PROVE Tracks
BY DEF Tracks, ChunksRemain, NewPointsAreActive

(* A step that writes nothing loses track of no point, *)
LEMMA NoWriteTracks == NoWrite => Tracks
BY UnwrittenTracks DEF NoWrite, storeVars, chunkVars

(* nor does one that writes a row of the files table, *)
LEMMA RowWriteTracks ==
  ASSUME NEW f, NEW v, NEW new, NEW bump,
         \/ SetFileStatus(f, new, bump) \/ MarkIndexing(f, v)
         \/ MarkIndexed(f, v) \/ MarkReembedded(f)
  PROVE  Tracks
BY UnwrittenTracks
DEF SetFileStatus, MarkIndexing, MarkIndexed, MarkReembedded, chunkVars

(* nor a slicing, which marks the old chunks deleted, *)
LEMMA ReplaceTracks == ASSUME NEW f, NEW v, NEW r, ReplaceChunks(f, v, r) PROVE Tracks
BY DEF ReplaceChunks, Tracks, ChunksRemain, NewPointsAreActive

(* nor does dropping chunks, *)
LEMMA DropTracks == ASSUME NEW B, DropChunksOf(B), vectors' = vectors PROVE Tracks
BY DEF DropChunksOf, Tracks, ChunksRemain, NewPointsAreActive

(* nor an upsert of chunks that are active. *)
LEMMA UpsertTracks == ASSUME NEW S, S \subseteq active, Upsert(S) PROVE Tracks
BY DEF Upsert, chunkVars, Tracks, ChunksRemain, NewPointsAreActive

(* Nobody but the purge takes a row away, and nobody upserts a chunk that is no
   longer active. *)
LEMMA JobTracks ==
  ASSUME NEW r \in Requests, JobStep(r), BatchOf(r)
  PROVE  Tracks
<1>1. ASSUME NEW f \in req[r].todo,
             \/ SkipInFlight(r, f) \/ TakeClaim(r, f) \/ DropCancelled(r, f)
             \/ Confirm(r, f) \/ RecoverOne(r, f)
      PROVE  Tracks
  BY <1>1, NoWriteTracks, RowWriteTracks, DropTracks
  DEF SkipInFlight, TakeClaim, DropCancelled, Confirm, RecoverOne
<1>2. ASSUME \/ SkipFile(r) \/ NeedsWork(r) \/ CheckOrMarkFails(r) \/ SliceDocument(r)
             \/ DocumentFails(r) \/ ReadStored(r) \/ SliceFails(r) \/ SliceCancelled(r)
             \/ Reconcile(r) \/ BeginEmbed(r) \/ SymbolsDone(r) \/ EmbedFails(r)
             \/ BeginConfirm(r) \/ ConfirmFails(r) \/ Return(r)
      PROVE  Tracks
  BY <1>2, NoWriteTracks
  DEF SkipFile, NeedsWork, CheckOrMarkFails, SliceDocument, DocumentFails, ReadStored,
      SliceFails, SliceCancelled, Reconcile, BeginEmbed, SymbolsDone, EmbedFails,
      BeginConfirm, ConfirmFails, Return
<1>3. CASE RebuildSymbols(r) \/ Mark(r) \/ MarkStored(r) \/ Slice(r) \/ RecoverCurrent(r)
  BY <1>3, UnwrittenTracks, NoWriteTracks, RowWriteTracks, ReplaceTracks
  DEF RebuildSymbols, ReplaceSymbols, Mark, MarkStored, Slice, RecoverCurrent
<1>4. ASSUME NEW S \in (SUBSET req[r].pending) \ {{}}, EmbedBatch(r, S) PROVE Tracks
  BY <1>4, UpsertTracks DEF EmbedBatch, At, BatchOf, Publishing
<1> QED
  BY <1>1, <1>2, <1>3, <1>4 DEF JobStep

(* The retry worker upserts what it has just read as active. *)
LEMMA WorkerTracks ==
  ASSUME WorkerStep, WorkerBatch
  PROVE  Tracks
<1>1. ASSUME NEW S \in (SUBSET worker.pending) \ {{}}, WorkerEmbeds(S) PROVE Tracks
  BY <1>1, UpsertTracks DEF WorkerEmbeds, WorkerAt, WorkerBatch, ActiveOf
<1> QED
  BY <1>1, NoWriteTracks, RowWriteTracks
  DEF WorkerStep, Sweep, WorkerSkipsClaimed, WorkerTakesClaim, Recheck, WorkerMarks,
      WorkerReads, WorkerEmbedFails, WorkerConfirms, WorkerRecordsFailure,
      WorkerTxFails

(* The collector removes rows in the purge alone. *)
LEMMA CollectorTracks ==
  ASSUME GcStep, ~PurgeRows
  PROVE  Tracks
<1>1. CASE DeleteVectors
  BY <1>1 DEF DeleteVectors, chunkVars, Tracks, ChunksRemain, NewPointsAreActive
<1>2. CASE PruneFiles
  BY <1>2, NoWriteTracks, UnwrittenTracks DEF PruneFiles, chunkVars
<1> QED
  BY <1>1, <1>2, NoWriteTracks
  DEF GcStep, StartPass, SelectDeleted, SweepFails, PassEnds

(* The commands only mark chunks deleted. *)
LEMMA CommandTracks ==
  ASSUME NEW c \in Commands, CommandServed(c) \/ CommandSent(c)
  PROVE  Tracks
<1>1. ASSUME NEW B, ApplyCancel(c, B) \/ ApplyDelete(c, B) PROVE Tracks
  BY <1>1, DropTracks DEF ApplyCancel, ApplyDelete, Applied
<1>2. ASSUME NEW P, PostRetry(P) PROVE Tracks
  BY <1>2, UnwrittenTracks DEF PostRetry, chunkVars
<1> QED
  BY <1>1, <1>2, NoWriteTracks
  DEF CommandServed, CommandSent, CommandStops, SelectCancel, SelectDelete, Selects

(* A job keeps its own batch active. *)
LEMMA OwnBatch ==
  ASSUME OrderInv, NEW r \in Requests, BatchOf(r), JobStep(r)
  PROVE  BatchOf(r)'
<1>1. /\ TypeInv /\ req \in [Requests -> Job] /\ req[r] \in Job /\ InPlace(req[r])
      /\ StoreTypeOK /\ Consistent(r, req[r], claim) /\ None \notin Files
      /\ JobOrder
  BY ClaimInvIsConsistent, StoreAssumption
  DEF OrderInv, TypeInv, TypeOK, RequestTypeOK, JobPlace
<1>2. ASSUME active' = active,
             req'[r].pc \in Publishing \cup {"new"} => req[r].pc \in Publishing,
             req'[r].pending \subseteq req[r].pending,
             req'[r].prepared = req[r].prepared
      PROVE  BatchOf(r)'
  BY <1>2 DEF BatchOf
<1>3. ASSUME req'[r].pc \notin Publishing \cup {"new"} PROVE BatchOf(r)'
  BY <1>3 DEF BatchOf
<1>4. NoWrite => active' = active
  BY DEF NoWrite, storeVars, chunkVars
<1>5. Finish(r) \/ AbortPrepare(r) => req'[r].pc \in {"done", "recover_failed"}
  <2>1. Finish(r) => req'[r].pc = "done"
    BY <1>1 DEF Finish, Become, Job
  <2>2. AbortPrepare(r) => req'[r].pc = "recover_failed"
    BY <1>1 DEF AbortPrepare, Become, Job
  <2> QED
    BY <2>1, <2>2
<1>6. ASSUME NEW f \in req[r].todo, SkipInFlight(r, f) \/ TakeClaim(r, f)
      PROVE  BatchOf(r)'
  <2>1. CASE SkipInFlight(r, f)
    BY <1>1, <1>2, <1>4, <2>1
    DEF SkipInFlight, At, Become, Job, Publishing, Preparing
  <2>2. CASE TakeClaim(r, f)
    BY <1>1, <1>2, <1>4, <2>2 DEF TakeClaim, At, Become, Job, Publishing, Preparing
  <2> QED
    BY <1>6, <2>1, <2>2
<1>7. ASSUME NEW f \in req[r].todo, DropCancelled(r, f) PROVE BatchOf(r)'
  <2>1. /\ req[r].pc = "drop"
        /\ req'[r].prepared = req[r].prepared \ {f}
        /\ req'[r].pending = {c \in req[r].pending : c.file # f}
    BY <1>1, <1>7 DEF DropCancelled, At, Become, Job
  <2>2. \A c \in active : c.file # f => c \in active'
    BY <1>4, <1>7 DEF DropCancelled, DropChunksOf
  <2> QED
    BY <2>1, <2>2 DEF BatchOf, Publishing
<1>8. ASSUME NEW f \in req[r].todo, Confirm(r, f) PROVE BatchOf(r)'
  <2>1. active' = active
    BY <1>8 DEF Confirm, MarkIndexed, MarkReembedded, chunkVars
  <2> QED
    BY <1>1, <1>2, <1>8, <2>1 DEF Confirm, At, Become, Job, Publishing
<1>9. ASSUME NEW f \in req[r].todo, RecoverOne(r, f) PROVE BatchOf(r)'
  <2>1. /\ Become(r, [req[r] EXCEPT !.todo = @ \ {f}])
        /\ req[r].pc \in {"recover_failed", "recover_cancelled"}
    BY <1>9 DEF RecoverOne, At
  <2> QED
    BY <1>1, <1>3, <2>1 DEF Become, Job, Publishing, Preparing
<1>10. CASE SkipFile(r) \/ NeedsWork(r) \/ SliceDocument(r)
  <2>1. CASE SkipFile(r)
    BY <1>1, <1>2, <1>4, <2>1 DEF SkipFile, At, Become, Job, Publishing, Preparing
  <2>2. CASE NeedsWork(r)
    BY <1>1, <1>2, <1>4, <2>2 DEF NeedsWork, At, Become, Job, Publishing, Preparing
  <2>3. CASE SliceDocument(r)
    BY <1>1, <1>2, <1>4, <2>3 DEF SliceDocument, At, Become, Job, Publishing, Preparing
  <2> QED
    BY <1>10, <2>1, <2>2, <2>3
<1>11. CASE RebuildSymbols(r)
  BY <1>1, <1>2, <1>11 DEF RebuildSymbols, ReplaceSymbols, At, Become, Job, Publishing, Preparing
<1>12. CASE CheckOrMarkFails(r) \/ DocumentFails(r) \/ RecoverCurrent(r)
             \/ SymbolsDone(r) \/ ConfirmFails(r) \/ Return(r)
  BY <1>3, <1>5, <1>12 DEF CheckOrMarkFails, DocumentFails, RecoverCurrent,
     SymbolsDone, ConfirmFails, Return, Publishing, Preparing
<1>13. CASE Mark(r)
  BY <1>1, <1>2, <1>13
  DEF Mark, MarkIndexing, chunkVars, At, Become, Job, Publishing, Preparing
<1>14. CASE MarkStored(r)
  <2>1. active' = active
    BY <1>14 DEF MarkStored, SetFileStatus, chunkVars
  <2>2. CASE CanMove(req[r].cur, "indexing")
    BY <1>1, <1>2, <1>14, <2>1, <2>2
    DEF MarkStored, At, Become, Job, Publishing, Preparing
  <2>3. CASE ~CanMove(req[r].cur, "indexing")
    BY <1>3, <1>5, <1>14, <2>3 DEF MarkStored, Publishing, Preparing
  <2> QED
    BY <2>2, <2>3
<1>15. CASE Slice(r)
  <2>1. PICK f \in Files : f = req[r].cur
    BY <1>1, <1>15 DEF Slice, At, InPlace, OnOneFile, Job
  <2>2. /\ req[r].pc = "slice" /\ req'[r].prepared = req[r].prepared \cup {f}
        /\ req'[r].pending = req[r].pending \cup SlicesOf(f, req[r].text, r)
        /\ active' = (active \ ActiveOf(f)) \cup SlicesOf(f, req[r].text, r)
    BY <1>1, <1>15, <2>1 DEF Slice, ReplaceChunks, At, Become, Job
  <2>3. f \notin req[r].prepared /\ \A c \in SlicesOf(f, req[r].text, r) : c.file = f
    BY <1>1, <2>1, SliceFiles DEF Consistent
  <2> QED
    BY <2>2, <2>3 DEF BatchOf, Publishing, Preparing, ActiveOf
<1>16. CASE ReadStored(r)
  <2>1. /\ req[r].pc = "slice" /\ req'[r].prepared = req[r].prepared \cup {req[r].cur}
        /\ req'[r].pending = req[r].pending \cup ActiveOf(req[r].cur)
        /\ active' = active
    BY <1>1, <1>4, <1>16 DEF ReadStored, At, Become, Job
  <2> QED
    BY <2>1 DEF BatchOf, Publishing, Preparing, ActiveOf
<1>17. CASE SliceFails(r) \/ SliceCancelled(r)
  <2>1. PICK pc \in {"slice_failed", "slice_cancelled"} :
          Become(r, [req[r] EXCEPT !.pc = pc])
    BY <1>17 DEF SliceFails, SliceCancelled
  <2> QED
    BY <1>1, <1>3, <2>1 DEF Become, Job, Publishing, Preparing
<1>18. CASE Reconcile(r)
  <2>1. PICK gone : Become(r, [req[r] EXCEPT !.pc = "drop", !.todo = gone])
    BY <1>18 DEF Reconcile
  <2> QED
    BY <1>1, <1>2, <1>4, <1>18, <2>1 DEF Reconcile, At, Become, Job, Publishing, Preparing
<1>19. CASE BeginEmbed(r) \/ BeginConfirm(r)
  <2>1. CASE BeginEmbed(r)
    BY <1>1, <1>2, <1>4, <2>1 DEF BeginEmbed, At, Become, Job, Publishing, Preparing
  <2>2. CASE BeginConfirm(r)
    BY <1>1, <1>2, <1>4, <2>2 DEF BeginConfirm, At, Become, Job, Publishing, Preparing
  <2> QED
    BY <1>19, <2>1, <2>2
<1>20. ASSUME NEW S, EmbedBatch(r, S) PROVE BatchOf(r)'
  BY <1>1, <1>2, <1>20
  DEF EmbedBatch, Upsert, chunkVars, At, Become, Job, Publishing, Preparing
<1>21. CASE EmbedFails(r)
  <2>1. PICK pc \in {"recover_failed", "recover_cancelled"} :
          Become(r, [req[r] EXCEPT !.pc = pc, !.todo = req[r].prepared])
    BY <1>21 DEF EmbedFails
  <2> QED
    BY <1>1, <1>3, <2>1 DEF Become, Job, Publishing, Preparing
<1> QED
  BY <1>6, <1>7, <1>8, <1>9, <1>10, <1>11, <1>12, <1>13, <1>14, <1>15, <1>16,
     <1>17, <1>18, <1>19, <1>20, <1>21
  DEF JobStep

(* Nobody else touches the files of a job, and their chunks stay as they are. *)
LEMMA OthersKeepBatch ==
  ASSUME ClaimInv, NEW q \in Requests, BatchOf(q),
         \A f \in Files : claim[f] = q => ActiveOf(f)' = ActiveOf(f),
         req'[q] = req[q] \/ req'[q] = [req[q] EXCEPT !.token = TRUE]
  PROVE  BatchOf(q)'
<1>1. req[q] \in Job /\ Consistent(q, req[q], claim) /\ None \notin Files
  BY ClaimInvIsConsistent, StoreAssumption DEF TypeInv, TypeOK, RequestTypeOK
<1>2. /\ req'[q].pc = req[q].pc /\ req'[q].prepared = req[q].prepared
      /\ req'[q].pending = req[q].pending
  BY <1>1 DEF Job
<1>3. \A f \in req[q].prepared : ActiveOf(f)' = ActiveOf(f)
  BY <1>1 DEF Consistent, Held, Job
<1> QED
  BY <1>2, <1>3 DEF BatchOf, ActiveOf

(* The worker upserts what it read under the claim. *)
LEMMA WorkerKeepsBatch ==
  ASSUME TypeInv, WorkerBatch, WorkerStep
  PROVE  WorkerBatch'
<1>1. WorkerTypeOK
  BY DEF TypeInv, TypeOK
<1>2. LeaveFile => worker'.pc = "idle"
  BY <1>1 DEF LeaveFile, WorkerTypeOK
<1>3. CASE WorkerReads
  BY <1>1, <1>3
  DEF WorkerReads, WorkerTypeOK, WorkerBatch, NoWrite, storeVars, chunkVars, ActiveOf
<1>4. ASSUME NEW S, WorkerEmbeds(S) PROVE WorkerBatch'
  <2>1. /\ worker.pc = "embed" /\ worker'.pending = worker.pending \ S
        /\ worker'.file = worker.file /\ active' = active
    BY <1>1, <1>4 DEF WorkerEmbeds, WorkerAt, Upsert, chunkVars, WorkerTypeOK
  <2> QED
    BY <2>1 DEF WorkerBatch, ActiveOf
<1>5. worker'.pc # "embed" => WorkerBatch'
  BY DEF WorkerBatch
<1> QED
  BY <1>1, <1>2, <1>3, <1>4, <1>5
  DEF WorkerStep, Sweep, WorkerSkipsClaimed, WorkerTakesClaim, Recheck, WorkerMarks,
      WorkerEmbedFails, WorkerConfirms, WorkerRecordsFailure, WorkerTxFails,
      WorkerTypeOK, WorkerAt

(* The collector takes the points of a batch first, and its rows last. *)
LEMMA TracksKeep ==
  ASSUME IndInv, PurgedAfterVectors, VectorsTracked, Tracks, model' = model,
         gc'.pc # "purge" \/ gc' = gc
  PROVE  PurgedAfterVectors' /\ VectorsTracked'
<1>1. VectorsTracked'
  BY DEF VectorsTracked, Tracks, ChunksRemain, NewPointsAreActive
<1>2. ASSUME gc' = gc, gc.pc = "purge", NEW c \in gc.batch
      PROVE  <<model, c>> \notin vectors'
  BY <1>2 DEF PurgedAfterVectors, IndInv, DeletedForGood, Tracks, NewPointsAreActive
<1> QED
  BY <1>1, <1>2 DEF PurgedAfterVectors

(* The purge comes after the delete of the points of the same batch. *)
LEMMA CollectorKeepsTrack ==
  ASSUME IndInv, PurgedAfterVectors, VectorsTracked, GcStep, model' = model
  PROVE  PurgedAfterVectors' /\ VectorsTracked'
<1>1. GcTypeOK /\ StoreTypeOK
  BY DEF IndInv, ClaimInv, TypeInv, TypeOK
<1>2. CASE DeleteVectors
  <2>1. /\ vectors' = vectors \ ({model} \X gc.batch) /\ gc'.batch = gc.batch
        /\ UNCHANGED <<active, deleted>>
    BY <1>1, <1>2 DEF DeleteVectors, GcGoto, GcTypeOK, chunkVars
  <2> QED
    BY <2>1 DEF PurgedAfterVectors, VectorsTracked
<1>3. CASE PurgeRows
  <2>1. /\ deleted' = deleted \ gc.batch /\ UNCHANGED <<active, vectors>>
        /\ gc.pc = "purge" /\ gc'.pc = "select"
    BY <1>1, <1>3 DEF PurgeRows, GcAt, GcGoto, GcTypeOK
  <2>2. ASSUME NEW p \in vectors, p[1] = model PROVE p[2] \notin gc.batch
    <3>1. p = <<model, p[2]>>
      BY <1>1, <2>2 DEF StoreTypeOK, TablesTypeOK
    <3> QED
      BY <2>1, <2>2, <3>1 DEF PurgedAfterVectors
  <2>3. VectorsTracked'
    BY <2>1, <2>2 DEF VectorsTracked
  <2> QED
    BY <2>1, <2>3 DEF PurgedAfterVectors
<1>4. CASE ~DeleteVectors /\ ~PurgeRows
  <2>1. StartPass(TRUE) \/ StartPass(FALSE) \/ PruneFiles \/ PassEnds => gc'.pc # "purge"
    BY DEF StartPass, PruneFiles, PassEnds, PassDone
  <2>2. SelectDeleted \/ SweepFails => gc'.pc # "purge"
    BY <1>1 DEF SelectDeleted, SweepFails, GcGoto, GcTypeOK
  <2>3. gc'.pc # "purge"
    BY <1>4, <2>1, <2>2 DEF GcStep
  <2> QED
    BY <1>4, <2>3, CollectorTracks, TracksKeep
<1> QED
  BY <1>2, <1>3, <1>4

(* The invariant holds initially. *)
LEMMA TrackedInit == Init => TrackedInv
BY IndInit, OrderInit
DEF Init, StoreInit, RequestInit, WorkerInit, GcInit, TrackedInv, BatchIsActive,
    PurgedAfterVectors, VectorsTracked, Publishing, Preparing

(* Points and rows go together. *)
LEMMA TrackedNext ==
  ASSUME "detach" \notin Faults, NoStops, OneModel, TrackedInv, [Next]_vars
  PROVE  TrackedInv'
<1>1. /\ IndInv /\ OrderInv /\ ClaimInv /\ JobOrder /\ NothingDetached /\ TypeInv
      /\ req \in [Requests -> Job] /\ StoreTypeOK /\ GcTypeOK
      /\ PurgedAfterVectors /\ VectorsTracked /\ WorkerBatch
      /\ \A r \in Requests : BatchOf(r)
  BY DEF TrackedInv, OrderInv, IndInv, ClaimInv, TypeInv, TypeOK, RequestTypeOK,
     BatchIsActive, BatchOf, WorkerBatch
<1>2. IndInv' /\ OrderInv'
  BY <1>1, IndNext, OrderNext
<1>3. ASSUME NEW f \in Files, Untouched(f) PROVE ActiveOf(f)' = ActiveOf(f)
  BY <1>3 DEF Untouched
<1>4. worker.pc # "idle" => worker.file \in Files /\ claim[worker.file] = Worker
  BY <1>1, ClaimInvIsConsistent
  DEF TypeInv, TypeOK, WorkerTypeOK, WorkerPlace
<1>5. ASSUME worker' = worker,
             \A f \in Files : claim[f] = Worker => ActiveOf(f)' = ActiveOf(f)
      PROVE  WorkerBatch'
  <2>1. ASSUME worker.pc = "embed", NEW c \in worker.pending
        PROVE  c \in active' /\ c.file = worker.file
    <3>1. PICK f \in Files : f = worker.file
      BY <1>4, <2>1
    <3>2. claim[f] = Worker /\ c \in ActiveOf(f)
      BY <1>1, <1>4, <2>1, <3>1 DEF WorkerBatch
    <3> QED
      BY <1>5, <3>1, <3>2 DEF ActiveOf
  <2> QED
    BY <1>5, <2>1 DEF WorkerBatch, ActiveOf
<1>6. Worker \notin Requests
  BY StoreAssumption DEF Worker
<1> DEFINE Goal == /\ \A q \in Requests : BatchOf(q)'
                   /\ WorkerBatch' /\ PurgedAfterVectors' /\ VectorsTracked'
<1>7. ASSUME NEW r \in Requests, RunJob(r) PROVE Goal
  <2>1. /\ JobStep(r) /\ UNCHANGED <<worker, gc, model>>
        /\ \A q \in Requests : q # r => req'[q] = req[q]
    BY <1>1, <1>7, JobStepClaims DEF RunJob
  <2>2. ASSUME NEW f \in Files, claim[f] # r PROVE ActiveOf(f)' = ActiveOf(f)
    BY <1>1, <1>3, <2>1, <2>2, JobWritesOwn DEF JobWrites
  <2>3. ASSUME NEW q \in Requests PROVE BatchOf(q)'
    BY <1>1, <2>1, <2>2, OwnBatch, OthersKeepBatch
  <2>4. WorkerBatch'
    BY <1>5, <1>6, <2>1, <2>2
  <2>5. Tracks
    BY <1>1, <2>1, JobTracks
  <2> QED
    BY <1>1, <2>1, <2>3, <2>4, <2>5, TracksKeep
<1>8. ASSUME \A f \in Files : ActiveOf(f)' = ActiveOf(f), worker' = worker,
             \A q \in Requests : req'[q] = req[q] \/ req'[q] = [req[q] EXCEPT !.token = TRUE]
      PROVE  WorkerBatch' /\ \A q \in Requests : BatchOf(q)'
  BY <1>1, <1>5, <1>8, OthersKeepBatch
<1>9. ASSUME NEW r \in Requests, RunClient(r) PROVE Goal
  <2>1. /\ ClientStep(r) /\ UNCHANGED <<worker, gc, model>>
        /\ \A q \in Requests : q # r => req'[q] = req[q]
    BY <1>1, <1>9, ClientStepClaims DEF RunClient
  <2>2. NoWrite /\ \A f \in Files : ActiveOf(f)' = ActiveOf(f)
    BY <1>3, <2>1, NothingWritten DEF ClientStep, Start, Disconnect, CancelStream
  <2>3. BatchOf(r)'
    <3>1. ASSUME NEW m, NEW v, NEW F, Start(r, m, v, F) PROVE BatchOf(r)'
      <4>1. At(r, "new") /\ req'[r].pc = "pick" /\ req'[r].pending = req[r].pending
        BY <1>1, <3>1 DEF Start, At, Become, Job
      <4>2. req[r].pending = {}
        BY <1>1, <4>1 DEF BatchOf, ClaimInv, JobShape, At
      <4> QED
        BY <4>1, <4>2 DEF BatchOf
    <3>2. CASE Disconnect(r)
      <4>1. req'[r].pc = "done"
        BY <1>1, <3>2 DEF Disconnect, Finish, Become, Job
      <4> QED
        BY <4>1 DEF BatchOf, Publishing, Preparing
    <3>3. CASE CancelStream(r)
      <4>1. req'[r] = [req[r] EXCEPT !.token = TRUE]
        BY <1>1, <3>3 DEF CancelStream, Become
      <4> QED
        BY <1>1, <2>2, <4>1, OthersKeepBatch
    <3> QED
      BY <2>1, <3>1, <3>2, <3>3 DEF ClientStep
  <2>4. \A q \in Requests : BatchOf(q)'
    BY <1>1, <2>1, <2>2, <2>3, OthersKeepBatch
  <2>5. WorkerBatch' /\ Tracks
    BY <1>5, <2>1, <2>2, NoWriteTracks
  <2> QED
    BY <1>1, <2>1, <2>4, <2>5, TracksKeep
<1>10. ASSUME RunWorker PROVE Goal
  <2>1. WorkerStep /\ UNCHANGED <<req, gc, model>>
    BY <1>10 DEF RunWorker, requestVars
  <2>2. ASSUME NEW f \in Files, claim[f] # Worker PROVE ActiveOf(f)' = ActiveOf(f)
    BY <1>1, <1>3, <2>1, <2>2, WorkerWritesOwn DEF WorkerWrites
  <2>3. \A q \in Requests : BatchOf(q)'
    BY <1>1, <1>6, <2>1, <2>2, OthersKeepBatch
  <2>4. WorkerBatch' /\ Tracks
    BY <1>1, <2>1, WorkerKeepsBatch, WorkerTracks
  <2> QED
    BY <1>1, <2>1, <2>3, <2>4, TracksKeep
<1>11. ASSUME RunCollector PROVE Goal
  <2>1. GcStep /\ UNCHANGED <<req, worker, model>>
    BY <1>11 DEF RunCollector, requestVars
  <2>2. ASSUME NEW f \in Files PROVE ActiveOf(f)' = ActiveOf(f)
    BY <1>1, <1>3, <2>1, CollectorPrunes DEF CollectorWrites, Emptying
  <2> QED
    BY <1>1, <1>8, <2>1, <2>2, CollectorKeepsTrack
<1>12. ASSUME NEW c \in Commands, ServeCommand(c) \/ SendCommand(c) PROVE Goal
  <2>1. /\ CommandServed(c) \/ CommandSent(c)
        /\ UNCHANGED <<req, worker, model, gc>>
    BY <1>12 DEF ServeCommand, SendCommand, requestVars
  <2>2. ASSUME NEW f \in Files PROVE ActiveOf(f)' = ActiveOf(f)
    BY <1>1, <1>3, <2>1, QuietEndpoints
  <2>3. Tracks
    BY <2>1, CommandTracks
  <2> QED
    BY <1>1, <1>8, <2>1, <2>2, <2>3, TracksKeep
<1>13. ASSUME Restart PROVE Goal
  <2>1. /\ \A q \in Requests : req'[q].pc = "done" \/ req'[q] = req[q]
        /\ worker'.pc = "idle" /\ gc'.pc = "idle"
        /\ NoWrite /\ model' = model
    BY <1>1, <1>13 DEF Restart, PassDone, OneModel, StoreTypeOK
  <2>2. \A q \in Requests : BatchOf(q)'
    BY <1>1, <2>1
    DEF BatchOf, Publishing, Preparing, NoWrite, storeVars, chunkVars
  <2>3. Tracks /\ WorkerBatch'
    BY <2>1, NoWriteTracks DEF WorkerBatch
  <2> QED
    BY <1>1, <2>1, <2>2, <2>3, TracksKeep
<1>14. ASSUME UNCHANGED vars PROVE Goal
  <2>1. NoWrite /\ UNCHANGED <<req, worker, gc, model>>
    BY <1>14 DEF vars, requestVars, NoWrite
  <2>2. Tracks /\ \A f \in Files : ActiveOf(f)' = ActiveOf(f)
    BY <1>3, <2>1, NoWriteTracks, NothingWritten
  <2> QED
    BY <1>1, <1>8, <2>1, <2>2, TracksKeep
<1>15. ~RunBlockingPool
  BY <1>1 DEF RunBlockingPool, NothingDetached
<1>16. Goal
  BY <1>7, <1>9, <1>10, <1>11, <1>12, <1>13, <1>14, <1>15 DEF Next
<1>17. /\ \A q \in Requests : BatchOf(q)'
       /\ WorkerBatch' /\ PurgedAfterVectors' /\ VectorsTracked'
  BY <1>16
<1> QED
  BY <1>2, <1>17 DEF TrackedInv, BatchIsActive, BatchOf, WorkerBatch

(* Every point of the active collection has its chunk row, so the collector will
   find it: also while requests and the worker upsert, where no client takes away
   the chunks they are about to upsert, and no other model comes up. *)
THEOREM PointsAreTracked ==
  ASSUME "detach" \notin Faults, NoStops, OneModel
  PROVE  Spec => []VectorsTracked
<1>1. TrackedInv => VectorsTracked
  BY DEF TrackedInv
<1> QED
  BY <1>1, TrackedInit, TrackedNext, PTL DEF Spec

-----------------------------------------------------------------------------
(* The lifecycle.  Where rows tell the truth, the stage of a file is a matter of
   its status. *)
StageOf(st) ==
  IF st = "indexed" THEN "published"
  ELSE IF st = "indexing" THEN "pending"
  ELSE IF st = "cancelled" THEN "stopped"
  ELSE st

(* The stage of a file that the lifecycle sees is its status, *)
LEMMA StageIsStatus ==
  IndInv /\ ContentInv => \A f \in Files : Stage(f) = StageOf(status[f])
<1> SUFFICES ASSUME IndInv, ContentInv, NEW f \in Files
             PROVE  Stage(f) = StageOf(status[f])
  OBVIOUS
<1>1. CASE status[f] = "indexed"
  <2>1. \A c \in ActiveOf(f) : c.text = sha[f] /\ <<embeddedBy[f], c>> \in vectors
    BY <1>1, IndexedIsWhole DEF Whole, Fresh, IndInv, IndexedHasVectors
  <2> QED
    BY <1>1, <2>1, Zenon DEF Stage, StageOf
<1>2. CASE status[f] # "indexed"
  <2>1. CASE status[f] = "indexing"
    BY <2>1, Zenon DEF Stage, StageOf
  <2>2. CASE status[f] = "cancelled"
    BY <2>2, Zenon DEF Stage, StageOf
  <2>3. CASE status[f] \notin {"indexing", "cancelled"}
    BY <1>2, <2>3, Zenon DEF Stage, StageOf
  <2> QED
    BY <2>1, <2>2, <2>3
<1> QED
  BY <1>1, <1>2

(* also after a step. *)
LEMMA StageIsStatusNext ==
  (IndInv /\ ContentInv)' => \A f \in Files : Stage(f)' = StageOf(status'[f])
<1>1. (IndInv /\ ContentInv => \A f \in Files : Stage(f) = StageOf(status[f]))'
  BY StageIsStatus, PTL
<1> QED
  BY <1>1

(* The row of a file moves in five ways only. *)
RowMoves(f) ==
  \/ status'[f] = status[f] /\ sha'[f] = sha[f]
  \/ status'[f] = "indexing" /\ sha'[f] \in Versions
  \/ /\ status[f] = "indexing" /\ status'[f] \in {"indexed", "failed", "cancelled"}
     /\ sha'[f] = sha[f]
  \/ status[f] # "absent" /\ status'[f] = "deleted" /\ sha'[f] = sha[f]
  \/ status[f] = "deleted" /\ status'[f] = "absent" /\ sha'[f] = None

(* Every step moves a row as the lifecycle allows. *)
LEMMA NextMovesRows ==
  ASSUME ContentInv, [Next]_vars, NEW f \in Files
  PROVE  RowMoves(f)
<1>1. OrderInv /\ NothingDetached /\ (status[f] # "absent" => sha[f] \in Versions)
  BY DEF ContentInv, OrderInv, RowsKnown
<1>2. ASSUME NEW r \in Requests, JobWrites(r, f) PROVE RowMoves(f)
  <2>1. /\ HashesOf(r) /\ OrderOf(r) /\ InPlace(req[r])
    BY JobFacts
  <2>2. ASSUME At(r, "confirm"), f \in req[r].todo, req[r].mode = "full",
               Confirmed(f, req[r].text)
        PROVE  RowMoves(f)
    <3>1. status[f] = "indexing" => sha[f] = req[r].text
      BY <2>1, <2>2 DEF OrderOf, HashesOf, Stamped, At
    <3> QED
      BY <2>2, <3>1 DEF Confirmed, RowMoves
  <2>3. At(r, "mark") => req[r].text \in Versions
    BY <2>1 DEF InPlace, At
  <2> QED
    BY <1>1, <1>2, <2>2, <2>3
    DEF JobWrites, RowMoves, Untouched, Taken, Requeued, Resliced, Cleared, Ended
<1>3. WorkerWrites(f) => RowMoves(f)
  BY <1>1 DEF WorkerWrites, RowMoves, Untouched, Requeued, Ended
<1>4. CollectorWrites(f) => RowMoves(f)
  BY DEF CollectorWrites, RowMoves, Untouched, Emptying
<1>5. ASSUME NEW c \in Commands, CommandWrites(c, f) PROVE RowMoves(f)
  BY <1>5 DEF CommandWrites, RowMoves, Untouched
<1> QED
  BY <1>1, <1>2, <1>3, <1>4, <1>5, EveryStepWrites DEF RowMoves, Untouched

(* Each of them is an action of the lifecycle. *)
LEMMA MovesFollow ==
  ASSUME NEW f \in Files, Stage(f) = StageOf(status[f]),
         Stage(f)' = StageOf(status'[f]), RowMoves(f)
  PROVE  File(f)!Next \/ UNCHANGED <<Stage(f), sha[f]>>
<1>1. ASSUME status'[f] = status[f], sha'[f] = sha[f]
      PROVE  UNCHANGED <<Stage(f), sha[f]>>
  BY <1>1
<1>2. ASSUME status'[f] = "indexing", sha'[f] \in Versions
      PROVE  \E v \in Versions : File(f)!TakeIn(v)
  BY <1>2 DEF File!TakeIn, StageOf
<1>3. ASSUME status[f] = "indexing", status'[f] = "indexed", sha'[f] = sha[f]
      PROVE  File(f)!Publish
  BY <1>3 DEF File!Publish, StageOf
<1>4. ASSUME status[f] = "indexing", status'[f] \in {"failed", "cancelled"},
             sha'[f] = sha[f]
      PROVE  File(f)!GiveUp
  BY <1>4 DEF File!GiveUp, StageOf
<1>5. ASSUME status[f] # "absent", status'[f] = "deleted", sha'[f] = sha[f]
      PROVE  File(f)!Delete
  BY <1>5 DEF File!Delete, StageOf
<1>6. ASSUME status[f] = "deleted", status'[f] = "absent", sha'[f] = None
      PROVE  File(f)!Disappear
  BY <1>6 DEF File!Disappear, StageOf
<1> QED
  BY <1>1, <1>2, <1>3, <1>4, <1>5, <1>6 DEF RowMoves, File!Next

(* Each file of the index implements the lifecycle of FileLifecycle: it is
   published only whole and searchable, in the version it was last taken in, and
   only pending work ends, whatever requests, the worker, the collector and clients
   do at once, where nothing fails but the embedder and Qdrant. *)
THEOREM FilesImplementLifecycle ==
  ASSUME Sliced
  PROVE  Spec => FilesFollowLifecycle
<1> DEFINE Inv == IndInv /\ ContentInv
<1>1. Init => Inv
  BY IndInit, ContentInit
<1>2. Inv /\ [Next]_vars => Inv'
  BY IndNext, ContentNext DEF Sliced
<1>3. ASSUME Init PROVE \A f \in Files : File(f)!Init
  <2>1. ASSUME NEW f \in Files PROVE File(f)!Init
    <3>1. status[f] = "absent" /\ sha[f] = None
      BY <1>3 DEF Init, StoreInit
    <3>2. Stage(f) = StageOf(status[f])
      BY <1>1, <1>3, StageIsStatus
    <3> QED
      BY <3>1, <3>2 DEF File!Init, StageOf
  <2> QED
    BY <2>1
<1>4. ASSUME Inv, Inv', [Next]_vars
      PROVE  \A f \in Files : File(f)!Next \/ UNCHANGED <<Stage(f), sha[f]>>
  <2>1. ASSUME NEW f \in Files
        PROVE  File(f)!Next \/ UNCHANGED <<Stage(f), sha[f]>>
    <3>1. Stage(f) = StageOf(status[f]) /\ Stage(f)' = StageOf(status'[f])
      BY <1>4, StageIsStatus, StageIsStatusNext
    <3> QED
      BY <1>4, <3>1, NextMovesRows, MovesFollow
  <2> QED
    BY <2>1
<1> QED
  BY <1>1, <1>2, <1>3, <1>4, PTL DEF Spec, FilesFollowLifecycle
=============================================================================
