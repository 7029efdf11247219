---------------------------- MODULE IndexRequest ----------------------------
(***************************************************************************)
(* POST /index: run_index_job and the FileIndexer it drives, in its three  *)
(* modes.                                                                  *)
(*   full     claim, hash check, mark 'indexing', slice; then, for all     *)
(*            files of the request, drop what was cancelled, embed, mark   *)
(*            'indexed'.                                                   *)
(*   vectors  claim, read the row, set 'indexing', read the stored chunks; *)
(*            then embed and mark 'indexed'.                               *)
(*   symbols  claim, and one transaction that replaces the symbol rows.    *)
(* Each step is one transaction, one upsert, or one decision; anything may *)
(* happen between two of them.                                             *)
(*                                                                         *)
(* Two abstractions: the derivation versions and the `force` flag appear   *)
(* as the freedom to rebuild a file that is unchanged, and the creation of *)
(* the project row and of the collection, which precede the first claim    *)
(* and are idempotent, are left out.                                       *)
(***************************************************************************)
EXTENDS IndexStore

CONSTANT Modes   \* the modes requests may ask for

VARIABLES
  req,        \* the state of each request's job
  detached    \* transactions still running on the blocking pool after the
              \* future that awaited them was dropped or cancelled

requestVars == <<req, detached>>

ModeNames == {"full", "vectors", "symbols"}

ASSUME ModesAssumption == Modes \subseteq ModeNames

PCs == {"new", "pick", "check", "mark", "document", "slice", "slice_failed",
        "slice_cancelled", "drop", "embed", "confirm", "recover_failed",
        "recover_cancelled", "done"}

(* todo is what is left of the loop the job is in; cur is the file prepare
   holds; prepared is the files whose Prepared is alive, pending the chunks
   not yet upserted; token is the job's CancellationToken. *)
Job == [pc : PCs, mode : ModeNames, text : Versions \cup {None},
        todo : SUBSET Files, cur : Files \cup {None}, prepared : SUBSET Files,
        pending : SUBSET Chunk, token : BOOLEAN]

TxOps == {"mark", "slice", "symbols", "drop", "confirm", "requeue", "reconfirm",
          "failed", "cancelled"}

Tx == [op : TxOps, file : Files, text : Versions, by : Requests]

RequestInit ==
  /\ req = [r \in Requests |->
       [pc |-> "new", mode |-> "full", text |-> None, todo |-> {},
        cur |-> None, prepared |-> {}, pending |-> {}, token |-> FALSE]]
  /\ detached = {}

-----------------------------------------------------------------------------
Become(r, job) == req' = [req EXCEPT ![r] = job]

At(r, pc) == req[r].pc = pc

(* run_index_job returns, or its future is dropped: every claim goes. *)
Finish(r) ==
  /\ Become(r, [req[r] EXCEPT !.pc = "done", !.text = None, !.todo = {},
                              !.cur = None, !.prepared = {}, !.pending = {},
                              !.token = FALSE])
  /\ ReleaseAll(r)

(* prepare returns an error: its claim goes, and recover_all marks what the
   request had prepared so far 'failed', whatever the error was. *)
AbortPrepare(r) ==
  /\ claim' = [claim EXCEPT ![req[r].cur] = None]
  /\ Become(r, [req[r] EXCEPT !.pc = "recover_failed", !.cur = None,
                              !.todo = req[r].prepared])

(* A transaction under the job's token fails when the token is cancelled,
   and when the database does. *)
MayFail(r) == req[r].token \/ "db" \in Faults

Unchanged(f, v) ==
  /\ status[f] = "indexed" /\ sha[f] = v
  /\ chunker[f] = TokenizerOf[model] /\ embeddedBy[f] = model

(* StoredPrep: only an 'indexed' file cut by the active model's tokenizer. *)
Reembeddable(f) == status[f] = "indexed" /\ chunker[f] = TokenizerOf[model]

-----------------------------------------------------------------------------
Start(r, m, v, F) ==
  /\ At(r, "new")
  /\ Become(r, [req[r] EXCEPT !.pc = "pick", !.mode = m, !.text = v, !.todo = F])
  /\ UNCHANGED claim /\ NoWrite

SkipInFlight(r, f) ==
  /\ At(r, "pick") /\ f \in req[r].todo
  /\ claim[f] # None
  /\ Become(r, [req[r] EXCEPT !.todo = @ \ {f}])
  /\ UNCHANGED claim /\ NoWrite

TakeClaim(r, f) ==
  /\ At(r, "pick") /\ f \in req[r].todo
  /\ Acquire(f, r)
  /\ Become(r, [req[r] EXCEPT !.pc = "check", !.cur = f, !.todo = @ \ {f}])
  /\ NoWrite

(* file_already_indexed, or StoredPrep::{Current, NotEligible,
   ForeignChunker}, or a symbol pass with nothing to do. *)
SkipFile(r) ==
  LET f == req[r].cur IN
  /\ At(r, "check") /\ ~req[r].token
  /\ \/ req[r].mode = "full" /\ Unchanged(f, req[r].text)
     \/ req[r].mode = "vectors" /\ (~Reembeddable(f) \/ embeddedBy[f] = model)
     \/ req[r].mode = "symbols"
  /\ claim' = [claim EXCEPT ![f] = None]
  /\ Become(r, [req[r] EXCEPT !.pc = "pick", !.cur = None])
  /\ NoWrite

NeedsWork(r) ==
  /\ At(r, "check") /\ ~req[r].token
  /\ \/ req[r].mode = "full"
     \/ req[r].mode = "vectors" /\ Reembeddable(req[r].cur)
  /\ Become(r, [req[r] EXCEPT !.pc = "mark"])
  /\ UNCHANGED claim /\ NoWrite

(* The symbol rows of a file are those of a text. *)
ReplaceSymbols(f, v) ==
  /\ symbols' = [symbols EXCEPT ![f] = IF f \in Markdown THEN None ELSE v]
  /\ UNCHANGED <<rowVars, active, deleted, vectors>>

CanRebuild(f, v) == status[f] = "indexed" /\ sha[f] = v

(* MUTANT of RebuildSymbols: the stored hash is not compared. *)
RebuildAnySymbols(r) ==
  LET f == req[r].cur IN
  /\ At(r, "check") /\ ~req[r].token /\ req[r].mode = "symbols"
  /\ status[f] = "indexed"
  /\ ReplaceSymbols(f, req[r].text)
  /\ claim' = [claim EXCEPT ![f] = None]
  /\ Become(r, [req[r] EXCEPT !.pc = "pick", !.cur = None])

(* rebuild_symbols: the status and the hash are read in the transaction that
   replaces the symbols, so the file cannot move in between. *)
RebuildSymbols(r) ==
  LET f == req[r].cur IN
  /\ At(r, "check") /\ ~req[r].token /\ req[r].mode = "symbols"
  /\ CanRebuild(f, req[r].text)
  /\ ReplaceSymbols(f, req[r].text)
  /\ claim' = [claim EXCEPT ![f] = None]
  /\ Become(r, [req[r] EXCEPT !.pc = "pick", !.cur = None])

(* The hash check or the write of 'indexing' fails: nothing was recorded
   about this file, and nothing is recovered for it. *)
CheckOrMarkFails(r) ==
  /\ At(r, "check") \/ At(r, "mark")
  /\ MayFail(r)
  /\ IF req[r].mode = "symbols" THEN Finish(r) ELSE AbortPrepare(r)
  /\ NoWrite

Mark(r) ==
  /\ At(r, "mark") /\ ~req[r].token /\ req[r].mode = "full"
  /\ MarkIndexing(req[r].cur, req[r].text)
  /\ Become(r, [req[r] EXCEPT
       !.pc = IF req[r].cur \in Markdown THEN "document" ELSE "slice"])
  /\ UNCHANGED claim

(* prepare_stored's set_file_status: an absent row aborts the request. *)
MarkStored(r) ==
  /\ At(r, "mark") /\ ~req[r].token /\ req[r].mode = "vectors"
  /\ SetFileStatus(req[r].cur, "indexing", FALSE)
  /\ IF CanMove(req[r].cur, "indexing")
       THEN /\ Become(r, [req[r] EXCEPT !.pc = "slice"])
            /\ UNCHANGED claim
       ELSE AbortPrepare(r)

(* slice_document: parsing and an embedder call, before the transaction. *)
SliceDocument(r) ==
  /\ At(r, "document") /\ ~req[r].token
  /\ Become(r, [req[r] EXCEPT !.pc = "slice"])
  /\ UNCHANGED claim /\ NoWrite

(* Its error leaves prepare through a `?` that recovers nothing. *)
DocumentFails(r) ==
  /\ At(r, "document")
  /\ "slice" \in Faults \/ req[r].token
  /\ AbortPrepare(r)
  /\ NoWrite

Slice(r) ==
  LET f == req[r].cur IN
  /\ At(r, "slice") /\ ~req[r].token /\ req[r].mode = "full"
  /\ CanInsert(f, req[r].text)
  /\ ReplaceChunks(f, req[r].text, r)
  /\ Become(r, [req[r] EXCEPT
       !.pc = "pick", !.cur = None, !.prepared = @ \cup {f},
       !.pending = @ \cup SlicesOf(f, req[r].text, r)])
  /\ UNCHANGED claim

ReadStored(r) ==
  LET f == req[r].cur IN
  /\ At(r, "slice") /\ ~req[r].token /\ req[r].mode = "vectors"
  /\ Become(r, [req[r] EXCEPT
       !.pc = "pick", !.cur = None, !.prepared = @ \cup {f},
       !.pending = @ \cup ActiveOf(f)])
  /\ UNCHANGED claim /\ NoWrite

(* The slicer, an insert or the read of the stored chunks fails; the whole
   transaction is rolled back. *)
SliceFails(r) ==
  /\ At(r, "slice")
  /\ IF req[r].mode = "full"
       THEN \/ {"slice", "db"} \cap Faults # {}
            \/ ~CanInsert(req[r].cur, req[r].text)
       ELSE MayFail(r)
  /\ Become(r, [req[r] EXCEPT !.pc = "slice_failed"])
  /\ UNCHANGED claim /\ NoWrite

(* MUTANT of SliceCancelled: the arm returns without recover. *)
SliceCancelledUnrecovered(r) ==
  /\ At(r, "slice") /\ req[r].token /\ req[r].mode = "full"
  /\ AbortPrepare(r) /\ NoWrite

SliceCancelled(r) ==
  /\ At(r, "slice") /\ req[r].token /\ req[r].mode = "full"
  /\ Become(r, [req[r] EXCEPT !.pc = "slice_cancelled"])
  /\ UNCHANGED claim /\ NoWrite

(* recover runs under a token of its own, so only the database can fail it. *)
RecoverCurrent(r) ==
  /\ \/ At(r, "slice_failed") /\ SetFileStatus(req[r].cur, "failed", TRUE)
     \/ At(r, "slice_cancelled") /\ SetFileStatus(req[r].cur, "cancelled", FALSE)
     \/ /\ At(r, "slice_failed") \/ At(r, "slice_cancelled")
        /\ "db" \in Faults /\ NoWrite
  /\ AbortPrepare(r)

-----------------------------------------------------------------------------
(* All files are prepared.  drop_cancelled reads which of them left
   'indexing'; a row that is gone is not returned, and a failed read counts
   as "none". *)
Reconcile(r) ==
  /\ At(r, "pick") /\ req[r].todo = {} /\ req[r].mode = "full"
  /\ \E gone \in {{f \in req[r].prepared : status[f] \notin {"indexing", "absent"}}}
                   \cup (IF MayFail(r) THEN {{}} ELSE {}) :
       Become(r, [req[r] EXCEPT !.pc = "drop", !.todo = gone])
  /\ UNCHANGED claim /\ NoWrite

(* MUTANT of DropCancelled: the file leaves the batch, its chunks stay. *)
DropFromBatch(r, f) ==
  /\ At(r, "drop") /\ f \in req[r].todo
  /\ Become(r, [req[r] EXCEPT
       !.todo = @ \ {f}, !.prepared = @ \ {f},
       !.pending = {c \in @ : c.file # f}])
  /\ UNCHANGED claim /\ NoWrite

(* The token is not consulted; a failed write is only logged. *)
DropCancelled(r, f) ==
  /\ At(r, "drop") /\ f \in req[r].todo
  /\ \/ DropChunksOf({f}) /\ UNCHANGED <<rowVars, vectors>>
     \/ "db" \in Faults /\ NoWrite
  /\ Become(r, [req[r] EXCEPT
       !.todo = @ \ {f}, !.prepared = @ \ {f},
       !.pending = {c \in @ : c.file # f}])
  /\ UNCHANGED claim

(* The dropped Prepared values release their claims together. *)
BeginEmbed(r) ==
  /\ \/ At(r, "drop") /\ req[r].todo = {}
     \/ At(r, "pick") /\ req[r].todo = {} /\ req[r].mode = "vectors"
  /\ Become(r, [req[r] EXCEPT !.pc = "embed"])
  /\ claim' = [f \in Files |-> IF claim[f] = r /\ f \notin req[r].prepared
                                 THEN None ELSE claim[f]]
  /\ NoWrite

SymbolsDone(r) ==
  /\ At(r, "pick") /\ req[r].todo = {} /\ req[r].mode = "symbols"
  /\ Finish(r) /\ NoWrite

(* One batch of embed_and_upsert: any non-empty part of what is left. *)
EmbedBatch(r, S) ==
  /\ At(r, "embed")
  /\ Upsert(S)
  /\ Become(r, [req[r] EXCEPT !.pending = @ \ S])
  /\ UNCHANGED claim

(* MUTANT of EmbedFails: the error leaves through `?` before recover_all. *)
EmbedFailsUnrecovered(r) ==
  /\ At(r, "embed") /\ req[r].pending # {}
  /\ req[r].token \/ "embed" \in Faults
  /\ Finish(r) /\ NoWrite

(* MUTANT of EmbedFails: the files that were prepared are indexed once more. *)
EmbedFailsRestarts(r) ==
  /\ At(r, "embed") /\ req[r].pending # {}
  /\ req[r].token \/ "embed" \in Faults
  /\ Become(r, [req[r] EXCEPT !.pc = "pick", !.todo = req[r].prepared])
  /\ UNCHANGED claim /\ NoWrite

EmbedFails(r) ==
  /\ At(r, "embed") /\ req[r].pending # {}
  /\ \/ req[r].token /\ Become(r, [req[r] EXCEPT !.pc = "recover_cancelled",
                                                 !.todo = req[r].prepared])
     \/ /\ "embed" \in Faults
        /\ Become(r, [req[r] EXCEPT !.pc = "recover_failed",
                                    !.todo = req[r].prepared])
  /\ UNCHANGED claim /\ NoWrite

(* MUTANT of BeginConfirm: the batches are spawned and not joined. *)
ConfirmEarly(r) ==
  /\ At(r, "embed")
  /\ Become(r, [req[r] EXCEPT !.pc = "confirm", !.todo = req[r].prepared])
  /\ UNCHANGED claim /\ NoWrite

BeginConfirm(r) ==
  /\ At(r, "embed") /\ req[r].pending = {}
  /\ Become(r, [req[r] EXCEPT !.pc = "confirm", !.todo = req[r].prepared])
  /\ UNCHANGED claim /\ NoWrite

Confirm(r, f) ==
  /\ At(r, "confirm") /\ f \in req[r].todo /\ ~req[r].token
  /\ IF req[r].mode = "full" THEN MarkIndexed(f, req[r].text)
                             ELSE MarkReembedded(f)
  /\ Become(r, [req[r] EXCEPT !.todo = @ \ {f}])
  /\ UNCHANGED claim

(* mark_indexed's error leaves through `?`: the rest stays 'indexing'. *)
ConfirmFails(r) ==
  /\ At(r, "confirm") /\ req[r].todo # {} /\ MayFail(r)
  /\ Finish(r) /\ NoWrite

(* MUTANT of RecoverOne: a refused write is tried again. *)
RecoverInsists(r, f) ==
  /\ f \in req[r].todo /\ CanMove(f, "failed")
  /\ \/ At(r, "recover_failed") /\ SetFileStatus(f, "failed", TRUE)
     \/ At(r, "recover_cancelled") /\ SetFileStatus(f, "cancelled", FALSE)
  /\ Become(r, [req[r] EXCEPT !.todo = @ \ {f}])
  /\ UNCHANGED claim

RecoverOne(r, f) ==
  /\ f \in req[r].todo
  /\ \/ At(r, "recover_failed") /\ SetFileStatus(f, "failed", TRUE)
     \/ At(r, "recover_cancelled") /\ SetFileStatus(f, "cancelled", FALSE)
     \/ /\ At(r, "recover_failed") \/ At(r, "recover_cancelled")
        /\ "db" \in Faults /\ NoWrite
  /\ Become(r, [req[r] EXCEPT !.todo = @ \ {f}])
  /\ UNCHANGED claim

Return(r) ==
  /\ \/ At(r, "confirm")
     \/ At(r, "recover_failed")
     \/ At(r, "recover_cancelled")
  /\ req[r].todo = {}
  /\ Finish(r) /\ NoWrite

-----------------------------------------------------------------------------
(* The transaction the job may be awaiting.  The slicer and the symbol extractor of
   a code file poll the token and roll the transaction back, up to their last poll;
   no insert after it does, and nothing in a document's transaction. *)
Awaiting(r) ==
  LET tx(op, f) == [op |-> op, file |-> f, text |-> req[r].text, by |-> r]
      full == req[r].mode = "full"
  IN  CASE At(r, "mark") -> {tx(IF full THEN "mark" ELSE "requeue", req[r].cur)}
        [] At(r, "slice") /\ full -> {tx("slice", req[r].cur)}
        [] At(r, "check") /\ req[r].mode = "symbols" -> {tx("symbols", req[r].cur)}
        [] At(r, "drop") -> {tx("drop", f) : f \in req[r].todo}
        [] At(r, "confirm")
             -> {tx(IF full THEN "confirm" ELSE "reconfirm", f) : f \in req[r].todo}
        [] At(r, "slice_failed") -> {tx("failed", req[r].cur)}
        [] At(r, "slice_cancelled") -> {tx("cancelled", req[r].cur)}
        [] At(r, "recover_failed") -> {tx("failed", f) : f \in req[r].todo}
        [] At(r, "recover_cancelled") -> {tx("cancelled", f) : f \in req[r].todo}
        [] OTHER -> {}

LeaveBehind(r) ==
  \/ UNCHANGED detached
  \/ "detach" \in Faults /\ \E t \in Awaiting(r) : detached' = detached \cup {t}

(* A JSON client goes away: the handler's future is dropped where it stands.
   (A streaming job is a task of its own, that nothing drops.) *)
Disconnect(r) ==
  /\ "disconnect" \in Faults
  /\ ~At(r, "new") /\ ~At(r, "done") /\ ~req[r].token
  /\ Finish(r) /\ NoWrite
  /\ LeaveBehind(r)

(* A streaming client goes away: the token is cancelled and the job runs on
   to its next cancellation point.  recover and drop_cancelled do not notice. *)
CancelStream(r) ==
  /\ "stream_cancel" \in Faults
  /\ ~At(r, "new") /\ ~At(r, "done") /\ ~req[r].token
  /\ Become(r, [req[r] EXCEPT !.token = TRUE])
  /\ UNCHANGED claim /\ NoWrite
  /\ IF \/ At(r, "mark") /\ req[r].mode = "full"
        \/ At(r, "check") \/ At(r, "slice") \/ At(r, "confirm")
       THEN LeaveBehind(r) ELSE UNCHANGED detached

RunDetached(t) ==
  /\ t \in detached
  /\ CASE t.op = "mark" -> MarkIndexing(t.file, t.text)
       [] t.op = "slice" -> IF CanInsert(t.file, t.text)
                              THEN ReplaceChunks(t.file, t.text, t.by) ELSE NoWrite
       [] t.op = "symbols" -> IF CanRebuild(t.file, t.text)
                                THEN ReplaceSymbols(t.file, t.text) ELSE NoWrite
       [] t.op = "drop" -> DropChunksOf({t.file}) /\ UNCHANGED <<rowVars, vectors>>
       [] t.op = "confirm" -> MarkIndexed(t.file, t.text)
       [] t.op = "reconfirm" -> MarkReembedded(t.file)
       [] t.op = "requeue" -> SetFileStatus(t.file, "indexing", FALSE)
       [] t.op = "failed" -> SetFileStatus(t.file, "failed", TRUE)
       [] t.op = "cancelled" -> SetFileStatus(t.file, "cancelled", FALSE)
  /\ detached' = detached \ {t}
  /\ UNCHANGED <<req, claim>>

-----------------------------------------------------------------------------
(* What the server does for a request, once it was sent. *)
JobStep(r) ==
  /\ \/ \E f \in req[r].todo :
          SkipInFlight(r, f) \/ TakeClaim(r, f) \/ DropCancelled(r, f)
            \/ Confirm(r, f) \/ RecoverOne(r, f)
     \/ SkipFile(r) \/ NeedsWork(r) \/ RebuildSymbols(r) \/ CheckOrMarkFails(r)
     \/ Mark(r) \/ MarkStored(r) \/ SliceDocument(r) \/ DocumentFails(r)
     \/ Slice(r) \/ ReadStored(r) \/ SliceFails(r) \/ SliceCancelled(r)
     \/ RecoverCurrent(r)
     \/ Reconcile(r) \/ BeginEmbed(r) \/ SymbolsDone(r)
     \/ \E S \in (SUBSET req[r].pending) \ {{}} : EmbedBatch(r, S)
     \/ EmbedFails(r) \/ BeginConfirm(r) \/ ConfirmFails(r) \/ Return(r)
  /\ UNCHANGED detached

(* What its client and the blocking pool do. *)
ClientStep(r) ==
  \/ /\ \E m \in Modes, v \in Versions, F \in (SUBSET Files) \ {{}} :
          Start(r, m, v, F)
     /\ UNCHANGED detached
  \/ Disconnect(r)
  \/ CancelStream(r)

RequestTypeOK ==
  /\ req \in [Requests -> Job]
  /\ detached \subseteq Tx
=============================================================================
