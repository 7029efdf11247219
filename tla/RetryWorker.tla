---------------------------- MODULE RetryWorker -----------------------------
(***************************************************************************)
(* worker::retry: one sequential loop that re-embeds the stored chunks of  *)
(* files left 'indexing' or 'failed'.  It never slices: it has no source.  *)
(* Which rows are old enough to be swept is the sweep's free choice.       *)
(***************************************************************************)
EXTENDS IndexStore

VARIABLE worker   \* [pc, todo: swept files, file: the one claimed, pending]

WorkerPCs == {"idle", "check", "mark", "read", "embed", "confirm", "fail"}

WorkerTypeOK ==
  worker \in [pc : WorkerPCs, todo : SUBSET Files, file : Files \cup {None},
              pending : SUBSET Chunk]

WorkerInit == worker = [pc |-> "idle", todo |-> {}, file |-> None, pending |-> {}]

WorkerAt(pc) == worker.pc = pc

(* MUTANT of Candidates: only 'failed' rows, never a stuck 'indexing' one. *)
FailedOnly == {f \in Files : status[f] = "failed" /\ retries[f] < MaxRetries}

(* sweep_candidates, but for the age of the rows. *)
Candidates == {f \in Files : \/ status[f] = "indexing"
                             \/ status[f] = "failed" /\ retries[f] < MaxRetries}

Sweep(S) ==
  /\ WorkerAt("idle") /\ worker.todo = {}
  /\ worker' = [worker EXCEPT !.todo = S]
  /\ UNCHANGED claim /\ NoWrite

WorkerSkipsClaimed(f) ==
  /\ WorkerAt("idle") /\ f \in worker.todo /\ claim[f] # None
  /\ worker' = [worker EXCEPT !.todo = @ \ {f}]
  /\ UNCHANGED claim /\ NoWrite

WorkerTakesClaim(f) ==
  /\ WorkerAt("idle") /\ f \in worker.todo
  /\ Acquire(f, Worker)
  /\ worker' = [worker EXCEPT !.pc = "check", !.todo = @ \ {f}, !.file = f]
  /\ NoWrite

(* MUTANT of LeaveFile: a claim without a Drop. *)
LeaveClaimed ==
  /\ worker' = [worker EXCEPT !.pc = "idle", !.file = None, !.pending = {}]
  /\ UNCHANGED claim

(* retry_file returns, and its claim drops. *)
LeaveFile ==
  /\ worker' = [worker EXCEPT !.pc = "idle", !.file = None, !.pending = {}]
  /\ claim' = [claim EXCEPT ![worker.file] = None]

(* MUTANT of Recheck: the sweep is believed. *)
NoRecheck ==
  /\ WorkerAt("check")
  /\ worker' = [worker EXCEPT !.pc = "mark"] /\ UNCHANGED claim
  /\ NoWrite

(* The re-check under the claim reads the status only, not the budget. *)
Recheck ==
  /\ WorkerAt("check")
  /\ IF status[worker.file] \in {"indexing", "failed"}
       THEN worker' = [worker EXCEPT !.pc = "mark"] /\ UNCHANGED claim
       ELSE LeaveFile
  /\ NoWrite

(* A second transaction: what the re-check saw may have changed. *)
WorkerMarks ==
  /\ WorkerAt("mark")
  /\ SetFileStatus(worker.file, "indexing", FALSE)
  /\ IF CanMove(worker.file, "indexing")
       THEN worker' = [worker EXCEPT !.pc = "read"] /\ UNCHANGED claim
       ELSE LeaveFile

(* No active chunk is read as "too short to slice", and confirmed as is. *)
WorkerReads ==
  /\ WorkerAt("read")
  /\ worker' = [worker EXCEPT !.pending = ActiveOf(worker.file),
       !.pc = IF ActiveOf(worker.file) = {} THEN "confirm" ELSE "embed"]
  /\ UNCHANGED claim /\ NoWrite

WorkerEmbeds(S) ==
  /\ WorkerAt("embed")
  /\ Upsert(S)
  /\ worker' = [worker EXCEPT !.pending = @ \ S,
       !.pc = IF worker.pending = S THEN "confirm" ELSE "embed"]
  /\ UNCHANGED claim

WorkerEmbedFails ==
  /\ WorkerAt("embed") /\ "embed" \in Faults
  /\ worker' = [worker EXCEPT !.pc = "fail"]
  /\ UNCHANGED claim /\ NoWrite

WorkerConfirms ==
  /\ WorkerAt("confirm")
  /\ MarkReembedded(worker.file)
  /\ LeaveFile

WorkerRecordsFailure ==
  /\ WorkerAt("fail")
  /\ SetFileStatus(worker.file, "failed", TRUE)
  /\ LeaveFile

(* A transaction fails: the file keeps its status for a later sweep. *)
WorkerTxFails ==
  /\ "db" \in Faults
  /\ ~WorkerAt("idle") /\ ~WorkerAt("embed")
  /\ LeaveFile /\ NoWrite

WorkerStep ==
  \/ \E S \in (SUBSET Candidates) \ {{}} : Sweep(S)
  \/ \E f \in worker.todo : WorkerSkipsClaimed(f) \/ WorkerTakesClaim(f)
  \/ Recheck \/ WorkerMarks \/ WorkerReads
  \/ \E S \in (SUBSET worker.pending) \ {{}} : WorkerEmbeds(S)
  \/ WorkerEmbedFails \/ WorkerConfirms \/ WorkerRecordsFailure \/ WorkerTxFails
=============================================================================
