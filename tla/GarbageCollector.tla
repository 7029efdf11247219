-------------------------- MODULE GarbageCollector --------------------------
(***************************************************************************)
(* worker::gc: one pass at a time (GcGuard), started by the hourly tick or *)
(* by POST /gc.  A pass sweeps deleted chunks, Qdrant first and then       *)
(* SQLite, until none is left or a step fails, and then prunes the rows of *)
(* deleted files.  The sweep's LIMIT is not modelled: a batch is every     *)
(* deleted chunk there is.                                                 *)
(***************************************************************************)
EXTENDS IndexStore

VARIABLE gc   \* [pc, batch: chunks this round of the sweep selected,
              \*  manual: the pass belongs to a POST /gc]

GcPCs == {"idle", "select", "unvector", "purge", "prune"}

GcTypeOK == gc \in [pc : GcPCs, batch : SUBSET Chunk, manual : BOOLEAN]

GcInit == gc = [pc |-> "idle", batch |-> {}, manual |-> FALSE]

GcAt(pc) == gc.pc = pc

GcGoto(pc, batch) == gc' = [gc EXCEPT !.pc = pc, !.batch = batch]

PassDone == gc' = [pc |-> "idle", batch |-> {}, manual |-> FALSE]

(* GcGuard::try_acquire: the tick or the request that finds a pass running
   gives up. *)
StartPass(manual) ==
  /\ GcAt("idle")
  /\ gc' = [pc |-> "select", batch |-> {}, manual |-> manual]
  /\ NoWrite

(* MUTANT of SelectDeleted: the rows go before their vectors. *)
SelectAndPurge ==
  /\ GcAt("select")
  /\ IF deleted = {} THEN GcGoto("prune", {}) ELSE GcGoto("purge", deleted)
  /\ NoWrite

SelectDeleted ==
  /\ GcAt("select")
  /\ IF deleted = {} THEN GcGoto("prune", {}) ELSE GcGoto("unvector", deleted)
  /\ NoWrite

(* MUTANT of DeleteVectors: points selected by file instead of by guid. *)
DeleteVectorsOfFiles ==
  /\ GcAt("unvector")
  /\ vectors' = {p \in vectors :
                   p[1] = model => p[2].file \notin {c.file : c \in gc.batch}}
  /\ GcGoto("purge", gc.batch)
  /\ UNCHANGED <<rowVars, chunkVars>>

(* delete_batch against the active model's collection, and no other. *)
DeleteVectors ==
  /\ GcAt("unvector")
  /\ vectors' = vectors \ ({model} \X gc.batch)
  /\ GcGoto("purge", gc.batch)
  /\ UNCHANGED <<rowVars, chunkVars>>

(* Only rows still 'deleted' whose vectors are confirmed gone. *)
PurgeRows ==
  /\ GcAt("purge")
  /\ deleted' = deleted \ gc.batch
  /\ GcGoto("select", {})
  /\ UNCHANGED <<rowVars, symbols, active, vectors>>

(* A failing phase ends the sweep; the next phase still runs. *)
SweepFails ==
  /\ \/ GcAt("unvector") /\ "qdrant" \in Faults
     \/ (GcAt("select") \/ GcAt("purge")) /\ "db" \in Faults
  /\ GcGoto("prune", {})
  /\ NoWrite

Emptied == {f \in Files : /\ status[f] = "deleted"
                          /\ \A c \in active \cup deleted : c.file # f}

(* prune_deleted_files: one DELETE for all emptied rows.  A symbol row of any
   of them aborts it through the RESTRICT key. *)
PruneFiles ==
  /\ GcAt("prune")
  /\ PassDone
  /\ IF \E f \in Emptied : symbols[f] # None
       THEN NoWrite
       ELSE /\ status' = [f \in Files |-> IF f \in Emptied THEN "absent" ELSE status[f]]
            /\ sha' = [f \in Files |-> IF f \in Emptied THEN None ELSE sha[f]]
            /\ retries' = [f \in Files |-> IF f \in Emptied THEN 0 ELSE retries[f]]
            /\ chunker' = [f \in Files |-> IF f \in Emptied THEN None ELSE chunker[f]]
            /\ embeddedBy' = [f \in Files |-> IF f \in Emptied THEN None
                                              ELSE embeddedBy[f]]
            /\ UNCHANGED <<chunkVars, vectors>>

(* A failed prune, or the client of POST /gc gone in the middle of its pass. *)
PassEnds ==
  /\ \/ GcAt("prune") /\ "db" \in Faults
     \/ ~GcAt("idle") /\ gc.manual /\ "disconnect" \in Faults
  /\ PassDone
  /\ NoWrite

GcStep == StartPass(TRUE) \/ StartPass(FALSE) \/ SelectDeleted \/ DeleteVectors \/ PurgeRows \/ SweepFails
            \/ PruneFiles \/ PassEnds
=============================================================================
