---------------------------- MODULE FileCommands ----------------------------
(***************************************************************************)
(* The endpoints that change files without taking their claim: POST        *)
(* /cancel, DELETE /files and POST /retry.  The first two select paths in  *)
(* one transaction and change them in later ones, [api].path_batch_size    *)
(* at a time; the selector of a request may match any set of files.        *)
(***************************************************************************)
EXTENDS IndexStore

CONSTANTS
  Commands,      \* handlers of these endpoints that may run at once
  CommandKinds   \* the endpoints clients use

ASSUME CommandAssumption == CommandKinds \subseteq {"cancel", "delete", "retry"}

VARIABLE command   \* [kind, paths: selected and not yet changed] per handler

CommandTypeOK ==
  command \in [Commands -> [kind : {"cancel", "delete"}, paths : SUBSET Files]]

CommandInit == command = [c \in Commands |-> [kind |-> "cancel", paths |-> {}]]

Selects(c, kind, P) ==
  /\ command[c].paths = {} /\ kind \in CommandKinds
  /\ command' = [command EXCEPT ![c] = [kind |-> kind, paths |-> P]]
  /\ NoWrite

(* build_file_filter leaves out the files already 'deleted'. *)
SelectCancel(c, P) ==
  /\ \A f \in P : status[f] = "indexing"
  /\ Selects(c, "cancel", P)

SelectDelete(c, P) ==
  /\ \A f \in P : status[f] \notin {"absent", "deleted"}
  /\ Selects(c, "delete", P)

Applied(c, B) ==
  /\ DropChunksOf(B)
  /\ command' = [command EXCEPT ![c].paths = @ \ B]
  /\ UNCHANGED <<sha, retries, chunker, embeddedBy, vectors>>

(* The status is re-asserted for the file row, not for its chunks. *)
ApplyCancel(c, B) ==
  /\ command[c].kind = "cancel" /\ B \subseteq command[c].paths
  /\ status' = [f \in Files |-> IF f \in B /\ status[f] = "indexing"
                                  THEN "cancelled" ELSE status[f]]
  /\ Applied(c, B)

ApplyDelete(c, B) ==
  /\ command[c].kind = "delete" /\ B \subseteq command[c].paths
  /\ status' = [f \in Files |-> IF f \in B /\ status[f] # "absent"
                                  THEN "deleted" ELSE status[f]]
  /\ Applied(c, B)

(* The client goes away, or a batch fails: earlier batches are committed. *)
CommandStops(c) ==
  /\ command[c].paths # {} /\ {"disconnect", "db"} \cap Faults # {}
  /\ command' = [command EXCEPT ![c].paths = {}]
  /\ NoWrite

(* POST /retry: one UPDATE that clears the budget of 'failed' files. *)
PostRetry(P) ==
  /\ "retry" \in CommandKinds
  /\ \A f \in P : status[f] = "failed"
  /\ retries' = [f \in Files |-> IF f \in P THEN 0 ELSE retries[f]]
  /\ UNCHANGED <<status, sha, chunker, embeddedBy, chunkVars, vectors, command>>

CommandServed(c) ==
  \/ \E B \in (SUBSET command[c].paths) \ {{}} :
       ApplyCancel(c, B) \/ ApplyDelete(c, B)
  \/ CommandStops(c)

CommandSent(c) ==
  \E P \in (SUBSET Files) \ {{}} :
    SelectCancel(c, P) \/ SelectDelete(c, P) \/ PostRetry(P)
=============================================================================
