--------------------------- MODULE FileLifecycle ----------------------------
(***************************************************************************)
(* What the index promises about one file: it is published only whole, in  *)
(* the version it was last taken in, and only work that is pending ends.   *)
(*   absent    no row                                                      *)
(*   pending   being indexed, in some version                              *)
(*   published searchable: every chunk shown has a vector and was cut from *)
(*             that version                                                *)
(*   failed, stopped   not searchable until taken in again                 *)
(*   deleted   waiting to disappear                                        *)
(***************************************************************************)
CONSTANTS Versions, None

VARIABLES stage, version

file == <<stage, version>>

Init == stage = "absent" /\ version = None

(* Somebody pushes the file: any stage, any version. *)
TakeIn(v) == stage' = "pending" /\ version' = v

(* A retry, or a fresh embedding of the same chunks. *)
TryAgain ==
  /\ stage \in {"pending", "failed", "published"}
  /\ stage' = "pending" /\ UNCHANGED version

Publish == stage = "pending" /\ stage' = "published" /\ UNCHANGED version

GiveUp ==
  /\ stage = "pending"
  /\ stage' \in {"failed", "stopped"} /\ UNCHANGED version

Delete ==
  /\ stage # "absent"
  /\ stage' = "deleted" /\ UNCHANGED version

Disappear ==
  /\ stage = "deleted"
  /\ stage' = "absent" /\ version' = None

Next ==
  \/ \E v \in Versions : TakeIn(v)
  \/ TryAgain \/ Publish \/ GiveUp \/ Delete \/ Disappear

Spec == Init /\ [][Next]_file
=============================================================================
