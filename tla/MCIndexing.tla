----------------------------- MODULE MCIndexing -----------------------------
(***************************************************************************)
(* Instances of Indexing for TLC.                                          *)
(***************************************************************************)
EXTENDS IndexingInvariants, TLC

CONSTANTS f1, f2, v1, v2, r1, r2, m1, m2, t1, k1

(* Every model of the registry was trained with the same tokenizer. *)
OneTokenizer == [m \in Models |-> t1]

(* One chunk per text, two, or as many as the number of the file. *)
OnePiece == [x \in Files \X Versions |-> 1]
TwoPieces == [x \in Files \X Versions |-> 2]
UnevenPieces == [x \in Files \X Versions |-> IF x[1] = f1 THEN 1 ELSE 2]

Symmetry ==
  Permutations(Versions) \cup Permutations(Requests) \cup Permutations(Models)
=============================================================================
