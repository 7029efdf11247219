----------------------------- MODULE MCResearch -----------------------------
(***************************************************************************)
(* Instances of Research for TLC.                                          *)
(***************************************************************************)
EXTENDS ResearchProperties, TLC

CONSTANTS r1, r2
=============================================================================
