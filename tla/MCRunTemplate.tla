---------------------------- MODULE MCRunTemplate ----------------------------
(***************************************************************************)
(* Instances of RunTemplate for TLC.                                       *)
(***************************************************************************)
EXTENDS RunTemplate

CONSTANTS r1, u1
=============================================================================
