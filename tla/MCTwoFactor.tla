---------------------------- MODULE MCTwoFactor ----------------------------
(***************************************************************************)
(* Instances of TwoFactor for TLC.                                         *)
(***************************************************************************)
EXTENDS TwoFactor, TLC

CONSTANTS r1, r2

RequestSymmetry == Permutations(Request)
=============================================================================
