----------------------------- MODULE MCEmailOtp -----------------------------
(***************************************************************************)
(* Instances of EmailOtp for TLC.                                          *)
(***************************************************************************)
EXTENDS EmailOtp, TLC

CONSTANTS h1, h2, c1, c2, k1, k2, ada

CallerSymmetry == Permutations({c1, c2})
=============================================================================
