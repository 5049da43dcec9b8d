---------------------------- MODULE MCPasswords ----------------------------
(***************************************************************************)
(* Instances of Passwords for TLC.                                         *)
(***************************************************************************)
EXTENDS Passwords, TLC

CONSTANTS r1, r2, old, new
=============================================================================
