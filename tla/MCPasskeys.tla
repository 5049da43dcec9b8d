------------------------------ MODULE MCPasskeys ------------------------------
(* Instances of Passkeys for TLC. *)
EXTENDS Passkeys, TLC

CONSTANTS ann, bob, k1, k2, c1, c2, r1, r2, r3

Interchangeable ==
    Permutations({ann, bob}) \cup Permutations({k1, k2}) \cup Permutations({c1, c2}) \cup Permutations({r1, r2, r3})
=============================================================================
