------------------------------ MODULE MCUsers -------------------------------
(* Instances of Users for TLC. *)
EXTENDS Users, TLC

CONSTANTS ann, bob, home, work, r1, r2

Interchangeable ==
    Permutations({home, work}) \cup Permutations({r1, r2})
=============================================================================
