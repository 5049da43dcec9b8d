-------------------------- MODULE MCProviderTokens --------------------------
(* Instances of ProviderTokens for TLC. *)
EXTENDS ProviderTokens, TLC

CONSTANTS i1, i2, sue, t1, t2, t3, r1, r2, r3

Interchangeable ==
    Permutations({i1, i2}) \cup Permutations({t1, t2, t3}) \cup Permutations({r1, r2, r3})
=============================================================================
