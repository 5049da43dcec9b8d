---------------------------- MODULE MCOAuthFlow -----------------------------
(* Instances of OAuthFlow for TLC. *)
EXTENDS OAuthFlow, TLC

CONSTANTS b1, b2, google, github, sue, tom, f1, f2, r1, r2

Interchangeable ==
    Permutations({b1, b2}) \cup Permutations({f1, f2}) \cup Permutations({sue, tom}) \cup Permutations({r1, r2})
=============================================================================
