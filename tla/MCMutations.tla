---------------------------- MODULE MCMutations ----------------------------
(***************************************************************************)
(* Instances of Mutations for TLC.                                         *)
(***************************************************************************)
EXTENDS Mutations, TLC

CONSTANTS k1, alice, bob, c1, c2, c3

Mutation(kind, owner) == [kind |-> kind, key |-> k1, owner |-> owner]

AllMutations ==
    {Mutation(kind, alice) : kind \in {"consume", "update", "touch", "delete",
                                        "insert", "upsert"}}
        \cup {Mutation("upsert", bob)}

CallerSymmetry == Permutations({c1, c2, c3})
=============================================================================
