----------------------------- MODULE MCAccounts -----------------------------
(***************************************************************************)
(* Instances of Accounts for TLC.                                          *)
(***************************************************************************)
EXTENDS Accounts, TLC

CONSTANTS r1, r2, r3, alice, i1, i2

\* Every operation.
Anything == [r \in Request |-> Op]
=============================================================================
