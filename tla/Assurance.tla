----------------------------- MODULE Assurance -----------------------------
(***************************************************************************)
(* Authentication assurance: the append-only log of what a person proved,  *)
(* the level derived from it, and the policies an endpoint states against  *)
(* it (domain/Assurance.ts, and the assurance half of domain/Sessions.ts). *)
(*                                                                         *)
(* A level is its rank (aal0 < aal1 < aal2 is 0 < 1 < 2).  A member of a   *)
(* policy that the code leaves undefined is a flag that is FALSE here: a   *)
(* policy stating an empty list of methods admits nobody, one that states  *)
(* no list admits everybody, and the two must not be confused.             *)
(***************************************************************************)
EXTENDS Integers, Sequences

CONSTANTS
    Method,          \* the names a ceremony can be recorded under
    RecoveryMethod   \* "recoveryCode", which allowRecovery: false strikes

ASSUME RecoveryIsAMethod == RecoveryMethod \in Method

Factor == {"knowledge", "possession", "inherence", "none"}

Aal == 0..2

\* Evidence that states no moment of its own completed just now (ago = 0);
\* evidence replayed through a pending second factor keeps the moment it had.
Evidence == [method: Method, factor: Factor, userVerified: BOOLEAN, ago: Nat]

Entry == [method: Method, factor: Factor, userVerified: BOOLEAN, completedAt: Nat]

StampEvidence(e, now) ==
    [method |-> e.method, factor |-> e.factor,
     userVerified |-> e.userVerified, completedAt |-> now - e.ago]

\* Nothing that judges a log reads its order, so it is judged as a set.
Entries(log) == {log[i] : i \in DOMAIN log}

\* The entries that count: a trusted-device skip proved nothing.
LiveEntries(entries) == {e \in entries : e.factor # "none"}

DeriveAal(entries) ==
    LET counted == LiveEntries(entries) IN
    IF counted = {} THEN 0
    ELSE IF \E e \in counted : e.userVerified THEN 2
    ELSE IF \E e, f \in counted : e.factor # f.factor THEN 2
    ELSE 1

-----------------------------------------------------------------------------

Policy == [aal: Aal,
           hasMaxAge: BOOLEAN, maxAge: Nat,
           hasMethods: BOOLEAN, methods: SUBSET Method,
           allowRecovery: BOOLEAN]

Considered(log, policy) ==
    {e \in Entries(log) : policy.allowRecovery \/ e.method # RecoveryMethod}

MeetsAssurance(session, policy, now) ==
    LET evidence == Considered(session.methods, policy) IN
    /\ DeriveAal(evidence) >= policy.aal
    /\ policy.hasMaxAge => session.authenticatedAt + policy.maxAge > now
    /\ policy.hasMethods =>
         \E e \in LiveEntries(evidence) : e.method \in policy.methods
=============================================================================
