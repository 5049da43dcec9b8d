--------------------------- MODULE Verifications ---------------------------
(***************************************************************************)
(* The single-use token table (domain/Verifications.ts over                *)
(* sql/stores/Verifications.ts), as operators on a set of rows.            *)
(*                                                                         *)
(* Each operator is one statement.  A row is found by its identifier - the *)
(* purpose and the subject it was issued for - and by the hash of its      *)
(* secret; the identifier is not unique, so nothing refuses a second row.  *)
(***************************************************************************)
EXTENDS Integers

IdentifierOf(purpose, subject) == [purpose |-> purpose, subject |-> subject]

Row(identifier, secret, payload, expiresAt) ==
    [identifier |-> identifier, secret |-> secret,
     payload |-> payload, expiresAt |-> expiresAt]

\* issue: the expiry is the caller's lifetime counted from now.
Issued(table, identifier, secret, payload, ttl, now) ==
    table \cup {Row(identifier, secret, payload, now + ttl)}

\* consume: DELETE ... WHERE identifier AND value_hash AND expires_at > now,
\* answering what it deleted.  An expired row is neither answered nor deleted.
Claimable(table, identifier, secret, now) ==
    {v \in table : /\ v.identifier = identifier
                   /\ v.secret = secret
                   /\ v.expiresAt > now}

\* retire: every outstanding row of one purpose and subject.
Retired(table, identifier) == {v \in table : v.identifier # identifier}

\* deleteExpired: the housekeeping sweep.
Swept(table, now) == {v \in table : v.expiresAt > now}
=============================================================================
