------------------------------- MODULE Accounts -------------------------------
(***************************************************************************)
(* Provider identities, and the ways into an account that are attached and *)
(* removed one by one: domain/Accounts.ts, the registration and removal of *)
(* passkeys/Passkeys.ts, and what races with them: the sweep of an         *)
(* unproven account (email-otp/EmailOtp.ts) and a password sign-up.        *)
(*                                                                         *)
(* All identities report one and the same address.  A user is one of those *)
(* that were there at first or is named by the request that created it.    *)
(* Requests interleave statement by statement: what a transaction inserts  *)
(* is seen by others when it commits, a second insert of the same key      *)
(* waits for the first to commit or roll back, and a row that is locked    *)
(* waits for whoever locked it.                                            *)
(***************************************************************************)
EXTENDS Naturals, FiniteSets

CONSTANTS
    Request,    \* requests, one operation each
    Does,       \* the operations that each request may turn out to be
    User,       \* the users that were there before the requests
    Identity,   \* provider identities: an issuer and a subject
    Initial,    \* wrote whatever was there before the requests
    NoUser

Op == {"callback", "link", "unlink", "register", "remove", "sweep", "signUp"}

UserId == User \cup Request

\* Whose key is a user is the credential row of that user.
Key == Identity \cup UserId
Writer == Request \cup {Initial}

Account == [key: Key, owner: UserId, signsIn: BOOLEAN, by: Writer]
Passkey == [owner: UserId, by: Writer]

ASSUME OperationsAreKnown == Does \in [Request -> SUBSET Op]
ASSUME NamesAreDistinct ==
    /\ User \cap Request = {}
    /\ Identity \cap UserId = {}
    /\ Initial \notin Request
    /\ NoUser \notin UserId

VARIABLES
    users,      \* who exists
    holder,     \* who of them holds the address that the identities report
    verified,   \* who of them has proved the address of theirs
    accounts,
    passkeys,
    req,        \* the requests
    announced,  \* the accounts whose link was published
    stored,     \* history: every account that was ever committed
    removed     \* history: the keys of the accounts that were ever removed

vars == <<users, holder, verified, accounts, passkeys, req,
          announced, stored, removed>>

Step == {"idle", "identity", "address", "create", "lock", "insert", "commit",
         "announce", "rows", "factors", "delete", "ways", "others", "drop",
         "register", "sweep", "revoke", "sweepEnd", "done"}

Answer == {"none", "signedIn", "refused", "conflict", "removed", "registered"}

\* user: whose account it is about.  A request creates the user of its own name.
\* trusted and proven: what the gate of an implicit link asks of the provider.
\* holds, locked: the user row and the account rows that it has locked.
\* counted: the accounts that an unlink leaves behind and that are ways in.
\* drops: the passkeys that a sweep deletes.
RequestState ==
    [op: Op \cup {"none"}, at: Step, user: UserId \cup {NoUser}, key: Key,
     passkey: Passkey, trusted: BOOLEAN, proven: BOOLEAN, retried: BOOLEAN,
     holds: UserId \cup {NoUser},
     locked: SUBSET Account, counted: SUBSET Account,
     drops: SUBSET Passkey, answer: Answer]

NoRequest ==
    [op |-> "none", at |-> "idle", user |-> NoUser, key |-> CHOOSE k \in Key : TRUE,
     passkey |-> CHOOSE k \in Passkey : TRUE,
     trusted |-> FALSE, proven |-> FALSE, retried |-> FALSE,
     holds |-> NoUser,
     locked |-> {}, counted |-> {}, drops |-> {}, answer |-> "none"]

Init ==
    /\ users = User
    /\ holder \in User \cup {NoUser}
    /\ verified \in SUBSET User
    /\ accounts \in SUBSET [key: Identity \cup User, owner: User, signsIn: BOOLEAN, by: {Initial}]
    /\ \A a, b \in accounts : a.key = b.key => a = b
    /\ \A a \in accounts : IF a.key \in Identity THEN a.signsIn ELSE a.owner = a.key
    /\ passkeys \in SUBSET [owner: User, by: {Initial}]
    /\ req = [r \in Request |-> NoRequest]
    /\ announced = {}
    /\ stored = accounts
    /\ removed = {}

-----------------------------------------------------------------------------

At(r, step) == req[r].at = step

Becomes(r, state) == req' = [req EXCEPT ![r] = state]

Begins(r, op, state) ==
    /\ At(r, "idle")
    /\ op \in Does[r]
    /\ Becomes(r, [state EXCEPT !.op = op])

\* The end of a transaction, whatever became of its writes.
Ends(r, answer) ==
    Becomes(r, [NoRequest EXCEPT !.op = req[r].op, !.at = "done", !.answer = answer])

SignsIn(r, step, u) ==
    Becomes(r, [NoRequest EXCEPT !.op = req[r].op, !.at = step, !.answer = "signedIn",
                                 !.key = req[r].key, !.user = u])

AccountsOf(u) == {a \in accounts : a.owner = u}
PasskeysOf(u) == {k \in passkeys : k.owner = u}

\* canSignIn: a credential row only if it carries a hash.
WaysIn(u) == {a \in AccountsOf(u) : a.signsIn} \cup PasskeysOf(u)

MayLockUser(r, u) == \A q \in Request \ {r} : req[q].holds # u

\* A row that references a user waits for whoever has locked the user row.
MayReference(r, u) == MayLockUser(r, u)

MayLock(r, rows) == \A q \in Request \ {r} : req[q].locked \cap rows = {}

\* What the open transaction of a request has inserted: a user, an account.
CreatesUser(r) == req[r].user = r /\ req[r].at \in {"insert", "commit"}
Insert(r) == [key |-> req[r].key, owner |-> req[r].user, signsIn |-> TRUE, by |-> r]

PendingAddress(r) == \E q \in Request \ {r} : CreatesUser(q)
Pending(r, key) == \E q \in Request \ {r} : At(q, "commit") /\ req[q].key = key

Taken(key) == \E a \in accounts : a.key = key

-----------------------------------------------------------------------------
(* linkOAuth and linkToUser *)

\* A callback, with what the provider says of the address.
Callback(r, i, trusted, proven) ==
    /\ Begins(r, "callback",
           [NoRequest EXCEPT !.at = "identity", !.key = i, !.trusted = trusted, !.proven = proven])
    /\ UNCHANGED <<users, holder, verified, accounts, passkeys,
                   announced, stored, removed>>

\* The deliberate link of a user who is signed in.
Link(r, u, i) ==
    /\ Begins(r, "link", [NoRequest EXCEPT !.at = "identity", !.user = u, !.key = i])
    /\ UNCHANGED <<users, holder, verified, accounts, passkeys,
                   announced, stored, removed>>

\* Mutant: a link is answered with the caller, whoever owns the identity.
FindIdentityOfAnyone(r) ==
    /\ At(r, "identity")
    /\ \/ /\ ~Taken(req[r].key)
          /\ Becomes(r, [req[r] EXCEPT
                 !.at = IF req[r].op = "link" THEN "lock" ELSE "address"])
       \/ \E a \in accounts :
             /\ a.key = req[r].key
             /\ SignsIn(r, "done", IF req[r].op = "link" THEN req[r].user ELSE a.owner)
    /\ UNCHANGED <<users, holder, verified, accounts, passkeys,
                   announced, stored, removed>>

\* findByIssuerAccountId.  A known identity is a sign-in: its tokens are refreshed.
FindIdentity(r) ==
    /\ At(r, "identity")
    /\ \/ /\ ~Taken(req[r].key)
          /\ Becomes(r, [req[r] EXCEPT
                 !.at = IF req[r].op = "link" THEN "lock" ELSE "address"])
       \/ \E a \in accounts :
             /\ a.key = req[r].key
             /\ IF req[r].op = "link" /\ a.owner # req[r].user
                THEN Ends(r, "refused")
                ELSE SignsIn(r, "done", a.owner)
    /\ UNCHANGED <<users, holder, verified, accounts, passkeys,
                   announced, stored, removed>>

\* canLinkImplicitly.
CanLinkImplicitly(r, u) == req[r].proven /\ (req[r].trusted \/ u \in verified)

\* findByEmail.
FindByAddress(r) ==
    /\ At(r, "address")
    /\ IF holder = NoUser
       THEN Becomes(r, [req[r] EXCEPT !.at = "create"])
       ELSE IF CanLinkImplicitly(r, holder)
            THEN Becomes(r, [req[r] EXCEPT !.at = "lock", !.user = holder])
            ELSE Ends(r, "refused")
    /\ UNCHANGED <<users, holder, verified, accounts, passkeys,
                   announced, stored, removed>>

\* A unique key refuses an insert and the transaction is rolled back.  A callback
\* is resolved once more.
Refused(r) ==
    IF req[r].op = "callback" /\ ~req[r].retried
    THEN Becomes(r, [NoRequest EXCEPT
             !.op = "callback", !.at = "identity", !.key = req[r].key, !.retried = TRUE,
             !.trusted = req[r].trusted, !.proven = req[r].proven])
    ELSE Ends(r, "conflict")

\* Mutant: the user row is committed before the account is inserted.
CreateUserAlone(r) ==
    /\ At(r, "create")
    /\ ~PendingAddress(r)
    /\ IF holder # NoUser
       THEN Refused(r) /\ UNCHANGED <<users, holder>>
       ELSE /\ users' = users \cup {r}
            /\ holder' = r
            /\ Becomes(r, [req[r] EXCEPT !.at = "insert", !.user = r,
                                         !.key = IF req[r].op = "signUp" THEN r ELSE req[r].key])
    /\ UNCHANGED <<verified, accounts, passkeys, announced, stored, removed>>

\* provision: the user row of a new person, with the address.
CreateUser(r) ==
    /\ At(r, "create")
    /\ ~PendingAddress(r)
    /\ IF holder # NoUser
       THEN Refused(r)
       ELSE Becomes(r, [req[r] EXCEPT !.at = "insert", !.user = r,
                                      !.key = IF req[r].op = "signUp" THEN r ELSE req[r].key])
    /\ UNCHANGED <<users, holder, verified, accounts, passkeys,
                   announced, stored, removed>>

\* Mutant: the sweep starts without the lock.
LockUserRowOfLinks(r) ==
    /\ At(r, "lock")
    /\ IF req[r].op = "sweep"
       THEN Becomes(r, [req[r] EXCEPT !.at = "sweep"])
       ELSE /\ MayLockUser(r, req[r].user)
            /\ Becomes(r, [req[r] EXCEPT !.holds = req[r].user, !.at = "insert"])
    /\ UNCHANGED <<users, holder, verified, accounts, passkeys,
                   announced, stored, removed>>

\* linkExisting, and the sweep: the user row is locked first.
LockUserRow(r) ==
    /\ At(r, "lock")
    /\ MayLockUser(r, req[r].user)
    /\ Becomes(r, [req[r] EXCEPT !.holds = req[r].user,
                                 !.at = IF req[r].op = "sweep" THEN "sweep" ELSE "insert"])
    /\ UNCHANGED <<users, holder, verified, accounts, passkeys,
                   announced, stored, removed>>

\* Mutant: the link is published from within the transaction.
InsertAccountAloud(r) ==
    /\ At(r, "insert")
    /\ MayReference(r, req[r].user)
    /\ ~Pending(r, req[r].key)
    /\ IF Taken(req[r].key)
       THEN Refused(r)
       ELSE Becomes(r, [req[r] EXCEPT !.at = "commit"])
    /\ announced' = announced \cup {[key |-> req[r].key, by |-> r]}
    /\ UNCHANGED <<users, holder, verified, accounts, passkeys, stored, removed>>

InsertAccount(r) ==
    /\ At(r, "insert")
    /\ MayReference(r, req[r].user)
    /\ ~Pending(r, req[r].key)
    /\ IF Taken(req[r].key)
       THEN Refused(r)
       ELSE Becomes(r, [req[r] EXCEPT !.at = "commit"])
    /\ UNCHANGED <<users, holder, verified, accounts, passkeys,
                   announced, stored, removed>>

\* The user and the account commit together.  A password proves no address.
Commit(r) ==
    /\ At(r, "commit")
    /\ accounts' = accounts \cup {Insert(r)}
    /\ stored' = stored \cup {Insert(r)}
    /\ IF CreatesUser(r)
       THEN /\ users' = users \cup {r}
            /\ holder' = r
            /\ verified' = IF req[r].proven THEN verified \cup {r} ELSE verified
       ELSE UNCHANGED <<users, holder, verified>>
    /\ SignsIn(r, "announce", req[r].user)
    /\ UNCHANGED <<passkeys, announced, removed>>

\* Every link is published once its row is committed.
Announce(r) ==
    /\ At(r, "announce")
    /\ announced' = announced \cup {[key |-> req[r].key, by |-> r]}
    /\ Becomes(r, [req[r] EXCEPT !.at = "done"])
    /\ UNCHANGED <<users, holder, verified, accounts, passkeys, stored, removed>>

\* A password sign-up with the same address, whose transaction has the same shape.
SignUp(r) ==
    /\ Begins(r, "signUp", [NoRequest EXCEPT !.at = "create"])
    /\ UNCHANGED <<users, holder, verified, accounts, passkeys,
                   announced, stored, removed>>

-----------------------------------------------------------------------------
(* unlink *)

Unlink(r, u, key) ==
    /\ Begins(r, "unlink", [NoRequest EXCEPT !.at = "rows", !.user = u, !.key = key])
    /\ UNCHANGED <<users, holder, verified, accounts, passkeys,
                   announced, stored, removed>>

Target(r) == {a \in AccountsOf(req[r].user) : a.key = req[r].key}

\* Mutant: the rows are counted by a plain read.
LockRowsNot(r) ==
    /\ At(r, "rows")
    /\ IF Target(r) = {}
       THEN Ends(r, "refused")
       ELSE Becomes(r, [req[r] EXCEPT
                !.at = "factors",
                !.counted = {a \in AccountsOf(req[r].user) \ Target(r) : a.signsIn}])
    /\ UNCHANGED <<users, holder, verified, accounts, passkeys,
                   announced, stored, removed>>

\* listByUserIdForUpdate.
LockRows(r) ==
    /\ At(r, "rows")
    /\ MayLock(r, AccountsOf(req[r].user))
    /\ IF Target(r) = {}
       THEN Ends(r, "refused")
       ELSE Becomes(r, [req[r] EXCEPT
                !.at = "factors",
                !.locked = AccountsOf(req[r].user),
                !.counted = {a \in AccountsOf(req[r].user) \ Target(r) : a.signsIn}])
    /\ UNCHANGED <<users, holder, verified, accounts, passkeys,
                   announced, stored, removed>>

\* listAuthenticators: a plain read, also in the transaction.
CountFactors(r) ==
    /\ At(r, "factors")
    /\ IF req[r].counted \cup PasskeysOf(req[r].user) = {}
       THEN Ends(r, "refused")
       ELSE Becomes(r, [req[r] EXCEPT !.at = "delete"])
    /\ UNCHANGED <<users, holder, verified, accounts, passkeys,
                   announced, stored, removed>>

\* deleteById and the commit.
DeleteAccount(r) ==
    /\ At(r, "delete")
    /\ accounts' = accounts \ Target(r)
    /\ removed' = removed \cup {req[r].key}
    /\ Ends(r, "removed")
    /\ UNCHANGED <<users, holder, verified, passkeys, announced, stored>>

-----------------------------------------------------------------------------
(* Passkeys: every statement stands alone *)

\* The ceremony's challenge has been claimed and its response verified.
Register(r, u) ==
    /\ Begins(r, "register", [NoRequest EXCEPT !.at = "register", !.user = u])
    /\ UNCHANGED <<users, holder, verified, accounts, passkeys,
                   announced, stored, removed>>

CreatePasskey(r) ==
    /\ At(r, "register")
    /\ MayReference(r, req[r].user)
    /\ passkeys' = passkeys \cup {[owner |-> req[r].user, by |-> r]}
    /\ Ends(r, "registered")
    /\ UNCHANGED <<users, holder, verified, accounts, announced, stored, removed>>

Remove(r, u, k) ==
    /\ Begins(r, "remove", [NoRequest EXCEPT !.at = "ways", !.user = u, !.passkey = k])
    /\ UNCHANGED <<users, holder, verified, accounts, passkeys,
                   announced, stored, removed>>

\* hasAnotherWayIn: the accounts, then the other passkeys.
AnotherAccount(r) ==
    /\ At(r, "ways")
    /\ Becomes(r, [req[r] EXCEPT
           !.at = IF \E a \in AccountsOf(req[r].user) : a.signsIn THEN "drop" ELSE "others"])
    /\ UNCHANGED <<users, holder, verified, accounts, passkeys,
                   announced, stored, removed>>

AnotherPasskey(r) ==
    /\ At(r, "others")
    /\ IF PasskeysOf(req[r].user) \ {req[r].passkey} = {}
       THEN Ends(r, "refused")
       ELSE Becomes(r, [req[r] EXCEPT !.at = "drop"])
    /\ UNCHANGED <<users, holder, verified, accounts, passkeys,
                   announced, stored, removed>>

DropPasskey(r) ==
    /\ At(r, "drop")
    /\ \A q \in Request \ {r} : req[r].passkey \notin req[q].drops
    /\ passkeys' = passkeys \ {req[r].passkey}
    /\ Ends(r, "removed")
    /\ UNCHANGED <<users, holder, verified, accounts, announced, stored, removed>>

-----------------------------------------------------------------------------
(* reclaim: a mailed code has proved an address that its user never proved *)

Sweep(r, u) ==
    /\ u \notin verified
    /\ Begins(r, "sweep", [NoRequest EXCEPT !.at = "lock", !.user = u])
    /\ UNCHANGED <<users, holder, verified, accounts, passkeys,
                   announced, stored, removed>>

\* listByUserIdForUpdate and deleteByUserId.
SweepRows(r) ==
    /\ At(r, "sweep")
    /\ MayLock(r, AccountsOf(req[r].user))
    /\ Becomes(r, [req[r] EXCEPT !.at = "revoke", !.locked = AccountsOf(req[r].user)])
    /\ UNCHANGED <<users, holder, verified, accounts, passkeys,
                   announced, stored, removed>>

\* revokeAllAuthenticators, in the same transaction.
SweepFactors(r) ==
    /\ At(r, "revoke")
    /\ Becomes(r, [req[r] EXCEPT !.at = "sweepEnd", !.drops = PasskeysOf(req[r].user)])
    /\ UNCHANGED <<users, holder, verified, accounts, passkeys,
                   announced, stored, removed>>

CommitSweep(r) ==
    /\ At(r, "sweepEnd")
    /\ accounts' = accounts \ req[r].locked
    /\ passkeys' = passkeys \ req[r].drops
    /\ verified' = verified \cup {req[r].user}
    /\ removed' = removed \cup {a.key : a \in req[r].locked}
    /\ Ends(r, "removed")
    /\ UNCHANGED <<users, holder, announced, stored>>

-----------------------------------------------------------------------------

\* Mutant: a transaction that fails keeps its locks.
AbandonLocked(r) ==
    /\ req[r].at \notin {"idle", "done"}
    /\ Becomes(r, [req[r] EXCEPT !.at = "done", !.counted = {}])
    /\ UNCHANGED <<users, holder, verified, accounts, passkeys,
                   announced, stored, removed>>

\* Refused by a hook, failed or crashed: an open transaction is rolled back.
Abandon(r) ==
    /\ req[r].at \notin {"idle", "done"}
    /\ Ends(r, "none")
    /\ UNCHANGED <<users, holder, verified, accounts, passkeys,
                   announced, stored, removed>>

Start(r) ==
    \/ \E i \in Identity, trusted, proven \in BOOLEAN : Callback(r, i, trusted, proven)
    \/ \E u \in users, i \in Identity : Link(r, u, i)
    \/ \E a \in accounts : Unlink(r, a.owner, a.key)
    \/ \E u \in users : Register(r, u) \/ Sweep(r, u)
    \/ \E k \in passkeys : Remove(r, k.owner, k)
    \/ SignUp(r)

Continue(r) ==
    \/ FindIdentity(r) \/ FindByAddress(r)
    \/ CreateUser(r) \/ LockUserRow(r) \/ InsertAccount(r) \/ Commit(r) \/ Announce(r)
    \/ LockRows(r) \/ CountFactors(r) \/ DeleteAccount(r)
    \/ CreatePasskey(r)
    \/ AnotherAccount(r) \/ AnotherPasskey(r) \/ DropPasskey(r)
    \/ SweepRows(r) \/ SweepFactors(r) \/ CommitSweep(r)

Next == \E r \in Request : Start(r) \/ Continue(r) \/ Abandon(r)

\* The runtime runs every request on, and a lock is granted in turn.
Fairness == \A r \in Request : WF_vars(Continue(r))

Spec == Init /\ [][Next]_vars /\ Fairness

-----------------------------------------------------------------------------
(* Properties *)

InTransaction(r) ==
    req[r].at \in {"insert", "commit", "factors", "delete", "sweep", "revoke", "sweepEnd"}

\* Every variable has its type, and whoever holds a row is in a transaction.
TypeOK ==
    /\ users \subseteq UserId
    /\ holder \in users \cup {NoUser}
    /\ verified \subseteq users
    /\ accounts \subseteq Account
    /\ passkeys \subseteq Passkey
    /\ req \in [Request -> RequestState]
    /\ announced \subseteq [key: Key, by: Request]
    /\ stored \subseteq Account
    /\ removed \subseteq Key
    /\ \A r \in Request :
          InTransaction(r) \/ (req[r].holds = NoUser /\ req[r].locked = {})

\* Racing callbacks, links and sign-ups leave every identity with one owner, and
\* the owner exists.
OneOwner ==
    \A a \in accounts :
        /\ a.owner \in users
        /\ \A b \in accounts : a.key = b.key => a = b

SignedInBy(r) == req[r].op \in {"callback", "link"} /\ req[r].answer = "signedIn"

\* Two callbacks for one identity, a first sign-in among them, never sign in as two
\* different people, unless the identity was unlinked meanwhile.
OneIdentityOnePerson ==
    \A q, r \in Request :
        /\ SignedInBy(q)
        /\ SignedInBy(r)
        /\ req[q].key = req[r].key
        /\ req[q].key \notin removed
        => req[q].user = req[r].user

\* Whoever is told of a link, or signed in, has a row that was really committed:
\* a retried or abandoned callback announces nothing.
AnnouncedWasStored ==
    \A n \in announced : \E a \in stored : a.key = n.key /\ a.by = n.by

\* While an unlink goes from its count to its delete, the accounts it counted stay
\* ways in: two unlinks never count on each other's account.
CountedAccountStays ==
    \A r \in Request : req[r].counted \subseteq accounts

\* A user is created with a way in, or not at all, whatever fails and wherever.
ProvisionedWhole ==
    [][\A u \in users' \ users : \E a \in accounts' : a.owner = u /\ a.signsIn]_vars

Reclaims(r) == At(r, "sweepEnd") /\ req'[r].answer = "removed"

\* The sweep of an unproven account misses nothing that is being attached meanwhile:
\* no account and no passkey is left when it commits.
SweepMissesNothing ==
    [][\A r \in Request :
        Reclaims(r) => \A m \in accounts' \cup passkeys' : m.owner # req[r].user]_vars

\* Nobody waits on everybody: every request that started ends.
Finishes == \A r \in Request : ~At(r, "idle") ~> At(r, "done")
=============================================================================
