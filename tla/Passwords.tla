------------------------------ MODULE Passwords ------------------------------
(***************************************************************************)
(* The ways into one account and how they are replaced:                    *)
(* domain/Passwords.ts, and the defence of email-otp/EmailOtp.ts that      *)
(* sweeps an unproven account.                                             *)
(*                                                                         *)
(* Requests interleave statement by statement.  A statement outside a      *)
(* transaction takes effect at once; one inside a transaction locks the    *)
(* row it changes, and its effect is seen by others when the transaction   *)
(* commits.  The rows are those of one user: the user row itself, at most  *)
(* one credential account, the sessions, and the links whose subject is    *)
(* the user.  Hashing is slow and pure: a password is compared with the    *)
(* hash that was read, and what is written later was hashed meanwhile.     *)
(*                                                                         *)
(* A request may end without further effect at any step, by a refusal (a   *)
(* policy, a hook), a fault or a crash: see Abandon.                       *)
(***************************************************************************)
CONSTANTS
    Request,        \* requests, one operation each
    Password,
    Initial,        \* wrote whatever was there before the requests
    NoCredential,   \* the account has no credential row
    NoHash,         \* a credential row without a hash, as a migration may leave
    Other,          \* a session that no password proved
    Nobody          \* holds a row that nobody has locked

ASSUME SomePassword == Password # {}
ASSUME NobodyIsNoRequest == Nobody \notin Request
ASSUME InitialIsNoRequest == Initial \notin Request

Writer == Request \cup {Initial}

Credential == [hash: Password \cup {NoHash}, by: Writer]

ASSUME NoCredentialIsNone == NoCredential \notin Credential

\* A session remembers the credential that proved it, by who wrote that.
Session == [id: Writer, via: Writer \cup {Other}]

\* userSubjectPurposes: a password reset, and the links of the other modules.
Purpose == {"reset", "other"}
Link == [by: Writer, purpose: Purpose]

VARIABLES
    verified,   \* users.email_verified
    credential, \* the account row of local:credential
    sessions,
    links,      \* outstanding links whose subject is the user
    userLock,   \* who holds the user row
    rowLock,    \* who holds the credential row
    req,        \* the requests
    before,     \* history: what a request found that is re-securing the account
    secured,    \* history: the requests that did re-secure it
    replaced    \* history: who wrote the credentials that a reset replaced

vars == <<verified, credential, sessions, links, userLock, rowLock, req,
          before, secured, replaced>>

Op == {"none", "signIn", "reset", "change", "set", "settle"}

Step == {"idle", "mint", "update", "changeHash", "changeRetire", "changeRevoke",
         "setHash", "lock", "insert", "sweep", "retire", "drop", "commit",
         "enter", "done"}

\* holding: the session a request came with.  revokes: an option of changePassword.
\* void and drop: the links and sessions its transaction has deleted so far.
RequestState ==
    [op: Op, at: Step, password: Password, via: Writer, holding: Writer,
     revokes: {"none", "others", "all"}, void: SUBSET Link, drop: SUBSET Session]

NoRequest ==
    [op |-> "none", at |-> "idle", password |-> CHOOSE p \in Password : TRUE,
     via |-> Initial, holding |-> Initial, revokes |-> "none", void |-> {}, drop |-> {}]

Init ==
    /\ verified \in BOOLEAN
    /\ credential \in {NoCredential} \cup [hash: Password \cup {NoHash}, by: {Initial}]
    /\ sessions = {[id |-> Initial, via |-> IF credential = NoCredential THEN Other ELSE Initial]}
    /\ links = [by: {Initial}, purpose: Purpose]
    /\ userLock = Nobody
    /\ rowLock = Nobody
    /\ req = [r \in Request |-> NoRequest]
    /\ before = [r \in Request |-> [sessions |-> {}, links |-> {}]]
    /\ secured = {}
    /\ replaced = {}

-----------------------------------------------------------------------------

At(r, step) == req[r].at = step

Goes(r, step) == req' = [req EXCEPT ![r].at = step]

\* A request reads or claims what it starts from and goes on to a step.
Begins(r, op, step, p) ==
    /\ At(r, "idle")
    /\ req' = [req EXCEPT ![r] =
           [NoRequest EXCEPT !.op = op, !.at = step, !.password = p]]

Has(p) == credential # NoCredential /\ credential.hash = p

Written(r) == [hash |-> req[r].password, by |-> r]

\* A foreign key: the insert of a session waits for whoever holds the user row.
MayReference(r) == userLock \in {Nobody, r}

MayWriteRow(r) == rowLock \in {Nobody, r}

Released(holder, r) == IF holder = r THEN Nobody ELSE holder

\* The end of a transaction.
Unlocks(r) ==
    /\ userLock' = Released(userLock, r)
    /\ rowLock' = Released(rowLock, r)

Remembers(r, found, outstanding) ==
    before' = [before EXCEPT ![r] = [sessions |-> found, links |-> outstanding]]

-----------------------------------------------------------------------------
(* signIn *)

\* The credential is read and the password compared with it.
SignIn(r, p) ==
    /\ Has(p)
    /\ At(r, "idle")
    /\ req' = [req EXCEPT ![r] =
           [NoRequest EXCEPT !.op = "signIn", !.at = "mint", !.via = credential.by]]
    /\ UNCHANGED <<verified, credential, sessions, links, userLock, rowLock,
                   before, secured, replaced>>

Mint(r) ==
    /\ At(r, "mint")
    /\ MayReference(r)
    /\ sessions' = sessions \cup {[id |-> r, via |-> req[r].via]}
    /\ Goes(r, "done")
    /\ UNCHANGED <<verified, credential, links, userLock, rowLock,
                   before, secured, replaced>>

-----------------------------------------------------------------------------
(* Links *)

\* requestReset, and the requests of the other modules whose subject is the user.
IssueLink(r, purpose) ==
    /\ At(r, "idle")
    /\ links' = links \cup {[by |-> r, purpose |-> purpose]}
    /\ Goes(r, "done")
    /\ UNCHANGED <<verified, credential, sessions, userLock, rowLock,
                   before, secured, replaced>>

\* Mutant: only the other reset links die.
RetireResetLinks(r) ==
    /\ At(r, "retire")
    /\ req' = [req EXCEPT ![r] =
           [@ EXCEPT !.void = {l \in links : l.purpose = "reset"},
                     !.at = IF req[r].op = "reset" THEN "drop" ELSE "commit"]]
    /\ UNCHANGED <<verified, credential, sessions, links, userLock, rowLock,
                   before, secured, replaced>>

\* retireUserSubjectTokens in a transaction: a statement for each purpose.
Retire(r) ==
    /\ At(r, "retire")
    /\ req' = [req EXCEPT ![r] =
           [@ EXCEPT !.void = links,
                     !.at = IF req[r].op = "reset" THEN "drop" ELSE "commit"]]
    /\ UNCHANGED <<verified, credential, sessions, links, userLock, rowLock,
                   before, secured, replaced>>

\* sessionStore.deleteByUserId in a transaction.
Drop(r) ==
    /\ At(r, "drop")
    /\ req' = [req EXCEPT ![r] =
           [@ EXCEPT !.drop = sessions,
                     !.at = IF req[r].op = "reset" THEN "commit" ELSE "retire"]]
    /\ UNCHANGED <<verified, credential, sessions, links, userLock, rowLock,
                   before, secured, replaced>>

-----------------------------------------------------------------------------
(* resetPassword *)

\* The link is consumed before anything else is done with it.
ClaimReset(r, l, p) ==
    /\ l \in links
    /\ l.purpose = "reset"
    /\ Begins(r, "reset", "update", p)
    /\ links' = links \ {l}
    /\ Remembers(r, sessions, links \ {l})
    /\ UNCHANGED <<verified, credential, sessions, userLock, rowLock, secured, replaced>>

\* Mutants: the update is a transaction of its own; the user row is locked on
\* every path.
UpdateHashAlone(r) ==
    /\ At(r, "update")
    /\ MayWriteRow(r)
    /\ IF credential = NoCredential
       THEN Goes(r, "lock") /\ UNCHANGED credential
       ELSE Goes(r, "retire") /\ credential' = Written(r)
    /\ UNCHANGED <<verified, sessions, links, userLock, rowLock, before, secured, replaced>>

UpdateHashThenLock(r) ==
    /\ At(r, "update")
    /\ MayWriteRow(r)
    /\ IF credential = NoCredential
       THEN UNCHANGED rowLock
       ELSE rowLock' = r
    /\ Goes(r, "lock")
    /\ UNCHANGED <<verified, credential, sessions, links, userLock, before, secured, replaced>>

\* updatePasswordHash: a missing row means that one is created.
UpdateHash(r) ==
    /\ At(r, "update")
    /\ MayWriteRow(r)
    /\ IF credential = NoCredential
       THEN Goes(r, "lock") /\ UNCHANGED rowLock
       ELSE Goes(r, "retire") /\ rowLock' = r
    /\ UNCHANGED <<verified, credential, sessions, links, userLock, before, secured, replaced>>

\* lockUserRow.
LockUser(r) ==
    /\ At(r, "lock")
    /\ userLock = Nobody
    /\ userLock' = r
    /\ Goes(r, IF req[r].op = "settle" THEN "sweep" ELSE "insert")
    /\ UNCHANGED <<verified, credential, sessions, links, rowLock, before, secured, replaced>>

\* createCredentialAccount: the unique key refuses a second row.
InsertCredential(r) ==
    /\ At(r, "insert")
    /\ IF credential = NoCredential
       THEN /\ Goes(r, IF req[r].op = "reset" THEN "retire" ELSE "commit")
            /\ UNCHANGED <<userLock, rowLock>>
       ELSE Goes(r, "done") /\ Unlocks(r)
    /\ UNCHANGED <<verified, credential, sessions, links, before, secured, replaced>>

CommitReset(r) ==
    /\ At(r, "commit")
    /\ req[r].op = "reset"
    /\ credential' = Written(r)
    /\ replaced' = IF credential = NoCredential THEN replaced
                   ELSE replaced \cup {credential.by}
    /\ links' = links \ req[r].void
    /\ sessions' = sessions \ req[r].drop
    /\ secured' = secured \cup {r}
    /\ Unlocks(r)
    /\ Goes(r, "done")
    /\ UNCHANGED <<verified, before>>

-----------------------------------------------------------------------------
(* changePassword: every statement stands alone *)

VerifyChange(r, s, current, p, revokes) ==
    /\ s \in sessions
    /\ Has(current)
    /\ At(r, "idle")
    /\ req' = [req EXCEPT ![r] =
           [NoRequest EXCEPT !.op = "change", !.at = "changeHash", !.password = p,
                             !.via = credential.by, !.holding = s.id, !.revokes = revokes]]
    /\ Remembers(r, CASE revokes = "none" -> {}
                      [] revokes = "others" -> {t \in sessions : t.id # s.id}
                      [] revokes = "all" -> sessions, links)
    /\ UNCHANGED <<verified, credential, sessions, links, userLock, rowLock,
                   secured, replaced>>

ChangeHash(r) ==
    /\ At(r, "changeHash")
    /\ MayWriteRow(r)
    /\ IF credential = NoCredential
       THEN Goes(r, "done") /\ UNCHANGED credential
       ELSE Goes(r, "changeRetire") /\ credential' = Written(r)
    /\ UNCHANGED <<verified, sessions, links, userLock, rowLock, before, secured, replaced>>

ChangeRetire(r) ==
    /\ At(r, "changeRetire")
    /\ links' = {}
    /\ Goes(r, "changeRevoke")
    /\ UNCHANGED <<verified, credential, sessions, userLock, rowLock,
                   before, secured, replaced>>

ChangeRevoke(r) ==
    /\ At(r, "changeRevoke")
    /\ sessions' = CASE req[r].revokes = "none" -> sessions
                     [] req[r].revokes = "others" -> {s \in sessions : s.id = req[r].holding}
                     [] req[r].revokes = "all" -> {}
    /\ secured' = secured \cup {r}
    /\ Goes(r, "done")
    /\ UNCHANGED <<verified, credential, links, userLock, rowLock, before, replaced>>

-----------------------------------------------------------------------------
(* setPassword: only where there is no password yet *)

CheckUnset(r, s, p) ==
    /\ s \in sessions
    /\ credential # NoCredential => credential.hash = NoHash
    /\ Begins(r, "set", IF credential = NoCredential THEN "lock" ELSE "setHash", p)
    /\ UNCHANGED <<verified, credential, sessions, links, userLock, rowLock,
                   before, secured, replaced>>

\* A row without a hash is given one; if it is gone by now, one is created.
SetHash(r) ==
    /\ At(r, "setHash")
    /\ MayWriteRow(r)
    /\ IF credential = NoCredential
       THEN Goes(r, "lock") /\ UNCHANGED credential
       ELSE Goes(r, "done") /\ credential' = Written(r)
    /\ UNCHANGED <<verified, sessions, links, userLock, rowLock, before, secured, replaced>>

CommitSet(r) ==
    /\ At(r, "commit")
    /\ req[r].op = "set"
    /\ credential' = Written(r)
    /\ Unlocks(r)
    /\ Goes(r, "done")
    /\ UNCHANGED <<verified, sessions, links, before, secured, replaced>>

-----------------------------------------------------------------------------
(* settle and reclaim: a mailed code proved the address *)

\* The user is read; what was read decides whether the account is swept.
FindUser(r) ==
    /\ At(r, "idle")
    /\ req' = [req EXCEPT ![r] = [NoRequest EXCEPT
           !.op = "settle", !.at = IF verified THEN "enter" ELSE "lock"]]
    /\ Remembers(r, IF verified THEN {} ELSE sessions, links)
    /\ UNCHANGED <<verified, credential, sessions, links, userLock, rowLock,
                   secured, replaced>>

\* The account rows are locked and deleted.
Sweep(r) ==
    /\ At(r, "sweep")
    /\ MayWriteRow(r)
    /\ rowLock' = IF credential = NoCredential THEN rowLock ELSE r
    /\ Goes(r, "drop")
    /\ UNCHANGED <<verified, credential, sessions, links, userLock,
                   before, secured, replaced>>

CommitReclaim(r) ==
    /\ At(r, "commit")
    /\ req[r].op = "settle"
    /\ credential' = IF rowLock = r THEN NoCredential ELSE credential
    /\ sessions' = sessions \ req[r].drop
    /\ links' = links \ req[r].void
    /\ verified' = TRUE
    /\ secured' = secured \cup {r}
    /\ Unlocks(r)
    /\ Goes(r, "enter")
    /\ UNCHANGED <<before, replaced>>

\* The sign-in code mints a session, the reset code a reset link.
Enter(r) ==
    /\ At(r, "enter")
    /\ \/ /\ MayReference(r)
          /\ sessions' = sessions \cup {[id |-> r, via |-> Other]}
          /\ UNCHANGED links
       \/ /\ links' = links \cup {[by |-> r, purpose |-> "reset"]}
          /\ UNCHANGED sessions
    /\ Goes(r, "done")
    /\ UNCHANGED <<verified, credential, userLock, rowLock, before, secured, replaced>>

\* verifyEmail, or the mailed code that only proves the address: nothing is swept.
VerifyEmail(r) ==
    /\ At(r, "idle")
    /\ userLock = Nobody
    /\ verified' = TRUE
    /\ Goes(r, "done")
    /\ UNCHANGED <<credential, sessions, links, userLock, rowLock,
                   before, secured, replaced>>

-----------------------------------------------------------------------------

\* Refused, failed or crashed: an open transaction is rolled back.
Abandon(r) ==
    /\ req[r].at \notin {"idle", "done"}
    /\ Unlocks(r)
    /\ Goes(r, "done")
    /\ UNCHANGED <<verified, credential, sessions, links, before, secured, replaced>>

Start(r) ==
    \/ \E p \in Password : SignIn(r, p)
    \/ \E purpose \in Purpose : IssueLink(r, purpose)
    \/ \E l \in links, p \in Password : ClaimReset(r, l, p)
    \/ \E s \in sessions, current, p \in Password, revokes \in {"none", "others", "all"} :
          VerifyChange(r, s, current, p, revokes)
    \/ \E s \in sessions, p \in Password : CheckUnset(r, s, p)
    \/ FindUser(r)
    \/ VerifyEmail(r)

Continue(r) ==
    \/ Mint(r)
    \/ UpdateHash(r) \/ LockUser(r) \/ InsertCredential(r)
    \/ Retire(r) \/ Drop(r) \/ CommitReset(r)
    \/ ChangeHash(r) \/ ChangeRetire(r) \/ ChangeRevoke(r)
    \/ SetHash(r) \/ CommitSet(r)
    \/ Sweep(r) \/ CommitReclaim(r) \/ Enter(r)

Next == \E r \in Request : Start(r) \/ Continue(r) \/ Abandon(r)

\* The runtime runs every request on, and a row lock is granted in turn.
Fairness == \A r \in Request : WF_vars(Continue(r))

Spec == Init /\ [][Next]_vars /\ Fairness

-----------------------------------------------------------------------------
(* Properties *)

InTransaction(r) ==
    req[r].at \in {"insert", "sweep", "retire", "drop", "commit"}

\* Every variable has its type, and whoever holds a row is in a transaction.
TypeOK ==
    /\ verified \in BOOLEAN
    /\ credential \in Credential \cup {NoCredential}
    /\ sessions \subseteq Session
    /\ links \subseteq Link
    /\ userLock \in Request \cup {Nobody}
    /\ rowLock \in Request \cup {Nobody}
    /\ req \in [Request -> RequestState]
    /\ before \in [Request -> [sessions : SUBSET Session, links : SUBSET Link]]
    /\ secured \subseteq Request
    /\ replaced \subseteq Writer
    /\ \A r \in Request : r \in {userLock, rowLock} => InTransaction(r)

\* Whoever re-secured the account - by a reset, by a change that revokes, or by
\* sweeping it as unproven - has ended for good every session and every link
\* that was there when they began.
SecuredEvicts ==
    \A r \in secured :
        /\ sessions \cap before[r].sessions = {}
        /\ links \cap before[r].links = {}

\* A reset never leaves its new password in place while a session that was there
\* before it survives, whatever fails and wherever.
ResetAllOrNothing ==
    credential # NoCredential =>
        \A r \in Request :
            req[r].op = "reset" /\ credential.by = r => sessions \cap before[r].sessions = {}

Reclaims(r) == req[r].op = "settle" /\ At(r, "commit") /\ req'[r].at = "enter"

\* The sweep of an unproven account misses nothing: when it commits there is no
\* credential, also none that was being inserted meanwhile, and no session.
SweepMissesNothing ==
    [][\A r \in Request : Reclaims(r) => credential' = NoCredential /\ sessions' = {}]_vars

\* No two requests wait for each other's rows: every request that started ends.
Finishes == \A r \in Request : ~At(r, "idle") ~> At(r, "done")

-----------------------------------------------------------------------------
(* What the documentation says and the code does not do *)

\* resetPassword's documentation: whoever held the old password should not keep
\* a live session.
OldPasswordKeepsNoSession == \A s \in sessions : s.via \notin replaced
=============================================================================
