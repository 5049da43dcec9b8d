------------------------------ MODULE Passkeys ------------------------------
(***************************************************************************)
(* WebAuthn ceremonies (passkeys/Passkeys.ts over passkeys/Store.ts):      *)
(* minting a ceremony, completing a registration, and completing an        *)
(* authentication as a sign-in or a step-up.                               *)
(*                                                                         *)
(* A ceremony names its challenge and the handle of its cookie at once.    *)
(* The authenticator is external: a credential is made once, in answer to  *)
(* a registration, and keeps the user handle it was given; it, or a clone  *)
(* of it, signs any challenge and reports any count.  A ceremony that has  *)
(* expired is a row that is not there.  User verification is asked for and *)
(* not required (userVerification "preferred"), so its flag is free.  The   *)
(* guard of a removal is in Accounts.                                      *)
(***************************************************************************)
EXTENDS Naturals

CONSTANTS
    User,
    CredentialId,
    Ceremony,
    Request,
    MaxCount,       \* bound: the largest count that is reported
    RejectRegression, \* Config.rejectCounterRegression
    Initial,        \* the id and the handle of what was there at first
    None

ASSUME CountsAreNumbers == MaxCount \in Nat /\ RejectRegression \in BOOLEAN
ASSUME InitialIsNew == Initial \notin Request

VARIABLES
    ceremonies, \* rows of the verifications table
    asked,      \* history: what each ceremony was minted for
    handles,    \* effect_auth_passkey_users
    passkeys,   \* effect_auth_passkeys
    people,     \* users that exist
    made,       \* credentials of authenticators
    req,
    outcomes    \* history: what ceremonies came to

ceremonyVars == <<ceremonies, asked, handles, passkeys, people, made, req, outcomes>>

Id == Request \cup {Initial}
Count == 0..MaxCount

PasskeyChallengePayload ==
    [ceremony : {"registration", "authentication"}, user : User \cup {None}, handle : Id \cup {None}]
Passkey == [id : Id, user : User, credential : CredentialId, signCount : Count, uvInitialised : BOOLEAN]
Made == [ceremony : Ceremony \cup {None}, user : User, handle : Id]
PasskeyUse == [signCount : Count, uvInitialised : BOOLEAN]

ASSUME NoneIsNone ==
    None \notin User \cup CredentialId \cup Ceremony \cup Id
                 \cup PasskeyChallengePayload \cup Passkey \cup Made \cup PasskeyUse

RequestState ==
    [at : {"idle", "create handle", "find again", "issue", "claim registration", "store",
           "claim authentication", "find", "verify", "record", "find user", "settle", "done"},
     user : User \cup {None}, handle : Id \cup {None}, ceremony : Ceremony \cup {None},
     credential : CredentialId \cup {None}, stored : Passkey \cup {None}, use : PasskeyUse \cup {None}]

NoRequest ==
    [at |-> "idle", user |-> None, handle |-> None, ceremony |-> None, credential |-> None,
     stored |-> None, use |-> None]

CeremoniesInit ==
    /\ ceremonies = {}
    /\ asked = [c \in Ceremony |-> None]
    /\ passkeys \in {{}} \cup {{[id |-> Initial, user |-> u, credential |-> k, signCount |-> 0,
                                 uvInitialised |-> FALSE]} : u \in User, k \in CredentialId}
    /\ handles = [u \in User |-> IF \E x \in passkeys : x.user = u THEN Initial ELSE None]
    /\ people = User
    /\ made = [k \in CredentialId |->
                IF \E x \in passkeys : x.credential = k
                THEN [ceremony |-> None, user |-> (CHOOSE x \in passkeys : TRUE).user,
                      handle |-> Initial]
                ELSE None]
    /\ req = [r \in Request |-> NoRequest]
    /\ outcomes = {}

-----------------------------------------------------------------------------

At(r, step) == req[r].at = step

Becomes(r, state) == req' = [req EXCEPT ![r] = state]

GoesTo(r, step) == Becomes(r, [req[r] EXCEPT !.at = step])

Ends(r) == Becomes(r, [NoRequest EXCEPT !.at = "done"])

\* issue: the row, and the document that carries challenge and handle.
Issues(c, ceremony, user, handle) ==
    /\ asked[c] = None
    /\ ceremonies' = ceremonies \cup {c}
    /\ asked' = [asked EXCEPT ![c] = [ceremony |-> ceremony, user |-> user, handle |-> handle]]

-----------------------------------------------------------------------------
(* Registration *)

\* registrationOptions, up to the search for the user's handle.
RegistrationOptions(r, u) ==
    /\ At(r, "idle")
    /\ u \in people
    /\ Becomes(r, [NoRequest EXCEPT !.user = u, !.handle = IF handles[u] = None THEN r ELSE handles[u],
                                    !.at = IF handles[u] = None THEN "create handle" ELSE "issue"])
    /\ UNCHANGED <<ceremonies, asked, handles, passkeys, people, made, outcomes>>

\* The key on user_id settles a race; there is no row for a user who is gone.
CreateHandle(r) ==
    LET u == req[r].user IN
    /\ At(r, "create handle")
    /\ \/ u \notin people /\ Ends(r) /\ UNCHANGED handles
       \/ /\ u \in people /\ handles[u] = None
          /\ handles' = [handles EXCEPT ![u] = req[r].handle]
          /\ GoesTo(r, "issue")
       \/ u \in people /\ handles[u] # None /\ GoesTo(r, "find again") /\ UNCHANGED handles
    /\ UNCHANGED <<ceremonies, asked, passkeys, people, made, outcomes>>

\* Mutant: who loses the race keeps its own.
KeepOwn(r) ==
    /\ At(r, "find again")
    /\ GoesTo(r, "issue")
    /\ UNCHANGED <<ceremonies, asked, handles, passkeys, people, made, outcomes>>

\* Its own only where the winner's is not there any more.
FindAgain(r) ==
    LET settled == handles[req[r].user] IN
    /\ At(r, "find again")
    /\ Becomes(r, [req[r] EXCEPT !.handle = IF settled = None THEN @ ELSE settled, !.at = "issue"])
    /\ UNCHANGED <<ceremonies, asked, handles, passkeys, people, made, outcomes>>

IssueRegistration(r, c) ==
    /\ At(r, "issue")
    /\ Issues(c, "registration", req[r].user, req[r].handle)
    /\ Ends(r)
    /\ UNCHANGED <<handles, passkeys, people, made, outcomes>>

\* The authenticator: a credential for the user and the handle of the document.
Make(k, c) ==
    /\ made[k] = None
    /\ asked[c] # None
    /\ asked[c].ceremony = "registration"
    /\ made' = [made EXCEPT ![k] = [ceremony |-> c, user |-> asked[c].user, handle |-> asked[c].handle]]
    /\ UNCHANGED <<ceremonies, asked, handles, passkeys, people, req, outcomes>>

\* registerVerify: any caller, any ceremony in the cookie, any attestation.
VerifyRegistration(r, u, c, k) ==
    /\ At(r, "idle")
    /\ u \in people /\ asked[c] # None /\ made[k] # None
    /\ Becomes(r, [NoRequest EXCEPT !.user = u, !.ceremony = c, !.credential = k,
                                    !.at = "claim registration"])
    /\ UNCHANGED <<ceremonies, asked, handles, passkeys, people, made, outcomes>>

\* Mutant: a ceremony is read and stays.
NotClaimed(c) == ceremonies

Claimed(c) == ceremonies \ {c}

TagAgrees(c, tag) == asked[c].ceremony = tag

\* claim, then the checks that read nothing more: spent whichever way it goes.
ClaimRegistration(r) ==
    LET c == req[r].ceremony IN
    /\ At(r, "claim registration")
    /\ ceremonies' = Claimed(c)
    /\ IF /\ c \in ceremonies
          /\ TagAgrees(c, "registration")
          /\ asked[c].user = req[r].user
          /\ made[req[r].credential].ceremony = c
       THEN GoesTo(r, "store")
       ELSE Ends(r)
    /\ UNCHANGED <<asked, handles, passkeys, people, made, outcomes>>

Outcome(r, user, how) ==
    [ceremony |-> req[r].ceremony, by |-> r, user |-> user,
     credential |-> req[r].credential, how |-> how]

\* The index on credential_id refuses a credential that is registered, to whomever.
StorePasskey(r, n, uv) ==
    LET k == req[r].credential IN
    /\ At(r, "store")
    /\ IF req[r].user \in people /\ ~\E x \in passkeys : x.credential = k
       THEN /\ passkeys' = passkeys \cup {[id |-> r, user |-> req[r].user, credential |-> k,
                                           signCount |-> n, uvInitialised |-> uv]}
            /\ outcomes' = outcomes \cup {Outcome(r, req[r].user, "registered")}
       ELSE UNCHANGED <<passkeys, outcomes>>
    /\ Ends(r)
    /\ UNCHANGED <<ceremonies, asked, handles, people, made>>

-----------------------------------------------------------------------------
(* Authentication *)

\* authenticationOptions: bound to the caller, if there is one.  What is listed
\* for an address binds nothing.
AuthenticationOptions(c, u) ==
    /\ u \in people \cup {None}
    /\ Issues(c, "authentication", u, None)
    /\ UNCHANGED <<handles, passkeys, people, made, req, outcomes>>

\* authenticateVerify: any caller, any ceremony in the cookie, any assertion.
Authenticate(r, u, c, k) ==
    /\ At(r, "idle")
    /\ u \in people \cup {None} /\ asked[c] # None /\ made[k] # None
    /\ Becomes(r, [NoRequest EXCEPT !.user = u, !.ceremony = c, !.credential = k,
                                    !.at = "claim authentication"])
    /\ UNCHANGED <<ceremonies, asked, handles, passkeys, people, made, outcomes>>

ClaimAuthentication(r) ==
    LET c == req[r].ceremony IN
    /\ At(r, "claim authentication")
    /\ ceremonies' = Claimed(c)
    /\ IF c \in ceremonies /\ TagAgrees(c, "authentication") THEN GoesTo(r, "find") ELSE Ends(r)
    /\ UNCHANGED <<asked, handles, passkeys, people, made, outcomes>>

\* Mutant: anybody's passkey answers for anybody.
BoundToNobody(c, x) == TRUE

Bound(c, x) == asked[c].user \in {None, x.user}

FindCredential(r) ==
    LET found == {x \in passkeys : x.credential = req[r].credential} IN
    /\ At(r, "find")
    /\ \/ found = {} /\ Ends(r)
       \/ \E x \in found : IF Bound(req[r].ceremony, x)
                           THEN Becomes(r, [req[r] EXCEPT !.stored = x, !.at = "verify"])
                           ELSE Ends(r)
    /\ UNCHANGED <<ceremonies, asked, handles, passkeys, people, made, outcomes>>

Regressed(stored, n) == ~(stored.signCount = 0 /\ n = 0) /\ n <= stored.signCount

\* Mutant: the last value seen.
LastSeen(stored, n) == n

\* The high-water mark, of the row as it was read.
HighWaterMark(stored, n) == IF n > stored.signCount THEN n ELSE stored.signCount

\* The user handle, where the credential answers with one, the signature over the
\* challenge, which may be over another, and the count, which may be a clone's.
VerifyAssertion(r, told, signed, n, uv) ==
    LET stored == req[r].stored IN
    /\ At(r, "verify")
    /\ IF /\ told => made[req[r].credential].handle = handles[stored.user]
          /\ signed
          /\ RejectRegression => ~Regressed(stored, n)
       THEN Becomes(r, [req[r] EXCEPT
                !.use = [signCount |-> HighWaterMark(stored, n),
                         uvInitialised |-> stored.uvInitialised \/ uv],
                !.at = "record"])
       ELSE Ends(r)
    /\ UNCHANGED <<ceremonies, asked, handles, passkeys, people, made, outcomes>>

\* recordUse, by id: a row that is gone is not written.
RecordUse(r) ==
    LET used(x) == [x EXCEPT !.signCount = req[r].use.signCount,
                             !.uvInitialised = req[r].use.uvInitialised]
    IN
    /\ At(r, "record")
    /\ passkeys' = {IF x.id = req[r].stored.id THEN used(x) ELSE x : x \in passkeys}
    /\ Becomes(r, [req[r] EXCEPT !.use = None, !.at = "find user"])
    /\ UNCHANGED <<ceremonies, asked, handles, people, made, outcomes>>

FindUser(r) ==
    /\ At(r, "find user")
    /\ IF req[r].stored.user \in people THEN GoesTo(r, "settle") ELSE Ends(r)
    /\ UNCHANGED <<ceremonies, asked, handles, passkeys, people, made, outcomes>>

\* authenticate: the caller's own session is raised, and anything else signs in.
Settle(r) ==
    LET user == req[r].stored.user IN
    /\ At(r, "settle")
    /\ outcomes' = outcomes \cup {Outcome(r, user, IF req[r].user = user THEN "elevated" ELSE "signed in")}
    /\ Ends(r)
    /\ UNCHANGED <<ceremonies, asked, handles, passkeys, people, made>>

-----------------------------------------------------------------------------

\* deleteExpired, or the clock.
Lapse(c) ==
    /\ c \in ceremonies
    /\ ceremonies' = ceremonies \ {c}
    /\ UNCHANGED <<asked, handles, passkeys, people, made, req, outcomes>>

\* remove, by id and owner; removeByUserId removes each.
Remove(x) ==
    /\ x \in passkeys
    /\ passkeys' = passkeys \ {x}
    /\ UNCHANGED <<ceremonies, asked, handles, people, made, req, outcomes>>

\* The user's rows go with the user.
DeleteUser(u) ==
    /\ u \in people
    /\ people' = people \ {u}
    /\ handles' = [handles EXCEPT ![u] = None]
    /\ passkeys' = {x \in passkeys : x.user # u}
    /\ UNCHANGED <<ceremonies, asked, made, req, outcomes>>

\* Refused by a hook, failed or crashed.
LeaveCeremony(r) ==
    /\ req[r].at \notin {"idle", "done"}
    /\ Ends(r)
    /\ UNCHANGED <<ceremonies, asked, handles, passkeys, people, made, outcomes>>

Serve(r) ==
    \/ \E u \in User : RegistrationOptions(r, u)
    \/ CreateHandle(r) \/ FindAgain(r)
    \/ \E c \in Ceremony : IssueRegistration(r, c)
    \/ \E u \in User, c \in Ceremony, k \in CredentialId : VerifyRegistration(r, u, c, k)
    \/ ClaimRegistration(r)
    \/ \E n \in Count, uv \in BOOLEAN : StorePasskey(r, n, uv)
    \/ \E u \in User \cup {None}, c \in Ceremony, k \in CredentialId : Authenticate(r, u, c, k)
    \/ ClaimAuthentication(r) \/ FindCredential(r)
    \/ \E told, signed, uv \in BOOLEAN, n \in Count : VerifyAssertion(r, told, signed, n, uv)
    \/ RecordUse(r)
    \/ FindUser(r) \/ Settle(r) \/ LeaveCeremony(r)

CeremoniesNext ==
    \/ \E r \in Request : Serve(r)
    \/ \E k \in CredentialId, c \in Ceremony : Make(k, c)
    \/ \E c \in Ceremony, u \in User \cup {None} : AuthenticationOptions(c, u)
    \/ \E c \in Ceremony : Lapse(c)
    \/ \E x \in passkeys : Remove(x)
    \/ \E u \in User : DeleteUser(u)

CeremoniesSpec == CeremoniesInit /\ [][CeremoniesNext]_ceremonyVars

-----------------------------------------------------------------------------

CeremoniesTypeOK ==
    /\ ceremonies \subseteq Ceremony
    /\ asked \in [Ceremony -> PasskeyChallengePayload \cup {None}]
    /\ handles \in [User -> Id \cup {None}]
    /\ passkeys \subseteq Passkey
    /\ people \subseteq User
    /\ made \in [CredentialId -> Made \cup {None}]
    /\ req \in [Request -> RequestState]
    /\ outcomes \subseteq [ceremony : Ceremony, by : Request, user : User, credential : CredentialId,
                           how : {"registered", "elevated", "signed in"}]

\* However often, and by whomever, a ceremony is completed: it registers one
\* credential, or raises or mints one session, at most.
OneUsePerCeremony ==
    \A o, p \in outcomes : o.ceremony = p.ceremony => o = p

\* Whoever calls, and whatever is in the cookie and in the response: a ceremony
\* comes only to what it was minted for, for the person it was bound to, by a
\* credential that was made for the one it counts for.
OutcomeIsOfItsCeremony ==
    \A o \in outcomes :
        /\ asked[o.ceremony].ceremony =
              IF o.how = "registered" THEN "registration" ELSE "authentication"
        /\ asked[o.ceremony].user \in {None, o.user}
        /\ made[o.credential].user = o.user
        /\ o.how = "registered" => made[o.credential].ceremony = o.ceremony

\* Two first registrations of a person race for the handle, and every
\* authenticator is told the one that stays: a credential that was made is not
\* refused later for its handle.
HandleIsKept ==
    \A k \in CredentialId :
        made[k] # None /\ made[k].user \in people => made[k].handle = handles[made[k].user]

\* A tolerated regression does not lower the counter, and user verification is
\* not unlearnt: only a ceremony that read the row before another one wrote it
\* can do that.
MarkIsKept ==
    [][\A x \in passkeys, y \in passkeys' :
        x.id = y.id =>
            \/ y.signCount >= x.signCount /\ (x.uvInitialised => y.uvInitialised)
            \/ \E r \in Request : At(r, "record") /\ req[r].stored.id = x.id /\ req[r].stored # x]_ceremonyVars
=============================================================================
