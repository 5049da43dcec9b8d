------------------------------ MODULE Sessions ------------------------------
(***************************************************************************)
(* The session lifecycle (domain/Sessions.ts over sql/stores/Sessions.ts). *)
(*                                                                         *)
(* A request resolves the token it presents in up to three separate        *)
(* statements - read the row, then either touch it or drop it - and what   *)
(* it decided from the read may be stale by the time it writes.  A step-up *)
(* (elevate) stamps its evidence before the transaction that appends it.   *)
(* Everything a single statement or one transaction does is one action.    *)
(*                                                                         *)
(* Time is a clock the application and the store both read.  The rows of   *)
(* the sessions table are `row' restricted to `live'; a session outside    *)
(* `live' keeps its last value so that the functions stay total.           *)
(***************************************************************************)
EXTENDS Assurance

CONSTANTS
    SessionId, UserId, Token, Request,
    ExpiresIn,      \* config.session.expiresIn
    ShortTtl,       \* config.session.rememberMeDisabledExpiresIn
    UpdateAge,      \* config.session.updateAge
    SignInLogs,     \* the evidence a sign-in can hand to the mint
    StepUps,        \* the evidence a step-up can add
    Policies,       \* what endpoints ask of the sessions that reach them
    MaxTime,        \* bound: the clock stops here
    MaxLog          \* bound: no step-up beyond this many log entries

ASSUME LifetimesArePositive ==
    /\ ExpiresIn \in Nat \ {0}
    /\ ShortTtl \in Nat \ {0}
    /\ UpdateAge \in Nat
ASSUME EvidenceIsTyped ==
    /\ SignInLogs \subseteq Seq(Evidence)
    /\ StepUps \subseteq {e \in Evidence : e.ago = 0}
\* A sign-in that replays what it proved earlier adds the factor it ends with.
ASSUME SignInsAreFresh ==
    \A log \in SignInLogs : log # <<>> => \E i \in DOMAIN log : log[i].ago = 0
ASSUME PoliciesAreTyped == Policies \subseteq Policy
ASSUME BoundsAreNumbers == MaxTime \in Nat /\ MaxLog \in Nat
ASSUME SomeoneExists == UserId # {} /\ Token # {} /\ SessionId # {}

VARIABLES
    now,        \* the clock
    created,    \* every session id ever inserted
    live,       \* the ids whose row is in the table
    row,        \* the rows
    minted,     \* every token ever generated
    granted,    \* history: the lifetime the last insert or touch granted
    ended,      \* history: how often a session's single end was announced
    req         \* the requests in flight

vars == <<now, created, live, row, minted, granted, ended, req>>

Session == [token: Token, userId: UserId, expiresAt: Nat, updatedAt: Nat,
            authenticatedAt: Nat, rememberMe: BOOLEAN,
            methods: Seq(Entry), aal: Aal]

\* Where a request is: it has read a row, it is about to touch or to drop it,
\* it holds a verified session, or it has a step-up under way.
Step == {"idle", "read", "touch", "drop", "held", "elevate"}

RequestState == [at: Step, token: Token, id: SessionId, session: Session,
                 began: Nat, evidence: {e \in Evidence : e.ago = 0}, next: Token]

-----------------------------------------------------------------------------
(* Lifetime arithmetic *)

Ttl(rememberMe) == IF rememberMe THEN ExpiresIn ELSE ShortTtl

\* A distance that is not positive falls back to the configured lifetime.
GrantedLifetime(s) ==
    IF s.expiresAt > s.updatedAt THEN s.expiresAt - s.updatedAt ELSE ExpiresIn

\* refreshDueAt <= now, with the subtraction moved to the other side.
IsRefreshDue(s, t) == s.expiresAt + UpdateAge <= t + GrantedLifetime(s)

IsExpired(s, t) == s.expiresAt <= t

-----------------------------------------------------------------------------

Idle(r) == req[r].at = "idle"

NoSession == [token |-> CHOOSE t \in Token : TRUE,
              userId |-> CHOOSE u \in UserId : TRUE,
              expiresAt |-> 0, updatedAt |-> 0, authenticatedAt |-> 0,
              rememberMe |-> FALSE, methods |-> <<>>, aal |-> 0]

NoEvidence == [method |-> RecoveryMethod, factor |-> "none",
               userVerified |-> FALSE, ago |-> 0]

NoRequest == [at |-> "idle", token |-> NoSession.token,
              id |-> CHOOSE s \in SessionId : TRUE, session |-> NoSession,
              began |-> 0, evidence |-> NoEvidence, next |-> NoSession.token]

\* A request at a step, with the token it presented and the session as it was
\* read or as the last write left it.
At(step, t, s, session) ==
    [NoRequest EXCEPT !.at = step, !.token = t, !.id = s, !.session = session]

Holds(t, s, session) == At("held", t, s, session)

Init ==
    /\ now = 0
    /\ created = {}
    /\ live = {}
    /\ row = [s \in SessionId |-> NoSession]
    /\ minted = {}
    /\ granted = [s \in SessionId |-> 0]
    /\ ended = [s \in SessionId |-> 0]
    /\ req = [r \in Request |-> NoRequest]

Tick ==
    /\ now < MaxTime
    /\ now' = now + 1
    /\ UNCHANGED <<created, live, row, minted, granted, ended, req>>

\* createUnchecked: a fresh id and token, and one clock read for the log, the
\* authentication time and the expiry.
Create(u, rememberMe, evidence) ==
    \E s \in SessionId \ created, t \in Token \ minted :
        LET log == [i \in 1..Len(evidence) |-> StampEvidence(evidence[i], now)] IN
        /\ \A i \in DOMAIN evidence : evidence[i].ago <= now
        /\ created' = created \cup {s}
        /\ live' = live \cup {s}
        /\ minted' = minted \cup {t}
        /\ granted' = [granted EXCEPT ![s] = Ttl(rememberMe)]
        /\ row' = [row EXCEPT ![s] =
               [token |-> t, userId |-> u,
                expiresAt |-> now + Ttl(rememberMe), updatedAt |-> now,
                authenticatedAt |-> now, rememberMe |-> rememberMe,
                methods |-> log, aal |-> DeriveAal(Entries(log))]]
        /\ UNCHANGED <<now, ended, req>>

-----------------------------------------------------------------------------
(* verify *)

\* findByTokenHash.  A token that names no row fails Unauthorized and changes
\* nothing, so it is no step here.
Read(r, t) ==
    /\ Idle(r)
    /\ \E s \in live :
        /\ row[s].token = t
        /\ req' = [req EXCEPT ![r] = At("read", t, s, row[s])]
    /\ UNCHANGED <<now, created, live, row, minted, granted, ended>>

FindExpired(r) ==
    /\ req[r].at = "read"
    /\ IsExpired(req[r].session, now)
    /\ req' = [req EXCEPT ![r] = [NoRequest EXCEPT !.at = "drop", !.id = req[r].id]]
    /\ UNCHANGED <<now, created, live, row, minted, granted, ended>>

\* Not due: the session that was read is the answer.
AnswerAsRead(r) ==
    /\ req[r].at = "read"
    /\ ~IsExpired(req[r].session, now)
    /\ ~IsRefreshDue(req[r].session, now)
    /\ req' = [req EXCEPT ![r].at = "held"]
    /\ UNCHANGED <<now, created, live, row, minted, granted, ended>>

FindDue(r) ==
    /\ req[r].at = "read"
    /\ ~IsExpired(req[r].session, now)
    /\ IsRefreshDue(req[r].session, now)
    /\ req' = [req EXCEPT ![r] = [@ EXCEPT !.at = "touch", !.began = now]]
    /\ UNCHANGED <<now, created, live, row, minted, granted, ended>>

\* Mutant: the refresh saves the whole session it holds.
SavedWhole(s, r) ==
    [req[r].session EXCEPT !.expiresAt = req[r].began + GrantedLifetime(req[r].session),
                           !.updatedAt = req[r].began]

\* touch: UPDATE ... WHERE id, answering the row it left.  The expiry and the
\* update stamp are read off the clock before the statement is sent.
Touched(s, r) ==
    [row[s] EXCEPT !.expiresAt = req[r].began + GrantedLifetime(req[r].session),
                   !.updatedAt = req[r].began]

\* Mutant: the refresh is an upsert.
TouchUpserts(r) ==
    LET s == req[r].id
        updated == Touched(s, r)
    IN  /\ req[r].at = "touch"
        /\ live' = live \cup {s}
        /\ row' = [row EXCEPT ![s] = updated]
        /\ granted' = [granted EXCEPT ![s] = updated.expiresAt - updated.updatedAt]
        /\ req' = [req EXCEPT ![r] = Holds(req[r].token, s, updated)]
        /\ UNCHANGED <<now, created, minted, ended>>

Touch(r) ==
    LET s == req[r].id
        updated == Touched(s, r)
    IN  /\ req[r].at = "touch"
        /\ s \in live
        /\ row' = [row EXCEPT ![s] = updated]
        /\ granted' = [granted EXCEPT ![s] = updated.expiresAt - updated.updatedAt]
        /\ req' = [req EXCEPT ![r] = Holds(req[r].token, s, updated)]
        /\ UNCHANGED <<now, created, live, minted, ended>>

\* The row went between the read and the update: Unauthorized.
TouchNothing(r) ==
    /\ req[r].at = "touch"
    /\ req[r].id \notin live
    /\ req' = [req EXCEPT ![r] = NoRequest]
    /\ UNCHANGED <<now, created, live, row, minted, granted, ended>>

\* The expired row is deleted on the way out; a storage failure is ignored.
Drop(r) ==
    /\ req[r].at = "drop"
    /\ live' \in {live, live \ {req[r].id}}
    /\ req' = [req EXCEPT ![r] = NoRequest]
    /\ UNCHANGED <<now, created, row, minted, granted, ended>>

\* The handler answers, and its session value is gone.
Respond(r) ==
    /\ req[r].at = "held"
    /\ req' = [req EXCEPT ![r] = NoRequest]
    /\ UNCHANGED <<now, created, live, row, minted, granted, ended>>

-----------------------------------------------------------------------------
(* elevate *)

\* Before the transaction: one clock read stamps the evidence, and the token
\* that will replace the presented one is generated.
BeginElevate(r, evidence) ==
    /\ req[r].at = "held"
    /\ Len(row[req[r].id].methods) < MaxLog
    /\ \E t \in Token \ minted :
        /\ minted' = minted \cup {t}
        /\ req' = [req EXCEPT ![r] = [@ EXCEPT !.at = "elevate", !.next = t,
                                      !.began = now, !.evidence = evidence]]
    /\ UNCHANGED <<now, created, live, row, granted, ended>>

\* Mutants: the log appended to is the caller's copy; a second clock read dates
\* the authentication.
ElevatedFromCopy(s, r, stamp) ==
    LET log == Append(req[r].session.methods,
                      StampEvidence(req[r].evidence, req[r].began)) IN
    [row[s] EXCEPT !.methods = log, !.aal = DeriveAal(Entries(log)),
                   !.authenticatedAt = req[r].began,
                   !.token = req[r].next, !.updatedAt = stamp]

ElevatedTwoClocks(s, r, stamp) ==
    LET log == Append(row[s].methods, StampEvidence(req[r].evidence, req[r].began)) IN
    [row[s] EXCEPT !.methods = log, !.aal = DeriveAal(Entries(log)),
                   !.authenticatedAt = stamp,
                   !.token = req[r].next, !.updatedAt = stamp]

\* The log appended to is the stored one, never the one the caller holds.
\* The update stamp is read inside the transaction but before the row lock, so
\* the wait for the lock lies between the stamp and the commit.
Elevated(s, r, stamp) ==
    LET log == Append(row[s].methods, StampEvidence(req[r].evidence, req[r].began)) IN
    [row[s] EXCEPT !.methods = log, !.aal = DeriveAal(Entries(log)),
                   !.authenticatedAt = req[r].began,
                   !.token = req[r].next, !.updatedAt = stamp]

CommitElevate(r, stamp) ==
    LET s == req[r].id
        updated == Elevated(s, r, stamp)
    IN  /\ req[r].at = "elevate"
        /\ stamp >= req[r].began
        /\ s \in live
        /\ row' = [row EXCEPT ![s] = updated]
        /\ req' = [req EXCEPT ![r] = Holds(updated.token, s, updated)]
        /\ UNCHANGED <<now, created, live, minted, granted, ended>>

\* Revoked while it was being elevated: PersistenceError, nothing written.
ElevateNothing(r) ==
    /\ req[r].at = "elevate"
    /\ req[r].id \notin live
    /\ req' = [req EXCEPT ![r] = NoRequest]
    /\ UNCHANGED <<now, created, live, row, minted, granted, ended>>

-----------------------------------------------------------------------------
(* revocation *)

\* Mutant: the delete does not say whether it removed anything.
NamedById(s, u) == {x \in created : x = s /\ row[x].userId = u}

\* deleteById(id, userId): the ids a guarded delete removes.
DeletedById(s, u) == {x \in live : x = s /\ row[x].userId = u}

\* One SignedOut or SessionRevoked(single) per row the delete really removed.
Announce(removed) ==
    ended' = [s \in SessionId |-> IF s \in removed THEN ended[s] + 1 ELSE ended[s]]

SignOut(r) ==
    LET removed == DeletedById(req[r].id, req[r].session.userId) IN
    /\ req[r].at = "held"
    /\ live' = live \ removed
    /\ Announce(removed)
    /\ req' = [req EXCEPT ![r] = NoRequest]
    /\ UNCHANGED <<now, created, row, minted, granted>>

\* A session id of somebody else, or one already gone, is NotFound: the set
\* is empty and nothing is announced.
Revoke(r, s) ==
    LET removed == DeletedById(s, req[r].session.userId) IN
    /\ req[r].at = "held"
    /\ live' = live \ removed
    /\ Announce(removed)
    /\ req' = [req EXCEPT ![r] = NoRequest]
    /\ UNCHANGED <<now, created, row, minted, granted>>

RevokeOthers(r) ==
    /\ req[r].at = "held"
    /\ live' = {s \in live : row[s].userId # req[r].session.userId \/ s = req[r].id}
    /\ req' = [req EXCEPT ![r] = NoRequest]
    /\ UNCHANGED <<now, created, row, minted, granted, ended>>

\* revokeAll, from a reset or an administrator: no session is involved.
RevokeAll(u) ==
    /\ \E s \in live : row[s].userId = u
    /\ live' = {s \in live : row[s].userId # u}
    /\ UNCHANGED <<now, created, row, minted, granted, ended, req>>

DeleteExpired ==
    /\ \E s \in live : IsExpired(row[s], now)
    /\ live' = {s \in live : ~IsExpired(row[s], now)}
    /\ UNCHANGED <<now, created, row, minted, granted, ended, req>>

-----------------------------------------------------------------------------

Verify(r) ==
    \/ \E t \in minted : Read(r, t)
    \/ FindExpired(r)
    \/ AnswerAsRead(r)
    \/ FindDue(r)
    \/ Touch(r)
    \/ TouchNothing(r)
    \/ Drop(r)

Elevate(r) ==
    \/ \E e \in StepUps : BeginElevate(r, e)
    \/ \E stamp \in 0..now : CommitElevate(r, stamp)
    \/ ElevateNothing(r)

Next ==
    \/ Tick
    \/ \E u \in UserId, m \in BOOLEAN, e \in SignInLogs : Create(u, m, e)
    \/ \E r \in Request : Verify(r) \/ Elevate(r) \/ Respond(r)
    \/ \E r \in Request : SignOut(r) \/ RevokeOthers(r)
    \/ \E r \in Request, s \in SessionId : Revoke(r, s)
    \/ \E u \in UserId : RevokeAll(u)
    \/ DeleteExpired

Spec == Init /\ [][Next]_vars

-----------------------------------------------------------------------------
(* Properties *)

Refreshing == {r \in Request : req[r].at = "touch"}
Elevating == {r \in Request : req[r].at = "elevate"}

\* Every variable has its type, and a row in the table was inserted.
TypeOK ==
    /\ now \in Nat
    /\ created \subseteq SessionId
    /\ live \subseteq created
    /\ row \in [SessionId -> Session]
    /\ minted \subseteq Token
    /\ granted \in [SessionId -> Int]
    /\ ended \in [SessionId -> Nat]
    /\ req \in [Request -> RequestState]

\* One token opens one session: no two rows share a token, and none has the
\* token that a step-up in flight is about to install (findByTokenHash reads
\* the head of whatever matches).
TokensUnique ==
    /\ \A s, t \in live : row[s].token = row[t].token => s = t
    /\ \A s \in live, r \in Elevating : row[s].token # req[r].next
    /\ \A r, q \in Elevating : req[r].next = req[q].next => r = q

Opens(t) ==
    \/ \E s \in live : row[s].token = t
    \/ \E r \in Elevating : req[r].next = t

\* A token that opens nothing, and that no step-up is about to install, never
\* opens anything again: neither a rotation, nor a rotation racing another one,
\* nor a revocation is undone.
DeadTokenStaysDead == [][\A t \in minted : Opens(t)' => Opens(t)]_vars

\* A session that was ended, however it was, is never in the table again: a
\* refresh or a step-up decided before the end writes nothing after it.
NoResurrection == [][\A s \in created : s \in live' => s \in live]_vars

\* A step-up only ever adds to what the stored session proved, whatever stale
\* copy its caller held and whatever was committed meanwhile: the log is
\* extended and the level does not fall.
StepUpOnlyAdds ==
    [][\A s \in live \cap live' :
        /\ Len(row[s].methods) <= Len(row'[s].methods)
        /\ \A i \in DOMAIN row[s].methods : row'[s].methods[i] = row[s].methods[i]
        /\ row[s].aal <= row'[s].aal]_vars

\* The moment that freshness and maxAge are measured from is the moment some
\* recorded evidence completed; the rolling refresh never moves it.
EvidenceBacked ==
    \A s \in live : row[s].methods # <<>> =>
        \E e \in Entries(row[s].methods) : e.completedAt = row[s].authenticatedAt

\* A policy that refuses recovery codes admits no session that the same policy
\* would refuse if it allowed them.
RefusingRecoveryIsStricter ==
    \A s \in live, p \in Policies :
        MeetsAssurance(row[s], [p EXCEPT !.allowRecovery = FALSE], now)
            => MeetsAssurance(row[s], [p EXCEPT !.allowRecovery = TRUE], now)

\* A session's end is announced at most once, and only for a row that the
\* announcing delete removed: two sign-outs, or a sign-out and a revocation, of
\* one session publish one event.
EndAnnouncedOnce == \A s \in SessionId : ended[s] <= (IF s \in live THEN 0 ELSE 1)

\* A refresh always extends by the distance the row recorded: the fallback to
\* the configured lifetime, which would promote a short session to a long one,
\* is not reached, not even after a step-up stamped a row that had expired.
FallbackUnreached ==
    \A r \in Refreshing : req[r].session.expiresAt > req[r].session.updatedAt

\* A session kept alive by browsing never has its lifetime promoted beyond the
\* one its remember-me choice gave it.  (Without step-ups: see LifetimeRecovered.)
NeverPromoted ==
    \A s \in live : row[s].expiresAt <= row[s].updatedAt + Ttl(row[s].rememberMe)

-----------------------------------------------------------------------------
(* What the documentation says and the code does not do *)

\* grantedLifetime's documentation: expiresAt - updatedAt recovers the lifetime
\* the session was created or last refreshed with.
LifetimeRecovered ==
    \A s \in live : row[s].expiresAt = row[s].updatedAt + granted[s]
=============================================================================
