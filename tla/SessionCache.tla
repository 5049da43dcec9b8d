---------------------------- MODULE SessionCache ----------------------------
(***************************************************************************)
(* The cookie cache of sessions: http/SessionCache.ts, the middleware of   *)
(* http/MiddlewareLive.ts that reads and writes it, and the handlers of    *)
(* http/Handlers.ts that rewrite or clear it, over the module Sessions.    *)
(*                                                                         *)
(* A browser holds two cookies, the session's token and a signed snapshot  *)
(* of the session.  A request carries both as they are when it leaves, and *)
(* its answer sets them when it arrives, so the answers of two requests of *)
(* a browser arrive in either order.  Of a snapshot's user only the id is  *)
(* kept; the version is one string.                                        *)
(***************************************************************************)
EXTENDS Sessions

CONSTANTS
    Browser,
    MaxAge,     \* config.cookieCache.maxAge
    None

ASSUME CacheIsEnabled == MaxAge \in Nat \ {0}
ASSUME NoneIsNothing == None \notin Token \cup SessionId

VARIABLES
    jar,        \* the cookies of each browser
    call,       \* what the middleware knows of a request
    holder,     \* history: the session that each token was handed out for
    told        \* history: the sessions a browser itself ended, and was told so

cacheVars == <<jar, call, holder, told>>
allVars == <<vars, cacheVars>>

Snapshot == [id : SessionId, session : Session, expiresAt : Nat]
Jar == [token : Token \cup {None}, snapshot : Snapshot \cup {None}]

\* cacheable: the endpoint may be answered from the snapshot.  sets: the snapshot
\* that the answer will set.
Call == [browser : Browser \cup {None}, cacheable : BOOLEAN, refreshed : BOOLEAN,
         elevated : BOOLEAN, sets : Snapshot \cup {None}]

NoCall == [browser |-> None, cacheable |-> FALSE, refreshed |-> FALSE, elevated |-> FALSE,
           sets |-> None]

NoCookies == [token |-> None, snapshot |-> None]

CacheInit ==
    /\ Init
    /\ jar = [b \in Browser |-> NoCookies]
    /\ call = [r \in Request |-> NoCall]
    /\ holder = [t \in Token |-> None]
    /\ told = {}

-----------------------------------------------------------------------------
(* The snapshot *)

Earliest(a, b) == IF a <= b THEN a ELSE b

RefreshDueAt(s) == (s.expiresAt - GrantedLifetime(s)) + UpdateAge

\* Mutant: the clamp to the refresh is missing.
CacheExpiryOfEnd(s) == Earliest(now + MaxAge, s.expiresAt)

CacheExpiry(s) == Earliest(now + MaxAge, Earliest(RefreshDueAt(s), s.expiresAt))

\* Nothing is written that would have expired already.
Written(id, s) ==
    IF CacheExpiry(s) > now
    THEN [id |-> id, session |-> s, expiresAt |-> CacheExpiry(s)]
    ELSE None

\* Mutant: the snapshot is not bound to the token.
MatchesAny(snapshot, t) == TRUE

Matches(snapshot, t) == snapshot.session.token = t

\* What read gives for the cookies of a browser.
Hit(b) ==
    /\ jar[b].token # None /\ jar[b].snapshot # None
    /\ Matches(jar[b].snapshot, jar[b].token)
    /\ now < jar[b].snapshot.expiresAt

-----------------------------------------------------------------------------
(* The middleware *)

\* The two ways on from the credential: the snapshot, or the row.
ReadCache(r, b) ==
    /\ Idle(r)
    /\ Hit(b)
    /\ req' = [req EXCEPT ![r] = Holds(jar[b].token, jar[b].snapshot.id, jar[b].snapshot.session)]
    /\ call' = [call EXCEPT ![r] = [NoCall EXCEPT !.browser = b, !.cacheable = TRUE]]
    /\ UNCHANGED <<now, created, live, row, minted, granted, ended, jar, holder, told>>

ReadRow(r, b, cacheable) ==
    /\ jar[b].token # None
    /\ ~(cacheable /\ Hit(b))
    /\ Read(r, jar[b].token)
    /\ call' = [call EXCEPT ![r] = [NoCall EXCEPT !.browser = b, !.cacheable = cacheable]]
    /\ UNCHANGED <<jar, holder, told>>

\* verify succeeded: the snapshot the answer will set is taken now.
Verified(r, refreshed) ==
    call' = [call EXCEPT ![r].refreshed = refreshed,
                         ![r].sets = IF call[r].cacheable
                                     THEN Written(req'[r].id, req'[r].session) ELSE None]

VerifyRow(r) ==
    /\ \/ AnswerAsRead(r) /\ Verified(r, FALSE)
       \/ Touch(r) /\ Verified(r, TRUE)
       \/ FindDue(r) /\ UNCHANGED call
       \/ FindExpired(r) /\ UNCHANGED call
       \/ TouchNothing(r) /\ call' = [call EXCEPT ![r] = NoCall]
       \/ Drop(r) /\ call' = [call EXCEPT ![r] = NoCall]
    /\ UNCHANGED <<jar, holder, told>>

\* The cookies of the browser once the middleware's part of the answer is there.
\* A refresh sets the token that was presented again, also where a step-up has
\* given the row another since; a step-up sets the one that it installed.
Answered(r) ==
    LET b == call[r].browser IN
    [token |-> IF call[r].refreshed \/ call[r].elevated THEN req[r].token ELSE jar[b].token,
     snapshot |-> IF call[r].sets # None THEN call[r].sets ELSE jar[b].snapshot]

Arrives(r, cookies) ==
    /\ jar' = [jar EXCEPT ![call[r].browser] = cookies]
    /\ call' = [call EXCEPT ![r] = NoCall]

-----------------------------------------------------------------------------
(* The handlers *)

Answer(r) ==
    /\ Respond(r)
    /\ Arrives(r, Answered(r))
    /\ UNCHANGED <<holder, told>>

\* The answer never arrives.
Lost(r) ==
    /\ Respond(r)
    /\ call' = [call EXCEPT ![r] = NoCall]
    /\ UNCHANGED <<jar, holder, told>>

\* updateUser takes a snapshot of the session it was given, wherever that came from.
UpdateUser(r) ==
    LET written == Written(req[r].id, req[r].session) IN
    /\ Respond(r)
    /\ call[r].cacheable
    /\ Arrives(r, [Answered(r) EXCEPT !.snapshot = IF written # None THEN written ELSE @])
    /\ UNCHANGED <<holder, told>>

\* reauthenticate: the stepped-up session is written, and its token is set.
Reauthenticate(r, e) ==
    /\ BeginElevate(r, e)
    /\ ~call[r].cacheable /\ ~call[r].elevated
    /\ UNCHANGED cacheVars

Reauthenticated(r, stamp) ==
    /\ CommitElevate(r, stamp)
    /\ call' = [call EXCEPT ![r].elevated = TRUE,
                            ![r].sets = Written(req'[r].id, req'[r].session)]
    /\ holder' = [holder EXCEPT ![req[r].next] = req[r].id]
    /\ UNCHANGED <<jar, told>>

NotReauthenticated(r) ==
    /\ ElevateNothing(r)
    /\ Arrives(r, Answered(r))
    /\ UNCHANGED <<holder, told>>

\* Whom no other request of the browser can contradict.
IsTold(r, ids) ==
    told' = IF \E q \in Request \ {r} : ~Idle(q) /\ call[q].browser = call[r].browser
            THEN told ELSE told \cup ({call[r].browser} \X ids)

\* signOut and revokeSessions may be asked by a snapshot.
SignOutHere(r) ==
    /\ SignOut(r)
    /\ call[r].cacheable
    /\ Arrives(r, NoCookies)
    /\ IsTold(r, {req[r].id})
    /\ UNCHANGED holder

RevokeSessions(r) ==
    /\ req[r].at = "held"
    /\ call[r].cacheable
    /\ live' = {s \in live : row[s].userId # req[r].session.userId}
    /\ req' = [req EXCEPT ![r] = NoRequest]
    /\ Arrives(r, NoCookies)
    /\ IsTold(r, {req[r].id})
    /\ UNCHANGED <<now, created, row, minted, granted, ended, holder>>

\* Mutant: the cookies are left to the next request.
AfterRevokeLeft(r, s, removed) == Answered(r)

\* NotFound clears nothing, and neither does the revocation of another session.
AfterRevoke(r, s, removed) ==
    IF removed # {} /\ s = req[r].id THEN NoCookies ELSE Answered(r)

RevokeSession(r, s) ==
    LET removed == DeletedById(s, req[r].session.userId) IN
    /\ Revoke(r, s)
    /\ ~call[r].cacheable /\ ~call[r].elevated
    /\ Arrives(r, AfterRevoke(r, s, removed))
    /\ IsTold(r, removed \cap {req[r].id})
    /\ UNCHANGED holder

RevokeOtherSessions(r) ==
    /\ RevokeOthers(r)
    /\ ~call[r].cacheable /\ ~call[r].elevated
    /\ Arrives(r, Answered(r))
    /\ UNCHANGED <<holder, told>>

\* The browser that resets a password is signed out, whoever was signed in there.
ResetPassword(b, u) ==
    /\ RevokeAll(u)
    /\ jar' = [jar EXCEPT ![b] = NoCookies]
    /\ UNCHANGED <<call, holder, told>>

\* verifyEmailChange.
ClearSnapshot(b) ==
    /\ jar' = [jar EXCEPT ![b].snapshot = None]
    /\ UNCHANGED <<vars, call, holder, told>>

\* A sign-in sets the token and leaves the snapshot.
SignIn(b, u, rememberMe, evidence) ==
    /\ Create(u, rememberMe, evidence)
    /\ \E t \in minted' \ minted, s \in created' \ created :
        /\ jar' = [jar EXCEPT ![b].token = t]
        /\ holder' = [holder EXCEPT ![t] = s]
    /\ UNCHANGED <<call, told>>

\* What happens to the table elsewhere.
Elsewhere ==
    /\ Tick \/ DeleteExpired \/ \E u \in UserId : RevokeAll(u)
    /\ UNCHANGED cacheVars

Serve(r) ==
    \/ \E b \in Browser : ReadCache(r, b)
    \/ \E b \in Browser, cacheable \in BOOLEAN : ReadRow(r, b, cacheable)
    \/ VerifyRow(r)
    \/ Answer(r) \/ Lost(r) \/ UpdateUser(r)
    \/ \E e \in StepUps : Reauthenticate(r, e)
    \/ \E stamp \in 0..now : Reauthenticated(r, stamp)
    \/ NotReauthenticated(r)
    \/ SignOutHere(r) \/ RevokeSessions(r) \/ RevokeOtherSessions(r)
    \/ \E s \in created : RevokeSession(r, s)

CacheNext ==
    \/ Elsewhere
    \/ \E b \in Browser, u \in UserId : ResetPassword(b, u)
    \/ \E b \in Browser : ClearSnapshot(b)
    \/ \E b \in Browser, u \in UserId, m \in BOOLEAN, e \in SignInLogs : SignIn(b, u, m, e)
    \/ \E r \in Request : Serve(r)

CacheSpec == CacheInit /\ [][CacheNext]_allVars

-----------------------------------------------------------------------------

CacheTypeOK ==
    /\ jar \in [Browser -> Jar]
    /\ call \in [Request -> Call]
    /\ holder \in [Token -> SessionId \cup {None}]
    /\ told \subseteq Browser \X SessionId

\* A browser in which one person signed out and another signed in, with answers to
\* the first still on their way: a snapshot answers only for the session that the
\* token beside it was handed out for.
AnswersItsHolder ==
    \A b \in Browser : Hit(b) => jar[b].snapshot.id = holder[jar[b].token]

\* The snapshot of a session that is due for its refresh, or that would have ended,
\* does not answer, also after a step-up brought the two apart or a handler signed
\* the snapshot again: browsing keeps reaching verify, and the expiry keeps rolling.
RefreshStaysHonest ==
    \A b \in Browser :
        Hit(b) => /\ ~IsExpired(jar[b].snapshot.session, now)
                  /\ ~IsRefreshDue(jar[b].snapshot.session, now)

\* Once a browser has ended its own session, with no other request of it under
\* way, nothing in it answers for that session again.
EndedHereIsOver ==
    \A b \in Browser : Hit(b) => <<b, jar[b].snapshot.id>> \notin told

=============================================================================
