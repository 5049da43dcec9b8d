------------------------------ MODULE OAuthFlow ------------------------------
(***************************************************************************)
(* Signing in and linking through a provider: oauth/State.ts and the       *)
(* callback of oauth/Flow.ts, with the cookie that http/Handlers.ts binds  *)
(* a flow by.                                                              *)
(*                                                                         *)
(* A flow is named by its state, and so are its PKCE verifier and its      *)
(* nonce; a challenge is the hash of a verifier.  The provider is          *)
(* external: it answers a flow with codes and redeems each code once.      *)
(* What the link step does inside is the module Accounts, and what becomes *)
(* of the tokens is ProviderTokens; here it is one step.                   *)
(***************************************************************************)
EXTENDS Verifications, FiniteSets

CONSTANTS
    Browser,
    Provider,
    Pkce,       \* providers that check the PKCE verifier
    Oidc,       \* providers whose id_token carries the nonce
    Subject,    \* people at the providers, users here
    Flow,       \* states
    Request,    \* callbacks
    Ttl,        \* tokens.oauthStateTtl
    MaxTime,    \* bound: the clock stops here
    MaxCodes,   \* bound: codes that providers give
    None

ASSUME ProvidersAreChecked ==
    /\ Pkce \subseteq Provider /\ Oidc \subseteq Provider
    /\ Provider \subseteq Pkce \cup Oidc
ASSUME LifetimesAreNumbers == Ttl \in Nat \ {0} /\ MaxTime \in Nat /\ MaxCodes \in Nat

VARIABLES
    now,
    states,     \* the verifications table
    started,    \* history: where and for what each flow was started
    jar,        \* the state cookie of each browser
    codes,      \* codes the provider would redeem
    issued,     \* history: every code there ever was
    owner,      \* the accounts table: whose each identity is
    req,        \* callbacks under way
    outcomes    \* history: what callbacks came to

vars == <<now, states, started, jar, codes, issued, owner, req, outcomes>>

Identity == Provider \X Subject

Beginning == [browser : Browser, provider : Provider, link : Subject \cup {None}]

ASSUME NoneIsNone == None \notin Browser \cup Provider \cup Subject \cup Flow \cup Beginning

StatePayload == [provider : Provider, verifier : Flow, nonce : Flow \cup {None},
                 link : Subject \cup {None}]
Code == [provider : Provider, challenge : Flow, nonce : Flow \cup {None}, subject : Subject]

RequestState ==
    [at : {"idle", "consume", "exchange", "link", "respond", "done"},
     browser : Browser \cup {None}, provider : Provider \cup {None}, state : Flow \cup {None},
     code : Code \cup {None}, payload : StatePayload \cup {None}]

NoRequest ==
    [at |-> "idle", browser |-> None, provider |-> None, state |-> None, code |-> None,
     payload |-> None]

\* A state is found by its own hash.
StateOf(f) == IdentifierOf("oauth-state", f)

Init ==
    /\ now = 0
    /\ states = {}
    /\ started = [f \in Flow |-> None]
    /\ jar = [b \in Browser |-> None]
    /\ codes = {}
    /\ issued = {}
    /\ owner = [i \in Identity |-> None]
    /\ req = [r \in Request |-> NoRequest]
    /\ outcomes = {}

-----------------------------------------------------------------------------

Tick ==
    /\ now < MaxTime
    /\ now' = now + 1
    /\ UNCHANGED <<states, started, jar, codes, issued, owner, req, outcomes>>

\* deleteExpired.
DeleteExpired ==
    /\ states' = Swept(states, now)
    /\ UNCHANGED <<now, started, jar, codes, issued, owner, req, outcomes>>

\* signInSocial and linkSocial: the state row, and the cookie of the answer.
Start(f, b, p, link) ==
    /\ started[f] = None
    /\ started' = [started EXCEPT ![f] = [browser |-> b, provider |-> p, link |-> link]]
    /\ states' = Issued(states, StateOf(f), f,
                        [provider |-> p, verifier |-> f, nonce |-> IF p \in Oidc THEN f ELSE None,
                         link |-> link], Ttl, now)
    /\ jar' = [jar EXCEPT ![b] = f]
    /\ UNCHANGED <<now, codes, issued, owner, req, outcomes>>

\* Somebody follows the authorization URL, in whatever browser, and agrees.
Authorize(f, s) ==
    /\ started[f] # None
    /\ Cardinality(issued) < MaxCodes
    /\ LET code == [provider |-> started[f].provider, challenge |-> f,
                    nonce |-> IF started[f].provider \in Oidc THEN f ELSE None, subject |-> s]
       IN  /\ code \notin issued
           /\ codes' = codes \cup {code}
           /\ issued' = issued \cup {code}
    /\ UNCHANGED <<now, states, started, jar, owner, req, outcomes>>

-----------------------------------------------------------------------------
(* The callback *)

At(r, step) == req[r].at = step

Becomes(r, state) == req' = [req EXCEPT ![r] = state]

\* Every way out of the handler is a response.
Answers(r) == Becomes(r, [NoRequest EXCEPT !.at = "respond", !.browser = req[r].browser])

\* Mutant: any browser will do.
BoundToAny(b, f) == TRUE

\* The cookie has to be the state that comes back.
Bound(b, f) == jar[b] = f

\* A callback URL is opened: any state, with a code or an error.
Callback(r, b, p, f, code) ==
    /\ At(r, "idle")
    /\ LET asked == [NoRequest EXCEPT !.browser = b] IN
       Becomes(r, IF Bound(b, f)
                  THEN [asked EXCEPT !.provider = p, !.state = f, !.code = code, !.at = "consume"]
                  ELSE [asked EXCEPT !.at = "respond"])
    /\ UNCHANGED <<now, states, started, jar, codes, issued, owner, outcomes>>

IssuedTo(payload, p) == payload.provider = p

\* Mutant: a state is read and stays.
ConsumeReads(r) ==
    /\ At(r, "consume")
    /\ \E v \in Claimable(states, StateOf(req[r].state), req[r].state, now) :
            /\ IssuedTo(v.payload, req[r].provider) /\ req[r].code # None
            /\ Becomes(r, [req[r] EXCEPT !.payload = v.payload, !.at = "exchange"])
    /\ UNCHANGED <<now, states, started, jar, codes, issued, owner, outcomes>>

\* Spent whichever provider's callback it came to, and with an error as well.
Consume(r) ==
    /\ At(r, "consume")
    /\ LET claimed == Claimable(states, StateOf(req[r].state), req[r].state, now) IN
       /\ states' = states \ claimed
       /\ \/ claimed = {} /\ Answers(r)
          \/ \E v \in claimed :
                IF IssuedTo(v.payload, req[r].provider) /\ req[r].code # None
                THEN Becomes(r, [req[r] EXCEPT !.payload = v.payload, !.at = "exchange"])
                ELSE Answers(r)
    /\ UNCHANGED <<now, started, jar, codes, issued, owner, outcomes>>

\* What the provider redeems a code for.
Redeems(r) ==
    /\ req[r].code \in codes
    /\ req[r].code.provider = req[r].provider
    /\ req[r].provider \in Pkce => req[r].code.challenge = req[r].payload.verifier

Exchange(r) ==
    /\ At(r, "exchange")
    /\ Redeems(r)
    /\ codes' = codes \ {req[r].code}
    /\ Becomes(r, [req[r] EXCEPT !.at = "link"])
    /\ UNCHANGED <<now, states, started, jar, issued, owner, outcomes>>

\* Rejected, unavailable, or redeemed and the answer lost, so that repeating the
\* request is rejected.
ExchangeFails(r) ==
    /\ At(r, "exchange")
    /\ codes' \in {codes, IF Redeems(r) THEN codes \ {req[r].code} ELSE codes}
    /\ Answers(r)
    /\ UNCHANGED <<now, states, started, jar, issued, owner, outcomes>>

NonceMatches(payload, code) == payload.nonce # None => code.nonce = payload.nonce

IdTokenInvalid(r) ==
    /\ At(r, "link")
    /\ ~NonceMatches(req[r].payload, req[r].code)
    /\ Answers(r)
    /\ UNCHANGED <<now, states, started, jar, codes, issued, owner, outcomes>>

\* Whom a callback is for: the one who started it to link, or whom the provider names.
For(payload, code) == IF payload.link = None THEN code.subject ELSE payload.link

Identified(r) == <<req[r].provider, req[r].code.subject>>

AlreadyLinked(r) ==
    /\ At(r, "link")
    /\ NonceMatches(req[r].payload, req[r].code)
    /\ req[r].payload.link # None
    /\ owner[Identified(r)] \notin {None, req[r].payload.link}
    /\ Answers(r)
    /\ UNCHANGED <<now, states, started, jar, codes, issued, owner, outcomes>>

\* A new identity gets its owner; a known one signs its owner in.
Link(r) ==
    LET known == owner[Identified(r)]
        whose == IF known = None THEN For(req[r].payload, req[r].code) ELSE known
    IN
    /\ At(r, "link")
    /\ NonceMatches(req[r].payload, req[r].code)
    /\ req[r].payload.link # None => known \in {None, req[r].payload.link}
    /\ owner' = [owner EXCEPT ![Identified(r)] = whose]
    /\ outcomes' = outcomes \cup {[flow |-> req[r].state, code |-> req[r].code, by |-> r,
                                   browser |-> req[r].browser, user |-> whose]}
    /\ Answers(r)
    /\ UNCHANGED <<now, states, started, jar, codes, issued>>

\* The cookie is cleared whatever came of it, also where another flow has begun
\* in the browser meanwhile.
Respond(r) ==
    /\ At(r, "respond")
    /\ jar' = [jar EXCEPT ![req[r].browser] = None]
    /\ Becomes(r, [NoRequest EXCEPT !.at = "done"])
    /\ UNCHANGED <<now, states, started, codes, issued, owner, outcomes>>

\* Refused by a hook, failed or crashed.
Abandon(r) ==
    /\ req[r].at \notin {"idle", "done"}
    /\ Becomes(r, [NoRequest EXCEPT !.at = "done"])
    /\ UNCHANGED <<now, states, started, jar, codes, issued, owner, outcomes>>

Serve(r) ==
    \/ \E b \in Browser, p \in Provider, f \in Flow, code \in issued \cup {None} :
            Callback(r, b, p, f, code)
    \/ Consume(r) \/ Exchange(r) \/ ExchangeFails(r)
    \/ IdTokenInvalid(r) \/ AlreadyLinked(r) \/ Link(r) \/ Respond(r)
    \/ Abandon(r)

Next ==
    \/ Tick
    \/ DeleteExpired
    \/ \E f \in Flow, b \in Browser, p \in Provider, link \in Subject \cup {None} : Start(f, b, p, link)
    \/ \E f \in Flow, s \in Subject : Authorize(f, s)
    \/ \E r \in Request : Serve(r)

Spec == Init /\ [][Next]_vars

-----------------------------------------------------------------------------

TypeOK ==
    /\ now \in 0..MaxTime
    /\ \A v \in states : v.payload \in StatePayload /\ v.secret \in Flow /\ v.expiresAt \in Nat
    /\ started \in [Flow -> Beginning \cup {None}]
    /\ jar \in [Browser -> Flow \cup {None}]
    /\ codes \subseteq issued /\ issued \subseteq Code
    /\ owner \in [Identity -> Subject \cup {None}]
    /\ req \in [Request -> RequestState]
    /\ outcomes \subseteq [flow : Flow, code : Code, by : Request, browser : Browser, user : Subject]

\* Whatever state, code or error a callback URL carries, whichever browser opens
\* it and however callbacks interleave: a flow comes to nothing but what it was
\* started for, in the browser that started it, with a code that was given for it.
\* (The state row, the cookie, the PKCE verifier and the nonce carry a part each.)
OutcomeIsOfItsFlow ==
    \A o \in outcomes :
        /\ started[o.flow].browser = o.browser
        /\ started[o.flow].provider = o.code.provider
        /\ o.code.challenge = o.flow
        /\ started[o.flow].link \in {None, o.user}

\* A flow comes to one outcome at most, however often its callback arrives.
OneOutcomePerFlow ==
    \A o, p \in outcomes : o.flow = p.flow => o = p
=============================================================================
