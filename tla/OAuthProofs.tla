------------------------------ MODULE OAuthProofs -----------------------------
(***************************************************************************)
(* What holds of OAuthFlow and of ProviderTokens for any number of         *)
(* browsers, providers, flows, callbacks, identities, tokens and requests. *)
(*                                                                         *)
(* Of flows the inductive invariant has two parts.  Whatever names a flow  *)
(* agrees with how the flow was started, and what a flow was started for   *)
(* never changes.  And a flow is in one place: its state row, or one       *)
(* callback that consumed it, or one outcome.                              *)
(*                                                                         *)
(* Of tokens: an account is known while it is a row or a request has read  *)
(* it.  Accounts known at once agree about whose an id and a token are,    *)
(* and a token in the hands of a request is live, and in nobody else's.    *)
(***************************************************************************)
EXTENDS OAuthFlow, ProviderTokens, TLAPS

Begun(f) == f \in Flow /\ started[f] \in Beginning

\* What the state row of a flow carries.
Carries(payload, f) ==
    payload = [provider |-> started[f].provider, verifier |-> f,
               nonce |-> IF started[f].provider \in Oidc THEN f ELSE None,
               link |-> started[f].link]

RowIsOfItsFlow(v) ==
    v.identifier = StateOf(v.secret) /\ Begun(v.secret) /\ Carries(v.payload, v.secret)

\* What a code was given for.
CodeIsOfItsFlow(c) ==
    /\ Begun(c.challenge)
    /\ c.provider = started[c.challenge].provider
    /\ c.provider \in Oidc => c.nonce = c.challenge

Holds(b) == jar[b] # None => Begun(jar[b]) /\ started[jar[b]].browser = b

\* A callback that has consumed its state.
Spending(q) == q.at \in {"exchange", "link"}

Backed(q) ==
    /\ q.at = "consume" \/ Spending(q) =>
          /\ Begun(q.state) /\ q.provider \in Provider
          /\ started[q.state].browser = q.browser
          /\ q.code \in issued \cup {None}
    /\ Spending(q) =>
          /\ Carries(q.payload, q.state) /\ q.payload.provider = q.provider
          /\ q.code \in issued
    /\ q.at = "link" =>
          /\ q.code.provider = q.provider
          /\ q.provider \in Pkce => q.code.challenge = q.state
    /\ q.at = "respond" => q.browser \in Browser

OfTheirFlows ==
    /\ \A v \in states : RowIsOfItsFlow(v)
    /\ \A c \in issued : CodeIsOfItsFlow(c)
    /\ \A b \in Browser : Holds(b)
    /\ \A r \in Request : Backed(req[r])
    /\ \A o \in outcomes : Begun(o.flow)

SpentBy(r, f) == Spending(req[r]) /\ req[r].state = f

InOnePlace ==
    /\ \A v, w \in states : v.secret = w.secret => v = w
    /\ \A v \in states, r \in Request : ~SpentBy(r, v.secret)
    /\ \A v \in states, o \in outcomes : o.flow # v.secret
    /\ \A r \in Request, o \in outcomes : ~SpentBy(r, o.flow)
    /\ \A r, s \in Request, f \in Flow : SpentBy(r, f) /\ SpentBy(s, f) => r = s

IInv ==
    /\ TypeOK
    /\ OfTheirFlows
    /\ InOnePlace
    /\ OutcomeIsOfItsFlow
    /\ OneOutcomePerFlow

-----------------------------------------------------------------------------
(* Records *)

LEMMA Idle == NoRequest \in RequestState /\ NoRequest.at = "idle"
  BY DEF NoRequest, RequestState

\* Every record that a callback becomes, with what is read of it later.
LEMMA Answering ==
    ASSUME TypeOK, NEW r \in Request,
           NEW q, q = [NoRequest EXCEPT !.at = "respond", !.browser = req[r].browser]
    PROVE  q \in RequestState /\ q.at = "respond" /\ q.browser = req[r].browser
  <1>1. req[r] \in RequestState
    BY DEF TypeOK
  <1> QED BY <1>1, Idle DEF RequestState

LEMMA Ending ==
    ASSUME NEW q, q = [NoRequest EXCEPT !.at = "done"]
    PROVE  q \in RequestState /\ q.at = "done"
  BY Idle DEF RequestState

LEMMA Refusing ==
    ASSUME NEW b \in Browser, NEW q, q = [[NoRequest EXCEPT !.browser = b] EXCEPT !.at = "respond"]
    PROVE  q \in RequestState /\ q.at = "respond" /\ q.browser = b
  BY Idle DEF RequestState

LEMMA Exchanging ==
    ASSUME TypeOK, NEW r \in Request, NEW payload \in StatePayload,
           NEW q, q = [req[r] EXCEPT !.payload = payload, !.at = "exchange"]
    PROVE  /\ q \in RequestState /\ q.at = "exchange" /\ q.payload = payload
           /\ q.browser = req[r].browser /\ q.provider = req[r].provider
           /\ q.state = req[r].state /\ q.code = req[r].code
  <1>1. req[r] \in RequestState
    BY DEF TypeOK
  <1> QED BY <1>1 DEF RequestState

LEMMA Linking ==
    ASSUME TypeOK, NEW r \in Request, NEW q, q = [req[r] EXCEPT !.at = "link"]
    PROVE  /\ q \in RequestState /\ q.at = "link" /\ q.payload = req[r].payload
           /\ q.browser = req[r].browser /\ q.provider = req[r].provider
           /\ q.state = req[r].state /\ q.code = req[r].code
  <1>1. req[r] \in RequestState
    BY DEF TypeOK
  <1> QED BY <1>1 DEF RequestState

-----------------------------------------------------------------------------
(* Types *)

LEMMA StartTyped ==
    ASSUME TypeOK, NEW f \in Flow, NEW b \in Browser, NEW p \in Provider,
           NEW link \in Subject \cup {None}, Start(f, b, p, link)
    PROVE  TypeOK'
  <1> DEFINE payload == [provider |-> p, verifier |-> f,
                         nonce |-> IF p \in Oidc THEN f ELSE None, link |-> link]
             row == Row(StateOf(f), f, payload, now + Ttl)
  <1>1. payload \in StatePayload
    BY DEF StatePayload
  <1>2. row.payload = payload /\ row.secret = f /\ row.expiresAt = now + Ttl
    BY DEF Row
  <1>3. now + Ttl \in Nat
    BY LifetimesAreNumbers DEF TypeOK
  <1>4. states' = states \cup {row}
    BY DEF Start, Issued
  <1> HIDE DEF payload, row
  <1>5. \A v \in states' : v.payload \in StatePayload /\ v.secret \in Flow /\ v.expiresAt \in Nat
    BY <1>1, <1>2, <1>3, <1>4 DEF TypeOK
  <1>6. started' \in [Flow -> Beginning \cup {None}]
    BY DEF Start, TypeOK, Beginning
  <1>7. jar' \in [Browser -> Flow \cup {None}]
    BY DEF Start, TypeOK
  <1> QED BY <1>5, <1>6, <1>7 DEF Start, TypeOK

LEMMA AuthorizeTyped ==
    ASSUME TypeOK, NEW f \in Flow, NEW s \in Subject, Authorize(f, s)
    PROVE  TypeOK'
  <1>1. PICK code : /\ code = [provider |-> started[f].provider, challenge |-> f,
                               nonce |-> IF started[f].provider \in Oidc THEN f ELSE None,
                               subject |-> s]
                    /\ codes' = codes \cup {code} /\ issued' = issued \cup {code}
    BY DEF Authorize
  <1>2. started[f] \in Beginning
    BY DEF Authorize, TypeOK
  <1>3. started[f].provider \in Provider
    BY <1>2 DEF Beginning
  <1>4. code \in Code
    BY <1>1, <1>3 DEF Code
  <1> QED BY <1>1, <1>4 DEF Authorize, TypeOK

\* A callback becomes a callback.
LEMMA BecomesTyped ==
    ASSUME TypeOK, NEW r \in Request, NEW q \in RequestState, req' = [req EXCEPT ![r] = q]
    PROVE  req' \in [Request -> RequestState]
  BY DEF TypeOK

LEMMA AnswersTyped ==
    ASSUME TypeOK, NEW r \in Request, Answers(r)
    PROVE  req' \in [Request -> RequestState]
  <1>1. PICK q : q = [NoRequest EXCEPT !.at = "respond", !.browser = req[r].browser]
    OBVIOUS
  <1>2. q \in RequestState /\ req' = [req EXCEPT ![r] = q]
    BY <1>1, Answering DEF Answers, Becomes
  <1> QED BY <1>2, BecomesTyped

\* The cookie is asked for first.
LEMMA CallbackMoves ==
    ASSUME TypeOK, NEW r \in Request, NEW b \in Browser, NEW p \in Provider, NEW f \in Flow,
           NEW c \in issued \cup {None}, Callback(r, b, p, f, c)
    PROVE  \E q \in RequestState :
              /\ req' = [req EXCEPT ![r] = q] /\ q.browser = b
              /\ \/ q.at = "respond"
                 \/ /\ q.at = "consume" /\ jar[b] = f
                    /\ q.provider = p /\ q.state = f /\ q.code = c
  <1>1. PICK q : q = [[NoRequest EXCEPT !.browser = b]
                          EXCEPT !.provider = p, !.state = f, !.code = c, !.at = "consume"]
    OBVIOUS
  <1>2. PICK n : n = [[NoRequest EXCEPT !.browser = b] EXCEPT !.at = "respond"]
    OBVIOUS
  <1>3. c \in Code \cup {None}
    BY DEF TypeOK
  <1>4. /\ q \in RequestState /\ q.at = "consume" /\ q.browser = b
        /\ q.provider = p /\ q.state = f /\ q.code = c
    BY <1>1, <1>3, Idle DEF RequestState
  <1>5. n \in RequestState /\ n.at = "respond" /\ n.browser = b
    BY <1>2, Refusing
  <1>6. CASE jar[b] = f
    <2>1. req' = [req EXCEPT ![r] = q]
      BY <1>1, <1>6 DEF Callback, Bound, Becomes
    <2> QED BY <1>4, <1>6, <2>1
  <1>7. CASE jar[b] # f
    <2>1. req' = [req EXCEPT ![r] = n]
      BY <1>2, <1>7 DEF Callback, Bound, Becomes
    <2> QED BY <1>5, <2>1
  <1> QED BY <1>6, <1>7

\* A state that is found goes on to the exchange, or is answered.
LEMMA ConsumeMoves ==
    ASSUME NEW r \in Request, Consume(r)
    PROVE  LET claimed == Claimable(states, StateOf(req[r].state), req[r].state, now) IN
           /\ states' = states \ claimed
           /\ \/ Answers(r)
              \/ \E v \in claimed :
                    /\ v.payload.provider = req[r].provider /\ req[r].code # None
                    /\ req' = [req EXCEPT ![r] = [req[r] EXCEPT !.payload = v.payload,
                                                                !.at = "exchange"]]
  BY DEF Consume, IssuedTo, Becomes

\* What a callback has in hand when it links.
LEMMA LinksInHand ==
    ASSUME TypeOK, NEW r \in Request, Backed(req[r]), At(r, "link")
    PROVE  /\ req[r].state \in Flow /\ req[r].browser \in Browser
           /\ req[r].code \in Code /\ req[r].payload.link \in Subject \cup {None}
           /\ Identified(r) \in Identity
  <1>1. Spending(req[r]) /\ req[r].code \in Code
    BY DEF At, Spending, Backed, TypeOK
  <1>2. Begun(req[r].state) /\ Carries(req[r].payload, req[r].state)
        /\ started[req[r].state].browser = req[r].browser /\ req[r].provider \in Provider
    BY <1>1 DEF Backed
  <1>3. req[r].payload.link = started[req[r].state].link
    BY <1>2 DEF Carries
  <1>4. req[r].browser \in Browser /\ req[r].payload.link \in Subject \cup {None}
    BY <1>2, <1>3 DEF Begun, Beginning
  <1>5. req[r].code.subject \in Subject
    BY <1>1 DEF Code
  <1> QED BY <1>1, <1>2, <1>4, <1>5 DEF Begun, Identified, Identity

\* Whose the identity is then.
Whose(r) ==
    IF owner[Identified(r)] = None THEN For(req[r].payload, req[r].code) ELSE owner[Identified(r)]

LEMMA WhoseIsSomebody ==
    ASSUME TypeOK, NEW r \in Request, Backed(req[r]), At(r, "link")
    PROVE  Whose(r) \in Subject
  <1>1. req[r].code.subject \in Subject
    BY LinksInHand DEF Code
  <1>2. owner[Identified(r)] \in Subject \cup {None}
    BY LinksInHand DEF TypeOK
  <1> QED BY <1>1, <1>2, LinksInHand DEF Whose, For

LEMMA ServeTyped ==
    ASSUME TypeOK, NEW r \in Request, Backed(req[r]), Serve(r)
    PROVE  TypeOK'
  <1>1. ASSUME NEW b \in Browser, NEW p \in Provider, NEW f \in Flow,
               NEW c \in issued \cup {None}, Callback(r, b, p, f, c)
        PROVE  TypeOK'
    <2>1. PICK q \in RequestState : req' = [req EXCEPT ![r] = q]
      BY <1>1, CallbackMoves
    <2>2. req' \in [Request -> RequestState]
      BY <2>1, BecomesTyped
    <2> QED BY <1>1, <2>2 DEF Callback, TypeOK
  <1>2. CASE Consume(r)
    <2>1. states' \subseteq states
      BY <1>2, ConsumeMoves
    <2>2. req' \in [Request -> RequestState]
      <3>1. CASE Answers(r)
        BY <3>1, AnswersTyped
      <3>2. ASSUME NEW v \in states,
                   req' = [req EXCEPT ![r] = [req[r] EXCEPT !.payload = v.payload, !.at = "exchange"]]
            PROVE  req' \in [Request -> RequestState]
        <4>1. v.payload \in StatePayload
          BY DEF TypeOK
        <4>2. PICK q : q = [req[r] EXCEPT !.payload = v.payload, !.at = "exchange"]
          OBVIOUS
        <4>3. q \in RequestState
          BY <4>1, <4>2, Exchanging
        <4> QED BY <3>2, <4>2, <4>3, BecomesTyped
      <3> QED BY <1>2, <3>1, <3>2, ConsumeMoves DEF Claimable
    <2> QED BY <1>2, <2>1, <2>2 DEF Consume, TypeOK
  <1>3. CASE Exchange(r)
    <2>1. PICK q : q = [req[r] EXCEPT !.at = "link"]
      OBVIOUS
    <2>2. q \in RequestState /\ req' = [req EXCEPT ![r] = q]
      BY <1>3, <2>1, Linking DEF Exchange, Becomes
    <2>3. req' \in [Request -> RequestState]
      BY <2>2, BecomesTyped
    <2> QED BY <1>3, <2>3 DEF Exchange, TypeOK
  <1>4. CASE ExchangeFails(r) \/ IdTokenInvalid(r) \/ AlreadyLinked(r)
    <2>1. req' \in [Request -> RequestState]
      BY <1>4, AnswersTyped DEF ExchangeFails, IdTokenInvalid, AlreadyLinked
    <2> QED BY <1>4, <2>1 DEF ExchangeFails, IdTokenInvalid, AlreadyLinked, TypeOK
  <1>5. CASE Link(r)
    <2>1. At(r, "link")
      BY <1>5 DEF Link
    <2>2. PICK o : o = [flow |-> req[r].state, code |-> req[r].code, by |-> r,
                        browser |-> req[r].browser, user |-> Whose(r)]
      OBVIOUS
    <2>3. outcomes' = outcomes \cup {o} /\ owner' = [owner EXCEPT ![Identified(r)] = Whose(r)]
      BY <1>5, <2>2 DEF Link, Whose
    <2>4. o \in [flow : Flow, code : Code, by : Request, browser : Browser, user : Subject]
      BY <2>1, <2>2, LinksInHand, WhoseIsSomebody
    <2>5. owner' \in [Identity -> Subject \cup {None}]
      BY <2>1, <2>3, WhoseIsSomebody DEF TypeOK
    <2>6. req' \in [Request -> RequestState]
      BY <1>5, AnswersTyped DEF Link
    <2> QED BY <1>5, <2>3, <2>4, <2>5, <2>6 DEF Link, TypeOK
  <1>6. CASE Respond(r) \/ Abandon(r)
    <2>1. PICK q : q = [NoRequest EXCEPT !.at = "done"]
      OBVIOUS
    <2>2. q \in RequestState /\ req' = [req EXCEPT ![r] = q]
      BY <1>6, <2>1, Ending DEF Respond, Abandon, Becomes
    <2>3. req' \in [Request -> RequestState]
      BY <2>2, BecomesTyped
    <2>4. jar' \in [Browser -> Flow \cup {None}]
      BY <1>6 DEF Respond, Abandon, TypeOK
    <2> QED BY <1>6, <2>3, <2>4 DEF Respond, Abandon, TypeOK
  <1> QED BY <1>1, <1>2, <1>3, <1>4, <1>5, <1>6 DEF Serve

-----------------------------------------------------------------------------
(* A callback that answers, or goes on with what it has *)

\* Nothing that a callback does on its way makes anything forget its flow.
LEMMA OfTheirFlowsStay ==
    ASSUME TypeOK, OfTheirFlows, UNCHANGED <<started, issued, outcomes>>, states' \subseteq states,
           \A b \in Browser : jar'[b] \in {jar[b], None},
           NEW r \in Request, NEW q, Backed(q), req' = [req EXCEPT ![r] = q]
    PROVE  OfTheirFlows'
  <1>1. \A f : Begun(f)' <=> Begun(f)
    BY DEF Begun
  <1>2. \A p, f : Carries(p, f)' <=> Carries(p, f)
    BY DEF Carries
  <1>3. \A v \in states' : RowIsOfItsFlow(v)'
    BY <1>1, <1>2 DEF OfTheirFlows, RowIsOfItsFlow
  <1>4. \A c \in issued' : CodeIsOfItsFlow(c)'
    BY <1>1 DEF OfTheirFlows, CodeIsOfItsFlow
  <1>5. \A b \in Browser : Holds(b)'
    BY <1>1 DEF OfTheirFlows, Holds
  <1>6. \A s : Backed(s) => Backed(s)'
    BY <1>1, <1>2 DEF Backed
  <1>7. \A s \in Request : Backed(req[s])'
    <2> SUFFICES ASSUME NEW s \in Request PROVE Backed(req[s])'
      OBVIOUS
    <2>1. req'[s] = (IF s = r THEN q ELSE req[s])
      BY DEF TypeOK
    <2>2. PICK t : t = req'[s]
      OBVIOUS
    <2>3. Backed(t)'
      BY <1>6, <2>1, <2>2 DEF OfTheirFlows
    <2> QED BY <2>2, <2>3
  <1>8. \A o \in outcomes' : Begun(o.flow)'
    BY <1>1 DEF OfTheirFlows
  <1> QED BY <1>3, <1>4, <1>5, <1>7, <1>8 DEF OfTheirFlows

\* A flow leaves a place, and enters none.
LEMMA InOnePlaceStays ==
    ASSUME TypeOK, InOnePlace, outcomes' = outcomes, states' \subseteq states,
           NEW r \in Request, NEW q, req' = [req EXCEPT ![r] = q],
           Spending(q) => Spending(req[r]) /\ q.state = req[r].state
    PROVE  InOnePlace'
  <1>1. \A s \in Request : req'[s] = (IF s = r THEN q ELSE req[s])
    BY DEF TypeOK
  <1>2. \A s \in Request : \A f : SpentBy(s, f)' => SpentBy(s, f)
    BY <1>1 DEF SpentBy, Spending
  <1> QED BY <1>2 DEF InOnePlace

LEMMA OutcomesStay ==
    ASSUME OfTheirFlows, OutcomeIsOfItsFlow, OneOutcomePerFlow, outcomes' = outcomes,
           \A f : Begun(f) => started'[f] = started[f]
    PROVE  OutcomeIsOfItsFlow' /\ OneOutcomePerFlow'
  <1>1. \A o \in outcomes : started'[o.flow] = started[o.flow]
    BY DEF OfTheirFlows
  <1> QED BY <1>1 DEF OutcomeIsOfItsFlow, OneOutcomePerFlow

Held == OfTheirFlows /\ InOnePlace /\ OutcomeIsOfItsFlow /\ OneOutcomePerFlow

LEMMA GoesOn ==
    ASSUME TypeOK, Held, UNCHANGED <<started, issued, outcomes>>, states' \subseteq states,
           \A b \in Browser : jar'[b] \in {jar[b], None},
           NEW r \in Request, NEW q, Backed(q), req' = [req EXCEPT ![r] = q],
           Spending(q) => Spending(req[r]) /\ q.state = req[r].state
    PROVE  Held'
  <1>1. OfTheirFlows'
    BY OfTheirFlowsStay DEF Held
  <1>2. InOnePlace'
    BY InOnePlaceStays DEF Held
  <1>3. OutcomeIsOfItsFlow' /\ OneOutcomePerFlow'
    BY OutcomesStay DEF Held
  <1> QED BY <1>1, <1>2, <1>3 DEF Held

\* To answer is to forget.
LEMMA AnswersHeld ==
    ASSUME TypeOK, Held, UNCHANGED <<started, issued, outcomes, jar>>, states' \subseteq states,
           NEW r \in Request, At(r, "consume") \/ Spending(req[r]), Answers(r)
    PROVE  Held'
  <1>1. PICK q : q = [NoRequest EXCEPT !.at = "respond", !.browser = req[r].browser]
    OBVIOUS
  <1>2. q.at = "respond" /\ q.browser = req[r].browser /\ req' = [req EXCEPT ![r] = q]
    BY <1>1, Answering DEF Answers, Becomes
  <1>3. req[r].browser \in Browser
    <2>1. Backed(req[r])
      BY DEF Held, OfTheirFlows
    <2>2. Begun(req[r].state) /\ started[req[r].state].browser = req[r].browser
      BY <2>1 DEF At, Backed
    <2> QED BY <2>2 DEF Begun, Beginning
  <1>4. Backed(q) /\ ~Spending(q)
    BY <1>2, <1>3 DEF Backed, Spending
  <1>5. \A b \in Browser : jar'[b] \in {jar[b], None}
    OBVIOUS
  <1> QED BY <1>2, <1>4, <1>5, GoesOn

-----------------------------------------------------------------------------
(* The steps of a callback *)

LEMMA CallbackHeld ==
    ASSUME TypeOK, Held, NEW r \in Request, NEW b \in Browser, NEW p \in Provider,
           NEW f \in Flow, NEW c \in issued \cup {None}, Callback(r, b, p, f, c)
    PROVE  Held'
  <1>1. PICK q \in RequestState :
              /\ req' = [req EXCEPT ![r] = q] /\ q.browser = b
              /\ \/ q.at = "respond"
                 \/ /\ q.at = "consume" /\ jar[b] = f
                    /\ q.provider = p /\ q.state = f /\ q.code = c
    BY CallbackMoves
  <1>2. CASE q.at = "respond"
    <2>1. Backed(q) /\ ~Spending(q)
      BY <1>1, <1>2 DEF Backed, Spending
    <2>2. UNCHANGED <<started, issued, outcomes, jar, states>>
      BY DEF Callback
    <2> QED BY <1>1, <2>1, <2>2, GoesOn
  <1>3. CASE q.at = "consume"
    <2>1. jar[b] = f /\ f # None
      BY <1>1, <1>3, NoneIsNone
    <2>2. Begun(f) /\ started[f].browser = b
      BY <2>1 DEF Held, OfTheirFlows, Holds
    <2>3. Backed(q) /\ ~Spending(q)
      BY <1>1, <1>3, <2>2 DEF Backed, Spending
    <2>4. UNCHANGED <<started, issued, outcomes, jar, states>>
      BY DEF Callback
    <2> QED BY <1>1, <2>3, <2>4, GoesOn
  <1> QED BY <1>1, <1>2, <1>3

\* Only one row has the flow's secret, so consuming it leaves the flow in no other place.
LEMMA ConsumeHeld ==
    ASSUME TypeOK, Held, NEW r \in Request, Consume(r)
    PROVE  Held'
  <1> DEFINE claimed == Claimable(states, StateOf(req[r].state), req[r].state, now)
  <1>1. /\ states' = states \ claimed /\ UNCHANGED <<started, jar, issued, outcomes>>
        /\ At(r, "consume")
    BY DEF Consume
  <1>2. CASE Answers(r)
    BY <1>1, <1>2, AnswersHeld
  <1>3. ASSUME NEW v \in claimed, v.payload.provider = req[r].provider, req[r].code # None,
               req' = [req EXCEPT ![r] = [req[r] EXCEPT !.payload = v.payload, !.at = "exchange"]]
        PROVE  Held'
    <2>1. PICK q : q = [req[r] EXCEPT !.payload = v.payload, !.at = "exchange"]
      OBVIOUS
    <2>2. v \in states /\ v.secret = req[r].state
      BY <1>3 DEF Claimable
    <2>3. v.payload \in StatePayload
      BY <2>2 DEF TypeOK
    <2>4. /\ q.at = "exchange" /\ q.payload = v.payload
          /\ q.browser = req[r].browser /\ q.provider = req[r].provider
          /\ q.state = req[r].state /\ q.code = req[r].code
      <3>1. req[r] \in RequestState
        BY DEF TypeOK
      <3> QED BY ONLY <2>1, <2>3, <3>1 DEF RequestState
    <2>5. req' = [req EXCEPT ![r] = q]
      BY <1>3, <2>1
    <2>6. Carries(v.payload, v.secret)
      BY <2>2 DEF Held, OfTheirFlows, RowIsOfItsFlow
    <2>7. Backed(req[r])
      BY DEF Held, OfTheirFlows
    <2> HIDE DEF claimed
    <2>8. Backed(q)
      BY <1>1, <1>3, <2>2, <2>4, <2>6, <2>7 DEF Backed, At, Spending
    <2>9. OfTheirFlows'
      BY <1>1, <2>5, <2>8, OfTheirFlowsStay DEF Held
    <2>10. InOnePlace'
      <3>1. \A s \in Request : req'[s] = (IF s = r THEN q ELSE req[s])
        BY <2>5 DEF TypeOK
      <3>2. \A s \in Request : \A f : SpentBy(s, f)' => SpentBy(s, f) \/ (s = r /\ f = v.secret)
        BY <2>2, <2>4, <3>1 DEF SpentBy, Spending
      <3>3. \A w \in states' : w \in states /\ w.secret # v.secret
        BY <1>1, <1>3, <2>2 DEF Held, InOnePlace
      <3>4. \A s \in Request : ~SpentBy(s, v.secret)
        BY <2>2 DEF Held, InOnePlace
      <3>5. \A o \in outcomes : o.flow # v.secret
        BY <2>2 DEF Held, InOnePlace
      <3>6. \A w \in states', s \in Request : ~SpentBy(s, w.secret)'
        BY <3>2, <3>3 DEF Held, InOnePlace
      <3>7. \A s \in Request, o \in outcomes : ~SpentBy(s, o.flow)'
        BY <3>2, <3>5 DEF Held, InOnePlace
      <3>8. \A s, t \in Request, f \in Flow : SpentBy(s, f)' /\ SpentBy(t, f)' => s = t
        BY <3>2, <3>4 DEF Held, InOnePlace
      <3> QED BY <1>1, <3>3, <3>6, <3>7, <3>8 DEF Held, InOnePlace
    <2>11. OutcomeIsOfItsFlow' /\ OneOutcomePerFlow'
      BY <1>1, OutcomesStay DEF Held
    <2> QED BY <2>9, <2>10, <2>11 DEF Held
  <1> QED BY <1>2, <1>3, ConsumeMoves

LEMMA ExchangeHeld ==
    ASSUME TypeOK, Held, NEW r \in Request, Exchange(r)
    PROVE  Held'
  <1>1. PICK q : q = [req[r] EXCEPT !.at = "link"]
    OBVIOUS
  <1>2. /\ q.at = "link" /\ q.payload = req[r].payload
        /\ q.browser = req[r].browser /\ q.provider = req[r].provider
        /\ q.state = req[r].state /\ q.code = req[r].code
    BY <1>1, Linking
  <1>3. req' = [req EXCEPT ![r] = q] /\ Spending(req[r])
    BY <1>1 DEF Exchange, Becomes, At, Spending
  <1>4. Backed(req[r])
    BY DEF Held, OfTheirFlows
  <1>5. req[r].payload.verifier = req[r].state
    BY <1>3, <1>4 DEF Backed, Carries
  <1>6. /\ req[r].code.provider = req[r].provider
        /\ req[r].provider \in Pkce => req[r].code.challenge = req[r].state
    BY <1>5 DEF Exchange, Redeems
  <1>7. Backed(q)
    BY <1>2, <1>3, <1>4, <1>6 DEF Backed, Spending
  <1>8. UNCHANGED <<started, issued, outcomes, jar, states>>
    BY DEF Exchange
  <1> QED BY <1>2, <1>3, <1>7, <1>8, GoesOn

\* The cookie, the state row, and the verifier or the nonce make it the flow's outcome.
LEMMA LinkIsOfItsFlow ==
    ASSUME TypeOK, NEW r \in Request, Backed(req[r]), CodeIsOfItsFlow(req[r].code), Link(r)
    PROVE  /\ Begun(req[r].state)
           /\ started[req[r].state].browser = req[r].browser
           /\ started[req[r].state].provider = req[r].code.provider
           /\ req[r].code.challenge = req[r].state
           /\ started[req[r].state].link \in {None, Whose(r)}
  <1>1. At(r, "link") /\ req[r].at = "link" /\ Spending(req[r])
    BY DEF Link, At, Spending
  <1>2. /\ Begun(req[r].state) /\ started[req[r].state].browser = req[r].browser
        /\ Carries(req[r].payload, req[r].state) /\ req[r].payload.provider = req[r].provider
        /\ req[r].code.provider = req[r].provider /\ req[r].provider \in Provider
        /\ req[r].provider \in Pkce => req[r].code.challenge = req[r].state
    BY <1>1 DEF Backed
  <1>3. /\ req[r].payload.provider = started[req[r].state].provider
        /\ req[r].payload.nonce = IF started[req[r].state].provider \in Oidc THEN req[r].state ELSE None
        /\ req[r].payload.link = started[req[r].state].link
    BY <1>2 DEF Carries
  <1>4. req[r].code.challenge = req[r].state
    <2>1. CASE req[r].provider \in Oidc
      <3>1. req[r].payload.nonce = req[r].state /\ req[r].state # None
        BY <1>2, <1>3, <2>1, NoneIsNone DEF Begun
      <3>2. req[r].code.nonce = req[r].state
        BY <3>1 DEF Link, NonceMatches
      <3>3. req[r].code.nonce = req[r].code.challenge
        BY <1>2, <2>1 DEF CodeIsOfItsFlow
      <3> QED BY <3>2, <3>3
    <2>2. CASE req[r].provider \in Pkce
      BY <1>2, <2>2
    <2> QED BY <1>2, <2>1, <2>2, ProvidersAreChecked
  <1>5. started[req[r].state].link \in {None, Whose(r)}
    BY <1>3 DEF Link, Whose, For
  <1> QED BY <1>2, <1>3, <1>4, <1>5

LEMMA LinkHeld ==
    ASSUME TypeOK, Held, NEW r \in Request, Link(r)
    PROVE  Held'
  <1>1. PICK o : o = [flow |-> req[r].state, code |-> req[r].code, by |-> r,
                      browser |-> req[r].browser, user |-> Whose(r)]
    OBVIOUS
  <1>2. PICK q : q = [NoRequest EXCEPT !.at = "respond", !.browser = req[r].browser]
    OBVIOUS
  <1>3. q.at = "respond" /\ q.browser = req[r].browser /\ req' = [req EXCEPT ![r] = q]
    BY <1>2, Answering DEF Link, Answers, Becomes
  <1>4. /\ outcomes' = outcomes \cup {o} /\ UNCHANGED <<started, issued, jar, states>>
        /\ At(r, "link") /\ Spending(req[r])
    BY <1>1 DEF Link, Whose, At, Spending
  <1>5. Backed(req[r]) /\ req[r].code \in issued
    BY <1>4 DEF Held, OfTheirFlows, Backed
  <1>6. CodeIsOfItsFlow(req[r].code)
    BY <1>5 DEF Held, OfTheirFlows
  <1>7. /\ Begun(req[r].state)
        /\ started[req[r].state].browser = req[r].browser
        /\ started[req[r].state].provider = req[r].code.provider
        /\ req[r].code.challenge = req[r].state
        /\ started[req[r].state].link \in {None, Whose(r)}
    BY <1>5, <1>6, LinkIsOfItsFlow
  <1>8. \A s \in Request : req'[s] = (IF s = r THEN q ELSE req[s])
    BY <1>3 DEF TypeOK
  <1>9. SpentBy(r, o.flow) /\ o.flow \in Flow
    BY <1>1, <1>4, <1>7 DEF SpentBy, Begun
  <1>10. \A f : Begun(f)' <=> Begun(f)
    BY <1>4 DEF Begun
  <1>11. OfTheirFlows'
    <2>1. req[r].browser \in Browser
      BY <1>7 DEF Begun, Beginning
    <2>2. Backed(q)
      BY <1>3, <2>1 DEF Backed, Spending
    <2>3. \A p, f : Carries(p, f)' <=> Carries(p, f)
      BY <1>4 DEF Carries
    <2>4. \A v \in states' : RowIsOfItsFlow(v)'
      BY <1>4, <1>10, <2>3 DEF Held, OfTheirFlows, RowIsOfItsFlow
    <2>5. \A c \in issued' : CodeIsOfItsFlow(c)'
      BY <1>4, <1>10 DEF Held, OfTheirFlows, CodeIsOfItsFlow
    <2>6. \A b \in Browser : Holds(b)'
      BY <1>4, <1>10 DEF Held, OfTheirFlows, Holds
    <2>7. \A s : Backed(s) => Backed(s)'
      BY <1>4, <1>10, <2>3 DEF Backed
    <2>8. \A s \in Request : Backed(req[s])'
      <3> SUFFICES ASSUME NEW s \in Request PROVE Backed(req[s])'
        OBVIOUS
      <3>1. PICK t : t = req'[s]
        OBVIOUS
      <3>2. Backed(t)'
        BY <1>8, <2>2, <2>7, <3>1 DEF Held, OfTheirFlows
      <3> QED BY <3>1, <3>2
    <2>9. \A p \in outcomes' : Begun(p.flow)'
      BY <1>1, <1>4, <1>7, <1>10 DEF Held, OfTheirFlows
    <2> QED BY <2>4, <2>5, <2>6, <2>8, <2>9 DEF OfTheirFlows
  <1>12. InOnePlace'
    <2>1. \A s \in Request : \A f : SpentBy(s, f)' => SpentBy(s, f) /\ s # r
      BY <1>3, <1>8 DEF SpentBy, Spending
    <2>2. \A s \in Request : SpentBy(s, o.flow) => s = r
      BY <1>9 DEF Held, InOnePlace
    <2>3. \A v \in states : o.flow # v.secret
      BY <1>9 DEF Held, InOnePlace
    <2>4. \A v \in states', p \in outcomes' : p.flow # v.secret
      BY <1>4, <2>3 DEF Held, InOnePlace
    <2>5. \A s \in Request, p \in outcomes' : ~SpentBy(s, p.flow)'
      BY <1>4, <2>1, <2>2 DEF Held, InOnePlace
    <2> QED BY <1>4, <2>1, <2>4, <2>5 DEF Held, InOnePlace
  <1>13. OutcomeIsOfItsFlow'
    <2>1. /\ o.flow = req[r].state /\ o.browser = req[r].browser
          /\ o.code = req[r].code /\ o.user = Whose(r)
      BY <1>1
    <2> QED BY <1>4, <1>7, <2>1 DEF Held, OutcomeIsOfItsFlow
  <1>14. OneOutcomePerFlow'
    <2>1. \A p \in outcomes : p.flow # o.flow
      BY <1>9 DEF Held, InOnePlace
    <2> QED BY <1>4, <2>1 DEF Held, OneOutcomePerFlow
  <1> QED BY <1>11, <1>12, <1>13, <1>14 DEF Held

LEMMA ServeHeld ==
    ASSUME TypeOK, Held, NEW r \in Request, Serve(r)
    PROVE  Held'
  <1>1. CASE ExchangeFails(r) \/ IdTokenInvalid(r) \/ AlreadyLinked(r)
    <2>1. /\ UNCHANGED <<started, issued, outcomes, jar, states>>
          /\ Answers(r) /\ Spending(req[r])
      BY <1>1 DEF ExchangeFails, IdTokenInvalid, AlreadyLinked, At, Spending
    <2> QED BY <2>1, AnswersHeld
  <1>2. CASE Respond(r) \/ Abandon(r)
    <2>1. PICK q : q = [NoRequest EXCEPT !.at = "done"]
      OBVIOUS
    <2>2. q.at = "done" /\ req' = [req EXCEPT ![r] = q]
      BY <1>2, <2>1, Ending DEF Respond, Abandon, Becomes
    <2>3. Backed(q) /\ ~Spending(q)
      BY <2>2 DEF Backed, Spending
    <2>4. UNCHANGED <<started, issued, outcomes, states>>
      BY <1>2 DEF Respond, Abandon
    <2>5. \A b \in Browser : jar'[b] \in {jar[b], None}
      BY <1>2 DEF Respond, Abandon, TypeOK
    <2> QED BY <2>2, <2>3, <2>4, <2>5, GoesOn
  <1> QED BY <1>1, <1>2, CallbackHeld, ConsumeHeld, ExchangeHeld, LinkHeld DEF Serve

-----------------------------------------------------------------------------
(* The other steps *)

LEMMA BegunStays ==
    ASSUME TypeOK, [Next]_vars, NEW f, Begun(f)
    PROVE  Begun(f)' /\ started'[f] = started[f]
  <1>1. started[f] # None
    BY NoneIsNone DEF Begun
  <1>2. ASSUME NEW g \in Flow, NEW b \in Browser, NEW p \in Provider,
               NEW link \in Subject \cup {None}, Start(g, b, p, link)
        PROVE  started'[f] = started[f]
    BY <1>1, <1>2 DEF Start, TypeOK, Begun
  <1>3. started'[f] = started[f]
    BY <1>2 DEF Next, Tick, DeleteExpired, Authorize, Serve, Callback, Consume, Exchange,
                ExchangeFails, IdTokenInvalid, AlreadyLinked, Link, Respond, Abandon, vars
  <1> QED BY <1>3 DEF Begun

\* What is said of flows that have begun stays true.
LEMMA SaidStays ==
    ASSUME TypeOK, [Next]_vars, issued \subseteq issued'
    PROVE  /\ \A v : RowIsOfItsFlow(v) => RowIsOfItsFlow(v)'
           /\ \A c : CodeIsOfItsFlow(c) => CodeIsOfItsFlow(c)'
           /\ \A q : Backed(q) => Backed(q)'
  <1>1. \A f : Begun(f) => Begun(f)' /\ started'[f] = started[f]
    BY BegunStays
  <1>2. \A p, f : Begun(f) /\ Carries(p, f) => Carries(p, f)'
    BY <1>1 DEF Carries
  <1>3. \A v : RowIsOfItsFlow(v) => RowIsOfItsFlow(v)'
    BY <1>1, <1>2 DEF RowIsOfItsFlow
  <1>4. \A c : CodeIsOfItsFlow(c) => CodeIsOfItsFlow(c)'
    BY <1>1 DEF CodeIsOfItsFlow
  <1>5. \A q : Backed(q) => Backed(q)'
    BY <1>1, <1>2 DEF Backed
  <1> QED BY <1>3, <1>4, <1>5

\* The flow is new, so nothing else is of it.
LEMMA StartHeld ==
    ASSUME TypeOK, Held, NEW f \in Flow, NEW b \in Browser, NEW p \in Provider,
           NEW link \in Subject \cup {None}, Start(f, b, p, link)
    PROVE  Held'
  <1>1. PICK row : row = Row(StateOf(f), f,
                             [provider |-> p, verifier |-> f,
                              nonce |-> IF p \in Oidc THEN f ELSE None, link |-> link], now + Ttl)
    OBVIOUS
  <1>2. /\ states' = states \cup {row} /\ UNCHANGED <<issued, req, outcomes>>
        /\ jar' = [jar EXCEPT ![b] = f] /\ ~Begun(f)
    BY <1>1, NoneIsNone DEF Start, Issued, Begun
  <1>3. started'[f] = [browser |-> b, provider |-> p, link |-> link]
    BY DEF Start, TypeOK
  <1>4. row.secret = f /\ RowIsOfItsFlow(row)'
    <2>1. /\ row.secret = f /\ row.identifier = StateOf(f)
          /\ row.payload = [provider |-> p, verifier |-> f,
                            nonce |-> IF p \in Oidc THEN f ELSE None, link |-> link]
      BY <1>1 DEF Row
    <2>2. Begun(f)'
      BY <1>3 DEF Begun, Beginning
    <2>3. Carries(row.payload, f)'
      BY <1>3, <2>1 DEF Carries
    <2> QED BY <2>1, <2>2, <2>3 DEF RowIsOfItsFlow, StateOf
  <1>5. \A v : RowIsOfItsFlow(v) => RowIsOfItsFlow(v)'
    BY <1>2, SaidStays DEF Next
  <1>6. \A c : CodeIsOfItsFlow(c) => CodeIsOfItsFlow(c)'
    BY <1>2, SaidStays DEF Next
  <1>7. \A q : Backed(q) => Backed(q)'
    BY <1>2, SaidStays DEF Next
  <1>8. \A g : Begun(g) => Begun(g)' /\ started'[g] = started[g]
    BY BegunStays DEF Next
  <1>9. OfTheirFlows'
    <2>1. \A c \in Browser : Holds(c)'
      BY <1>2, <1>3, <1>8 DEF Held, OfTheirFlows, Holds, TypeOK, Begun, Beginning
    <2>2. \A s \in Request : Backed(req[s])'
      <3> SUFFICES ASSUME NEW s \in Request PROVE Backed(req[s])'
        OBVIOUS
      <3>1. PICK t : t = req[s]
        OBVIOUS
      <3>2. Backed(t)'
        BY <1>7, <3>1 DEF Held, OfTheirFlows
      <3> QED BY <1>2, <3>1, <3>2
    <2>3. \A v \in states' : RowIsOfItsFlow(v)'
      BY <1>2, <1>4, <1>5 DEF Held, OfTheirFlows
    <2> QED BY <1>2, <1>6, <1>8, <2>1, <2>2, <2>3 DEF Held, OfTheirFlows
  <1>10. InOnePlace'
    <2>1. \A v \in states : v.secret # f
      BY <1>2 DEF Held, OfTheirFlows, RowIsOfItsFlow
    <2>2. \A o \in outcomes : o.flow # f
      BY <1>2 DEF Held, OfTheirFlows
    <2>3. \A s \in Request : ~SpentBy(s, f)
      BY <1>2 DEF Held, OfTheirFlows, Backed, SpentBy
    <2>4. \A s, g : SpentBy(s, g)' <=> SpentBy(s, g)
      BY <1>2 DEF SpentBy
    <2> QED BY <1>2, <1>4, <2>1, <2>2, <2>3, <2>4 DEF Held, InOnePlace
  <1>11. OutcomeIsOfItsFlow' /\ OneOutcomePerFlow'
    BY <1>2, <1>8, OutcomesStay DEF Held
  <1> QED BY <1>9, <1>10, <1>11 DEF Held

LEMMA AuthorizeHeld ==
    ASSUME TypeOK, Held, NEW f \in Flow, NEW s \in Subject, Authorize(f, s)
    PROVE  Held'
  <1>1. PICK code : /\ code = [provider |-> started[f].provider, challenge |-> f,
                               nonce |-> IF started[f].provider \in Oidc THEN f ELSE None,
                               subject |-> s]
                    /\ issued' = issued \cup {code}
    BY DEF Authorize
  <1>2. UNCHANGED <<started, states, jar, req, outcomes>> /\ Begun(f)
    BY DEF Authorize, TypeOK, Begun
  <1>3. CodeIsOfItsFlow(code)
    BY <1>1, <1>2 DEF CodeIsOfItsFlow
  <1>4. \A g : Begun(g)' <=> Begun(g)
    BY <1>2 DEF Begun
  <1>5. \A p, g : Carries(p, g)' <=> Carries(p, g)
    BY <1>2 DEF Carries
  <1>6. \A q : Backed(q) => Backed(q)'
    BY <1>1, <1>2, <1>4, <1>5 DEF Backed
  <1>7. OfTheirFlows'
    <2>1. \A v \in states' : RowIsOfItsFlow(v)'
      BY <1>2, <1>4, <1>5 DEF Held, OfTheirFlows, RowIsOfItsFlow
    <2>2. \A c \in issued' : CodeIsOfItsFlow(c)'
      BY <1>1, <1>2, <1>3, <1>4 DEF Held, OfTheirFlows, CodeIsOfItsFlow
    <2>3. \A b \in Browser : Holds(b)'
      BY <1>2, <1>4 DEF Held, OfTheirFlows, Holds
    <2>4. \A r \in Request : Backed(req[r])'
      <3> SUFFICES ASSUME NEW r \in Request PROVE Backed(req[r])'
        OBVIOUS
      <3>1. PICK t : t = req[r]
        OBVIOUS
      <3>2. Backed(t)'
        BY <1>6, <3>1 DEF Held, OfTheirFlows
      <3> QED BY <1>2, <3>1, <3>2
    <2>5. \A o \in outcomes' : Begun(o.flow)'
      BY <1>2, <1>4 DEF Held, OfTheirFlows
    <2> QED BY <2>1, <2>2, <2>3, <2>4, <2>5 DEF OfTheirFlows
  <1>8. InOnePlace'
    <2>1. \A r, g : SpentBy(r, g)' <=> SpentBy(r, g)
      BY <1>2 DEF SpentBy
    <2> QED BY <1>2, <2>1 DEF Held, InOnePlace
  <1>9. OutcomeIsOfItsFlow' /\ OneOutcomePerFlow'
    BY <1>2, OutcomesStay DEF Held
  <1> QED BY <1>7, <1>8, <1>9 DEF Held

\* The clock, the sweep, and a step of nobody.
LEMMA SweepHeld ==
    ASSUME TypeOK, Held, states' \subseteq states, UNCHANGED <<started, jar, issued, req, outcomes>>
    PROVE  Held'
  <1>1. \A f : Begun(f)' <=> Begun(f)
    BY DEF Begun
  <1>2. \A p, f : Carries(p, f)' <=> Carries(p, f)
    BY DEF Carries
  <1>3. OfTheirFlows'
    BY <1>1, <1>2 DEF Held, OfTheirFlows, RowIsOfItsFlow, CodeIsOfItsFlow, Holds, Backed
  <1>4. \A r, g : SpentBy(r, g)' <=> SpentBy(r, g)
    BY DEF SpentBy
  <1>5. InOnePlace'
    BY <1>4 DEF Held, InOnePlace
  <1>6. OutcomeIsOfItsFlow' /\ OneOutcomePerFlow'
    BY OutcomesStay DEF Held
  <1> QED BY <1>3, <1>5, <1>6 DEF Held

-----------------------------------------------------------------------------
(* The invariant *)

LEMMA InvInit == Init => IInv
  <1> SUFFICES ASSUME Init PROVE IInv
    OBVIOUS
  <1>1. TypeOK
    BY Idle, LifetimesAreNumbers DEF Init, TypeOK
  <1>2. \A r \in Request : req[r] = NoRequest
    BY DEF Init
  <1>3. \A r \in Request : Backed(req[r]) /\ ~Spending(req[r])
    BY <1>2, Idle DEF Backed, Spending
  <1>4. OfTheirFlows
    BY <1>3 DEF Init, OfTheirFlows, Holds
  <1>5. InOnePlace
    BY <1>3 DEF Init, InOnePlace, SpentBy
  <1> QED BY <1>1, <1>4, <1>5 DEF Init, IInv, OutcomeIsOfItsFlow, OneOutcomePerFlow

LEMMA InvNext == IInv /\ [Next]_vars => IInv'
  <1> SUFFICES ASSUME IInv, [Next]_vars PROVE TypeOK' /\ Held'
    BY DEF IInv, Held
  <1>1. TypeOK /\ Held
    BY DEF IInv, Held
  <1>2. CASE Tick \/ DeleteExpired \/ UNCHANGED vars
    <2>1. states' \subseteq states /\ UNCHANGED <<started, jar, codes, issued, owner, req, outcomes>>
      BY <1>2 DEF Tick, DeleteExpired, Swept, vars
    <2>2. now' \in 0..MaxTime
      BY <1>1, <1>2, LifetimesAreNumbers DEF Tick, DeleteExpired, vars, TypeOK
    <2>3. TypeOK'
      BY <1>1, <2>1, <2>2 DEF TypeOK
    <2> QED BY <1>1, <2>1, <2>3, SweepHeld
  <1>3. ASSUME NEW f \in Flow, NEW b \in Browser, NEW p \in Provider,
               NEW link \in Subject \cup {None}, Start(f, b, p, link)
        PROVE  TypeOK' /\ Held'
    BY <1>1, <1>3, StartTyped, StartHeld
  <1>4. ASSUME NEW f \in Flow, NEW s \in Subject, Authorize(f, s)
        PROVE  TypeOK' /\ Held'
    BY <1>1, <1>4, AuthorizeTyped, AuthorizeHeld
  <1>5. ASSUME NEW r \in Request, Serve(r)
        PROVE  TypeOK' /\ Held'
    <2>1. Backed(req[r])
      BY <1>1 DEF Held, OfTheirFlows
    <2> QED BY <1>1, <1>5, <2>1, ServeTyped, ServeHeld
  <1> QED BY <1>2, <1>3, <1>4, <1>5 DEF Next

LEMMA InvHolds == Spec => []IInv
  BY InvInit, InvNext, PTL DEF Spec

\* Every variable keeps its type.
THEOREM TypeCorrect == Spec => []TypeOK
  <1>1. IInv => TypeOK
    BY DEF IInv
  <1> QED BY <1>1, InvHolds, PTL

\* A flow comes to nothing but what it was started for, in the browser that started
\* it, with a code that was given for it.
THEOREM OutcomesOfTheirFlows == Spec => []OutcomeIsOfItsFlow
  <1>1. IInv => OutcomeIsOfItsFlow
    BY DEF IInv
  <1> QED BY <1>1, InvHolds, PTL

\* A flow comes to one outcome at most, however often its callback arrives.
THEOREM FlowsEndOnce == Spec => []OneOutcomePerFlow
  <1>1. IInv => OneOutcomePerFlow
    BY DEF IInv
  <1> QED BY <1>1, InvHolds, PTL

-----------------------------------------------------------------------------
(* The tokens of providers *)

HasRead(q) == q.at \in {"update", "post", "save"}

Known == rows \cup {call[r].account : r \in {r \in Caller : HasRead(call[r])}}

\* A request that has a token to write, and whose the token is.
Gains(q) == q.at \in {"link", "update", "save"} /\ q.gained # Nothing
GainedFor(q) == IF q.at = "save" THEN q.account.is ELSE q.is

Fits(q) ==
    /\ q.at = "link" => q.is \in ProviderIdentity /\ q.user \in User
    /\ HasRead(q) => q.account \in Account
    /\ q.at = "update" => q.account.is = q.is
    /\ q.at \in {"link", "update", "save"} => q.gained \in Token \cup {Nothing}

IdsAgree ==
    /\ \A x, y \in Known : x.id = y.id => x.is = y.is
    /\ \A x \in Known : x.id \in Caller => call[x.id].at = "done"

TokensAgree ==
    /\ \A x \in Known : x.refresh # Nothing => ofWhom[x.refresh] = x.is
    /\ \A x, y \in Known : x.refresh # Nothing /\ x.refresh = y.refresh => x.id = y.id

InHand ==
    /\ \A r \in Caller : Gains(call[r]) =>
          /\ call[r].gained \in live
          /\ ofWhom[call[r].gained] = GainedFor(call[r])
          /\ \A x \in Known : x.refresh # call[r].gained
    /\ \A r, s \in Caller :
          Gains(call[r]) /\ Gains(call[s]) /\ call[r].gained = call[s].gained => r = s

\* A spent token stays only while the new one is about to be written over it.
Replacing(r, a) ==
    /\ CallAt(r, "save") /\ call[r].gained # Nothing
    /\ call[r].account.id = a.id /\ call[r].account.refresh = a.refresh

Settled ==
    \A a \in rows :
        \/ a.refresh \in live \cup {Nothing}
        \/ a.id \in lost
        \/ \E r \in Caller : Replacing(r, a)

TokensInv ==
    /\ TokensTypeOK
    /\ \A r \in Caller : Fits(call[r])
    /\ IdsAgree
    /\ TokensAgree
    /\ InHand
    /\ Settled

-----------------------------------------------------------------------------
(* Records *)

LEMMA CallIdle ==
    NoCall \in CallState /\ NoCall.at = "idle" /\ NoCall.gained = Nothing
  BY DEF NoCall, CallState

LEMMA KnownAreAccounts ==
    ASSUME TokensTypeOK, \A r \in Caller : Fits(call[r])
    PROVE  Known \subseteq Account
  BY DEF TokensTypeOK, Fits, Known

LEMMA EndsIn ==
    ASSUME TokensTypeOK, NEW r \in Caller, Ends(r)
    PROVE  \E q \in CallState : q.at = "done" /\ call' = [call EXCEPT ![r] = q]
  <1>1. PICK q : q = [NoCall EXCEPT !.kind = call[r].kind, !.at = "done"]
    OBVIOUS
  <1>2. call[r] \in CallState
    BY DEF TokensTypeOK
  <1>3. q \in CallState /\ q.at = "done"
    BY <1>1, <1>2, CallIdle DEF CallState
  <1> QED BY <1>1, <1>3 DEF Ends, CallBecomes

\* Only the request that moves changes what is known.
LEMMA KnownMoves ==
    ASSUME TokensTypeOK, NEW r \in Caller, NEW q, call' = [call EXCEPT ![r] = q],
           rows' = rows, HasRead(q) => q.account \in Known
    PROVE  Known' \subseteq Known
  <1>1. \A s \in Caller : call'[s] = (IF s = r THEN q ELSE call[s])
    BY DEF TokensTypeOK
  <1> QED BY <1>1 DEF Known

-----------------------------------------------------------------------------
(* Steps that bring nothing new *)

\* Nothing is read that was not known, and nothing gained that was not in hand.
LEMMA QuietKeeps ==
    ASSUME TokensInv, NEW r \in Caller, NEW q, q \in CallState, call' = [call EXCEPT ![r] = q],
           Fits(q), Known' \subseteq Known, ofWhom' = ofWhom,
           call[r].at # "done",
           Gains(q) => Gains(call[r]) /\ q.gained = call[r].gained
                       /\ GainedFor(q) = GainedFor(call[r]),
           \A s \in Caller \ {r} : Gains(call[s]) => call[s].gained \in live',
           Gains(q) => q.gained \in live'
    PROVE  /\ call' \in [Caller -> CallState]
           /\ \A s \in Caller : Fits(call[s])'
           /\ IdsAgree' /\ TokensAgree' /\ InHand'
  <1>1. \A s \in Caller : call'[s] = (IF s = r THEN q ELSE call[s])
    BY DEF TokensInv, TokensTypeOK
  <1>2. call' \in [Caller -> CallState]
    BY DEF TokensInv, TokensTypeOK
  <1>3. \A s \in Caller : Fits(call[s])'
    <2> SUFFICES ASSUME NEW s \in Caller PROVE Fits(call[s])'
      OBVIOUS
    <2>1. PICK t : t = call'[s]
      OBVIOUS
    <2>2. Fits(t)
      BY <1>1, <2>1 DEF TokensInv
    <2>3. Fits(t)'
      BY <2>2 DEF Fits
    <2> QED BY <2>1, <2>3
  <1>4. IdsAgree'
    BY <1>1 DEF TokensInv, IdsAgree
  <1>5. TokensAgree'
    BY DEF TokensInv, TokensAgree
  <1>6. \A s \in Caller : Gains(call'[s]) =>
            /\ Gains(call[s]) /\ call'[s].gained = call[s].gained
            /\ GainedFor(call'[s]) = GainedFor(call[s])
            /\ call'[s].gained \in live'
    BY <1>1
  <1>7. InHand'
    BY <1>6 DEF TokensInv, InHand, Gains, GainedFor
  <1> QED BY <1>2, <1>3, <1>4, <1>5, <1>7

\* Rows that are left, tokens that stay live, and witnesses that stay.
LEMMA QuietSettles ==
    ASSUME TokensInv, rows' \subseteq rows, live \subseteq live', lost \subseteq lost',
           \A a \in rows, r \in Caller : Replacing(r, a) => Replacing(r, a)' \/ a.id \in lost'
    PROVE  Settled'
  BY DEF TokensInv, Settled

-----------------------------------------------------------------------------
(* Steps that write what a request has in hand *)

\* The rows written have one id and one token, that of the request, and are
\* of the identity that both are of.
Writes(r, q, id, is, t, written) ==
    /\ q.at = "done" /\ call[r].at # "done"
    /\ call' = [call EXCEPT ![r] = q] /\ UNCHANGED <<live, ofWhom, lost>>
    /\ written \subseteq Account /\ rows' \subseteq rows \cup written
    /\ \A w \in written : w.id = id /\ w.is = is /\ w.refresh = t
    /\ \A x \in Known : x.id = id => x.is = is
    /\ id \in Caller => call'[id].at = "done"
    /\ t # Nothing => Gains(call[r]) /\ t = call[r].gained /\ GainedFor(call[r]) = is
    /\ \A a \in rows' : a \in written \/ (a \in rows /\ ~Replacing(r, a))

LEMMA WriteKeeps ==
    ASSUME TokensInv, NEW r \in Caller, NEW q \in CallState, NEW id, NEW is, NEW t, NEW W,
           Writes(r, q, id, is, t, W)
    PROVE  TokensInv'
  <1> USE DEF Writes
  <1>1. \A s \in Caller : call'[s] = (IF s = r THEN q ELSE call[s])
    BY DEF TokensInv, TokensTypeOK
  <1>2. Known' \subseteq Known \cup W
    BY <1>1 DEF Known, HasRead
  <1>3. TokensTypeOK'
    BY DEF TokensInv, TokensTypeOK
  <1>4. \A s \in Caller : Fits(call[s])'
    <2> SUFFICES ASSUME NEW s \in Caller PROVE Fits(call[s])'
      OBVIOUS
    <2>1. PICK u : u = call'[s]
      OBVIOUS
    <2>2. Fits(u)
      BY <1>1, <2>1 DEF TokensInv, Fits, HasRead
    <2>3. Fits(u)'
      BY <2>2 DEF Fits
    <2> QED BY <2>1, <2>3
  <1>5. IdsAgree'
    BY <1>1, <1>2 DEF TokensInv, IdsAgree
  <1>6. t # Nothing => /\ t \in live /\ ofWhom[t] = is
                    /\ \A x \in Known : x.refresh # t
                    /\ \A s \in Caller : Gains(call[s]) /\ call[s].gained = t => s = r
    BY DEF TokensInv, InHand
  <1>7. TokensAgree'
    BY <1>2, <1>6 DEF TokensInv, TokensAgree
  <1>8. \A s \in Caller : Gains(call'[s]) => s # r /\ call'[s] = call[s]
    BY <1>1 DEF Gains
  <1>9. InHand'
    BY <1>2, <1>6, <1>8 DEF TokensInv, InHand, Gains, GainedFor
  <1>10. Settled'
    <2> SUFFICES ASSUME NEW a \in rows' PROVE \/ a.refresh \in live \cup {Nothing}
                                              \/ a.id \in lost
                                              \/ \E s \in Caller : Replacing(s, a)'
      BY DEF Settled
    <2>1. CASE a \in W
      BY <1>6, <2>1
    <2>2. CASE a \in rows /\ ~Replacing(r, a)
      <3>1. ASSUME NEW s \in Caller, Replacing(s, a) PROVE Replacing(s, a)'
        BY <1>1, <2>2, <3>1 DEF Replacing, CallAt
      <3> QED BY <2>2, <3>1 DEF TokensInv, Settled
    <2> QED BY <2>1, <2>2
  <1> QED BY <1>3, <1>4, <1>5, <1>7, <1>9, <1>10 DEF TokensInv

LEMMA LinkKeeps ==
    ASSUME TokensInv, NEW r \in Caller, LinkIdentity(r)
    PROVE  TokensInv'
  <1> DEFINE known == {a \in rows : a.is = call[r].is}
  <1>1. Fits(call[r]) /\ call[r].at = "link" /\ UNCHANGED <<live, ofWhom, lost>>
    BY DEF TokensInv, LinkIdentity, CallAt
  <1>2. ASSUME rows' = rows \cup {[id |-> r, is |-> call[r].is, owner |-> call[r].user,
                                   refresh |-> call[r].gained]}, Ends(r)
        PROVE  TokensInv'
    <2>1. PICK q \in CallState : q.at = "done" /\ call' = [call EXCEPT ![r] = q]
      BY <1>2, EndsIn DEF TokensInv
    <2>2. PICK w : w = [id |-> r, is |-> call[r].is, owner |-> call[r].user, refresh |-> call[r].gained]
      OBVIOUS
    <2>3. /\ w \in Account /\ w.id = r /\ w.is = call[r].is /\ w.refresh = call[r].gained
          /\ rows' = rows \cup {w}
      BY <1>1, <1>2, <2>2 DEF Fits, Account, Id
    <2>4. \A x \in Known : x.id # r
      BY <1>1 DEF TokensInv, IdsAgree
    <2>5. call'[r].at = "done" /\ \A a : ~Replacing(r, a)
      BY <1>1, <2>1 DEF TokensInv, TokensTypeOK, Replacing, CallAt
    <2>6. call[r].gained # Nothing => Gains(call[r]) /\ GainedFor(call[r]) = call[r].is
      BY <1>1 DEF Gains, GainedFor
    <2>7. PICK W : W = {w}
      OBVIOUS
    <2>8. \A a \in rows' : a \in W \/ (a \in rows /\ ~Replacing(r, a))
      BY <2>3, <2>5, <2>7
    <2>9. /\ W \subseteq Account /\ rows' \subseteq rows \cup W
          /\ \A v \in W : v.id = r /\ v.is = call[r].is /\ v.refresh = call[r].gained
      BY <2>3, <2>7
    <2>10. Writes(r, q, r, call[r].is, call[r].gained, W)
      BY <1>1, <2>1, <2>4, <2>5, <2>6, <2>8, <2>9 DEF Writes
    <2> QED BY <2>10, WriteKeeps
  <1>3. ASSUME rows' = rows, NEW a \in known, CallBecomes(r, [call[r] EXCEPT !.account = a, !.at = "update"])
        PROVE  TokensInv'
    <2>1. PICK q : q = [call[r] EXCEPT !.account = a, !.at = "update"]
      OBVIOUS
    <2>2. call[r] \in CallState /\ a \in Account /\ a.is = call[r].is /\ a \in rows
      BY DEF TokensInv, TokensTypeOK
    <2>3. /\ q \in CallState /\ q.at = "update" /\ q.account = a
          /\ q.gained = call[r].gained /\ q.is = call[r].is
      BY <2>1, <2>2 DEF CallState
    <2>4. call' = [call EXCEPT ![r] = q]
      BY <1>3, <2>1 DEF CallBecomes
    <2>5. Fits(q)
      BY <1>1, <2>2, <2>3 DEF Fits, HasRead
    <2>6. Known' \subseteq Known
      BY <1>3, <2>2, <2>3, <2>4, KnownMoves DEF TokensInv, Known
    <2>7. Gains(q) => Gains(call[r]) /\ q.gained = call[r].gained /\ GainedFor(q) = GainedFor(call[r])
      BY <1>1, <2>3 DEF Gains, GainedFor
    <2>8. \A s \in Caller : Gains(call[s]) => call[s].gained \in live'
      BY <1>1 DEF TokensInv, InHand
    <2>9. /\ call' \in [Caller -> CallState]
          /\ \A s \in Caller : Fits(call[s])'
          /\ IdsAgree' /\ TokensAgree' /\ InHand'
      BY <1>1, <2>3, <2>4, <2>5, <2>6, <2>7, <2>8, QuietKeeps
    <2>10. \A b \in rows, s \in Caller : Replacing(s, b) => Replacing(s, b)'
      BY <1>1, <2>4 DEF Replacing, CallAt, TokensInv, TokensTypeOK
    <2>11. Settled'
      BY <1>1, <1>3, <2>10, QuietSettles
    <2>12. TokensTypeOK'
      BY <1>1, <1>3, <2>9 DEF TokensInv, TokensTypeOK
    <2> QED BY <2>9, <2>11, <2>12 DEF TokensInv
  <1> QED BY <1>2, <1>3 DEF LinkIdentity

LEMMA ReplaceTokensKeeps ==
    ASSUME TokensInv, NEW r \in Caller, ReplaceTokens(r)
    PROVE  TokensInv'
  <1>1. /\ call[r].at = "update" /\ UNCHANGED <<live, ofWhom, lost>>
        /\ call[r].account \in Known /\ call[r].account.is = call[r].is
        /\ call[r].account \in Account
    BY DEF TokensInv, ReplaceTokens, CallAt, Known, HasRead, Fits
  <1>2. PICK q \in CallState : q.at = "done" /\ call' = [call EXCEPT ![r] = q]
    BY EndsIn DEF TokensInv, ReplaceTokens
  <1>3. PICK b, g : b = call[r].account /\ g = call[r].gained
    OBVIOUS
  <1>4. PICK W : W = {[a EXCEPT !.refresh = g] : a \in {a \in rows : a.id = b.id}}
    OBVIOUS
  <1>5. rows' \subseteq rows \cup W
    BY <1>3, <1>4 DEF ReplaceTokens, Updates
  <1>6. \A x \in Known : x.id = b.id => x.is = b.is
    BY <1>1, <1>3 DEF TokensInv, IdsAgree
  <1>7. g \in Token \cup {Nothing}
    BY <1>1, <1>3 DEF TokensInv, Fits
  <1>8. W \subseteq Account /\ \A w \in W : w.id = b.id /\ w.is = b.is /\ w.refresh = g
    <2> SUFFICES ASSUME NEW w \in W
                 PROVE  w \in Account /\ w.id = b.id /\ w.is = b.is /\ w.refresh = g
      OBVIOUS
    <2>1. PICK a \in rows : a.id = b.id /\ w = [a EXCEPT !.refresh = g]
      BY <1>4
    <2>2. a \in Account /\ a.is = b.is
      BY <1>6, <2>1 DEF TokensInv, TokensTypeOK, Known
    <2> QED BY <1>7, <2>1, <2>2 DEF Account
  <1>9. b.id \in Caller => call'[b.id].at = "done"
    BY <1>1, <1>2, <1>3 DEF TokensInv, IdsAgree, TokensTypeOK
  <1>10. g # Nothing => Gains(call[r]) /\ GainedFor(call[r]) = b.is
    BY <1>1, <1>3 DEF Gains, GainedFor
  <1>11. \A a \in rows' : a \in W \/ (a \in rows /\ ~Replacing(r, a))
    BY <1>1, <1>5 DEF Replacing, CallAt
  <1>12. Writes(r, q, b.id, b.is, g, W)
    BY <1>1, <1>2, <1>3, <1>5, <1>6, <1>8, <1>9, <1>10, <1>11 DEF Writes
  <1> QED BY <1>12, WriteKeeps

\* A token that was not rotated is not written: then the step writes nothing.
LEMMA SaveTokensKeeps ==
    ASSUME TokensInv, NEW r \in Caller, SaveTokens(r)
    PROVE  TokensInv'
  <1>1. /\ call[r].at = "save" /\ UNCHANGED <<live, ofWhom, lost>>
        /\ call[r].account \in Known /\ call[r].account \in Account
    BY DEF TokensInv, SaveTokens, CallAt, Known, HasRead, Fits
  <1>2. PICK q \in CallState : q.at = "done" /\ call' = [call EXCEPT ![r] = q]
    BY EndsIn DEF TokensInv, SaveTokens
  <1>3. PICK b, g : b = call[r].account /\ g = call[r].gained
    OBVIOUS
  <1>4. \A x \in Known : x.id = b.id => x.is = b.is
    BY <1>1, <1>3 DEF TokensInv, IdsAgree
  <1>5. g \in Token \cup {Nothing}
    BY <1>1, <1>3 DEF TokensInv, Fits
  <1>6. b.id \in Caller => call'[b.id].at = "done"
    BY <1>1, <1>2, <1>3 DEF TokensInv, IdsAgree, TokensTypeOK
  <1>7. CASE g = Nothing
    <2>1. rows' \subseteq rows
      <3> SUFFICES ASSUME NEW a \in rows PROVE Patched(call[r].account, call[r].gained, a) = a
        BY DEF SaveTokens
      <3>1. a \in Account
        BY DEF TokensInv, TokensTypeOK
      <3>2. Patched(call[r].account, call[r].gained, a) = [a EXCEPT !.refresh = a.refresh]
        BY <1>3, <1>7 DEF Patched
      <3> QED BY <3>1, <3>2 DEF Account
    <2>2. PICK W : W = {}
      OBVIOUS
    <2>3. W \subseteq Account /\ \A w \in W : w.id = b.id /\ w.is = b.is /\ w.refresh = Nothing
      BY <2>2
    <2>4. \A a \in rows' : a \in W \/ (a \in rows /\ ~Replacing(r, a))
      BY <1>3, <1>7, <2>1 DEF Replacing
    <2>5. Writes(r, q, b.id, b.is, Nothing, W)
      BY <1>1, <1>2, <1>4, <1>6, <2>1, <2>3, <2>4 DEF Writes
    <2> QED BY <2>5, WriteKeeps
  <1>8. CASE g # Nothing
    <2>1. PICK W : W = {[a EXCEPT !.refresh = g] : a \in {a \in rows : a.id = b.id}}
      OBVIOUS
    <2>2. \A a \in rows : Patched(call[r].account, call[r].gained, a) = [a EXCEPT !.refresh = g]
      BY <1>3, <1>8 DEF Patched
    <2>3. \A a \in rows' : a \in W \/ (a \in rows /\ a.id # b.id)
      <3> SUFFICES ASSUME NEW a \in rows' PROVE a \in W \/ (a \in rows /\ a.id # b.id)
        OBVIOUS
      <3>1. PICK c \in rows : a = IF c.id = b.id
                                  THEN Patched(call[r].account, call[r].gained, c) ELSE c
        BY <1>3 DEF SaveTokens, Updates
      <3>2. CASE c.id = b.id
        BY <2>1, <2>2, <3>1, <3>2
      <3> QED BY <3>1, <3>2
    <2>4. W \subseteq Account /\ \A w \in W : w.id = b.id /\ w.is = b.is /\ w.refresh = g
      <3> SUFFICES ASSUME NEW w \in W
                   PROVE  w \in Account /\ w.id = b.id /\ w.is = b.is /\ w.refresh = g
        OBVIOUS
      <3>1. PICK a \in rows : a.id = b.id /\ w = [a EXCEPT !.refresh = g]
        BY <2>1
      <3>2. a \in Account /\ a.is = b.is
        BY <1>4, <3>1 DEF TokensInv, TokensTypeOK, Known
      <3> QED BY <1>5, <3>1, <3>2 DEF Account
    <2>5. Gains(call[r]) /\ GainedFor(call[r]) = b.is
      BY <1>1, <1>3, <1>8 DEF Gains, GainedFor
    <2>6. \A a \in rows' : a \in W \/ (a \in rows /\ ~Replacing(r, a))
      BY <1>3, <2>3 DEF Replacing
    <2>7. Writes(r, q, b.id, b.is, g, W)
      BY <1>1, <1>2, <1>3, <1>4, <1>6, <2>3, <2>4, <2>5, <2>6 DEF Writes
    <2> QED BY <2>7, WriteKeeps
  <1> QED BY <1>7, <1>8

-----------------------------------------------------------------------------
(* Steps in which the provider gives a token, or takes one *)

\* A token that nobody had: whoever gets it has it alone.
Fresh(t) == t # Nothing => t \in Token /\ ofWhom[t] = Nothing

\* The request comes to hold t for an identity; old is spent where t replaces it.
Receives(r, q, t, is) ==
    /\ q.at \in {"link", "save"} /\ q.gained = t /\ GainedFor(q) = is /\ is \in ProviderIdentity
    /\ call' = [call EXCEPT ![r] = q] /\ ~Gains(call[r]) /\ call[r].at # "done"
    /\ rows' = rows /\ Fresh(t) /\ Given(t, is)
    /\ Fits(q) /\ Known' \subseteq Known
    /\ \A s \in Caller \ {r} : Gains(call[s]) => call[s].gained \in live'
    /\ t # Nothing => t \in live'

LEMMA ReceivesKeeps ==
    ASSUME TokensInv, NEW r \in Caller, NEW q \in CallState, NEW t, NEW is,
           Receives(r, q, t, is)
    PROVE  /\ call' \in [Caller -> CallState]
           /\ ofWhom' \in [Token -> ProviderIdentity \cup {Nothing}]
           /\ \A s \in Caller : Fits(call[s])'
           /\ IdsAgree' /\ TokensAgree' /\ InHand'
  <1> USE DEF Receives
  <1>1. \A s \in Caller : call'[s] = (IF s = r THEN q ELSE call[s])
    BY DEF TokensInv, TokensTypeOK
  <1>2. call' \in [Caller -> CallState]
    BY DEF TokensInv, TokensTypeOK
  <1>3. ofWhom' \in [Token -> ProviderIdentity \cup {Nothing}]
    BY DEF Given, TokensInv, TokensTypeOK
  <1>4. \A s \in Caller : Fits(call[s])'
    <2> SUFFICES ASSUME NEW s \in Caller PROVE Fits(call[s])'
      OBVIOUS
    <2>1. PICK u : u = call'[s]
      OBVIOUS
    <2>2. Fits(u)
      BY <1>1, <2>1 DEF TokensInv
    <2>3. Fits(u)'
      BY <2>2 DEF Fits
    <2> QED BY <2>1, <2>3
  <1>5. IdsAgree'
    BY <1>1 DEF TokensInv, IdsAgree
  <1>6. Known \subseteq Account
    BY KnownAreAccounts DEF TokensInv
  <1>7. \A x \in Known : x.is # Nothing
    BY <1>6, NamesAreDistinct DEF Account
  <1>8. \A u \in Token : u # t => ofWhom'[u] = ofWhom[u]
    BY DEF Given, TokensInv, TokensTypeOK
  <1>9. \A x \in Known : x.refresh # Nothing => x.refresh # t /\ x.refresh \in Token
    BY <1>6, <1>7 DEF Fresh, TokensInv, TokensAgree, Account
  <1>10. TokensAgree'
    BY <1>8, <1>9 DEF TokensInv, TokensAgree
  <1>11. t # Nothing => ofWhom'[t] = is /\ \A x \in Known : x.refresh # t
    BY <1>9 DEF Given, Fresh, TokensInv, TokensTypeOK
  <1>12. \A s \in Caller \ {r} : Gains(call[s]) => call[s].gained \in Token /\ call[s].gained # t
    <2> SUFFICES ASSUME NEW s \in Caller \ {r}, Gains(call[s])
                 PROVE  call[s].gained \in Token /\ call[s].gained # t
      OBVIOUS
    <2>1. call[s].gained \in Token
      BY DEF TokensInv, Fits, Gains
    <2>2. ofWhom[call[s].gained] = GainedFor(call[s])
      BY DEF TokensInv, InHand
    <2>3. GainedFor(call[s]) \in ProviderIdentity
      <3>1. Fits(call[s])
        BY DEF TokensInv
      <3>2. CASE call[s].at \in {"update", "save"}
        BY <3>1, <3>2 DEF Fits, HasRead, GainedFor, Account
      <3>3. CASE call[s].at = "link"
        BY <3>1, <3>3 DEF Fits, GainedFor
      <3> QED BY <3>2, <3>3 DEF Gains
    <2> QED BY <2>1, <2>2, <2>3, NamesAreDistinct DEF Fresh, Gains
  <1>13. \A s \in Caller : Gains(call'[s]) =>
            \/ s = r /\ call'[s].gained = t /\ t # Nothing /\ GainedFor(call'[s]) = is
            \/ s # r /\ call'[s] = call[s] /\ Gains(call[s])
    BY <1>1 DEF Gains
  <1>14. InHand'
    <2>1. \A s \in Caller : Gains(call'[s]) =>
            /\ call'[s].gained \in live'
            /\ ofWhom'[call'[s].gained] = GainedFor(call'[s])
            /\ \A x \in Known' : x.refresh # call'[s].gained
      BY <1>8, <1>11, <1>12, <1>13 DEF TokensInv, InHand
    <2>2. \A s, u \in Caller :
            Gains(call'[s]) /\ Gains(call'[u]) /\ call'[s].gained = call'[u].gained => s = u
      BY <1>12, <1>13 DEF TokensInv, InHand
    <2> QED BY <2>1, <2>2 DEF InHand, Gains, GainedFor
  <1> QED BY <1>2, <1>3, <1>4, <1>5, <1>10, <1>14

LEMMA ExchangeCodeKeeps ==
    ASSUME TokensInv, NEW r \in Caller, NEW i \in ProviderIdentity, NEW u \in User, NEW t \in Token \cup {Nothing},
           ExchangeCode(r, i, u, t)
    PROVE  TokensInv'
  <1>1. PICK q : q = [NoCall EXCEPT !.kind = "signIn", !.is = i, !.user = u, !.gained = t,
                                       !.at = "link"]
    OBVIOUS
  <1>2. /\ q \in CallState /\ q.at = "link" /\ q.is = i /\ q.user = u /\ q.gained = t
    BY <1>1, CallIdle DEF CallState
  <1>3. /\ call' = [call EXCEPT ![r] = q] /\ rows' = rows /\ lost' = lost /\ call[r].at = "idle"
        /\ live' = live \cup ({t} \ {Nothing}) /\ Given(t, i)
    BY <1>1 DEF ExchangeCode, CallBecomes, CallAt
  <1>4. Fresh(t)
    BY <1>3 DEF Given, Fresh
  <1>5. Fits(q)
    BY <1>2 DEF Fits, HasRead
  <1>6. Known' \subseteq Known
    BY <1>2, <1>3, KnownMoves DEF TokensInv, HasRead
  <1>7. \A s \in Caller : Gains(call[s]) => call[s].gained \in live'
    BY <1>3 DEF TokensInv, InHand
  <1>8. Receives(r, q, t, i)
    BY <1>2, <1>3, <1>4, <1>5, <1>6, <1>7 DEF Receives, Gains, GainedFor
  <1>9. /\ call' \in [Caller -> CallState]
        /\ ofWhom' \in [Token -> ProviderIdentity \cup {Nothing}]
        /\ \A s \in Caller : Fits(call[s])'
        /\ IdsAgree' /\ TokensAgree' /\ InHand'
    BY <1>2, <1>8, ReceivesKeeps
  <1>10. Settled'
    <2>1. \A b \in rows, s \in Caller : Replacing(s, b) => Replacing(s, b)'
      BY <1>3 DEF Replacing, CallAt, TokensInv, TokensTypeOK
    <2> QED BY <1>3, <2>1, QuietSettles
  <1>11. TokensTypeOK'
    BY <1>3, <1>9 DEF TokensInv, TokensTypeOK
  <1> QED BY <1>9, <1>10, <1>11 DEF TokensInv

\* A spent token is of the one account that is about to be written.
LEMMA SpendSettles ==
    ASSUME TokensInv, NEW r \in Caller, call[r].at = "post", rows' = rows, lost \subseteq lost',
           \A s \in Caller \ {r} : call'[s] = call[s],
           live \ {call[r].account.refresh} \subseteq live',
           \/ call[r].account.id \in lost'
           \/ \A a : a.id = call[r].account.id /\ a.refresh = call[r].account.refresh
                       => Replacing(r, a)'
    PROVE  Settled'
  <1> SUFFICES ASSUME NEW a \in rows
               PROVE  \/ a.refresh \in live' \cup {Nothing} \/ a.id \in lost'
                      \/ \E s \in Caller : Replacing(s, a)'
    BY DEF Settled
  <1>1. call[r].account \in Known /\ a \in Known
    BY DEF Known, HasRead
  <1>2. CASE a.refresh # Nothing /\ a.refresh = call[r].account.refresh
    <2>1. a.id = call[r].account.id
      BY <1>1, <1>2 DEF TokensInv, TokensAgree
    <2> QED BY <1>2, <2>1
  <1>3. CASE a.refresh # call[r].account.refresh
    <2>1. ASSUME NEW s \in Caller, Replacing(s, a) PROVE Replacing(s, a)'
      BY <2>1 DEF Replacing, CallAt
    <2> QED BY <1>3, <2>1 DEF TokensInv, Settled
  <1> QED BY <1>2, <1>3

\* Whoever holds a token unwritten holds none that is in an account.
LEMMA SpendsNobodys ==
    ASSUME TokensInv, NEW r \in Caller, call[r].at = "post"
    PROVE  \A s \in Caller : Gains(call[s]) => call[s].gained # call[r].account.refresh
  <1>1. call[r].account \in Known
    BY DEF Known, HasRead
  <1> QED BY <1>1 DEF TokensInv, InHand

LEMMA RefreshKeeps ==
    ASSUME TokensInv, NEW r \in Caller, NEW t \in Token \cup {Nothing}, Refresh(r, t)
    PROVE  TokensInv'
  <1>1. PICK old, is : old = call[r].account.refresh /\ is = call[r].account.is
    OBVIOUS
  <1>2. PICK q : q = [call[r] EXCEPT !.gained = t, !.at = "save"]
    OBVIOUS
  <1>3. call[r] \in CallState
    BY DEF TokensInv, TokensTypeOK
  <1>4. /\ q \in CallState /\ q.at = "save" /\ q.gained = t /\ q.account = call[r].account
    BY <1>2, <1>3 DEF CallState
  <1>5. /\ call' = [call EXCEPT ![r] = q] /\ rows' = rows /\ lost' = lost /\ call[r].at = "post"
        /\ old \in live /\ live' = (IF t = Nothing THEN live ELSE (live \ {old}) \cup {t})
        /\ Given(t, ofWhom[old])
    BY <1>1, <1>2 DEF Refresh, CallBecomes, CallAt
  <1>6. call[r].account \in Known /\ call[r].account \in Account
    BY <1>5 DEF Known, HasRead, TokensInv, Fits
  <1>7. old # Nothing /\ ofWhom[old] = is /\ is \in ProviderIdentity
    BY <1>1, <1>5, <1>6, NamesAreDistinct DEF TokensInv, TokensTypeOK, TokensAgree, Account
  <1>8. Fresh(t)
    BY <1>5 DEF Given, Fresh
  <1>9. Fits(q)
    BY <1>4, <1>6 DEF Fits, HasRead
  <1>10. Known' \subseteq Known
    BY <1>4, <1>5, <1>6, KnownMoves DEF TokensInv
  <1>11. \A s \in Caller : Gains(call[s]) => call[s].gained \in live'
    BY <1>1, <1>5, SpendsNobodys DEF TokensInv, InHand
  <1>12. Receives(r, q, t, is)
    BY <1>1, <1>4, <1>5, <1>7, <1>8, <1>9, <1>10, <1>11 DEF Receives, Gains, GainedFor
  <1>13. /\ call' \in [Caller -> CallState]
         /\ ofWhom' \in [Token -> ProviderIdentity \cup {Nothing}]
         /\ \A s \in Caller : Fits(call[s])'
         /\ IdsAgree' /\ TokensAgree' /\ InHand'
    BY <1>4, <1>12, ReceivesKeeps
  <1>14. call'[r] = q /\ \A s \in Caller \ {r} : call'[s] = call[s]
    BY <1>5 DEF TokensInv, TokensTypeOK
  <1>15. Settled'
    <2>1. CASE t = Nothing
      <3>1. \A b \in rows, s \in Caller : Replacing(s, b) => Replacing(s, b)'
        BY <1>5, <1>14 DEF Replacing, CallAt
      <3> QED BY <1>5, <2>1, <3>1, QuietSettles
    <2>2. CASE t # Nothing
      <3>1. \A a : a.id = call[r].account.id /\ a.refresh = call[r].account.refresh
                   => Replacing(r, a)'
        BY <1>4, <1>14, <2>2 DEF Replacing, CallAt
      <3>2. live \ {call[r].account.refresh} \subseteq live'
        BY <1>1, <1>5, <2>2
      <3> QED BY <1>5, <1>14, <3>1, <3>2, SpendSettles
    <2> QED BY <2>1, <2>2
  <1>16. TokensTypeOK'
    <2>1. live' \subseteq Token
      BY <1>5 DEF TokensInv, TokensTypeOK
    <2> QED BY <1>5, <1>13, <2>1 DEF TokensInv, TokensTypeOK
  <1> QED BY <1>13, <1>15, <1>16 DEF TokensInv

-----------------------------------------------------------------------------
(* Steps that end a request, and an unlink *)

LEMMA EndsKeeps ==
    ASSUME TokensInv, NEW r \in Caller, call[r].at # "done", Ends(r), rows' = rows, ofWhom' = ofWhom,
           \A s \in Caller \ {r} : Gains(call[s]) => call[s].gained \in live'
    PROVE  /\ call' \in [Caller -> CallState]
           /\ \A s \in Caller : Fits(call[s])'
           /\ IdsAgree' /\ TokensAgree' /\ InHand'
           /\ \A s \in Caller \ {r} : call'[s] = call[s]
  <1>1. PICK q \in CallState : q.at = "done" /\ call' = [call EXCEPT ![r] = q]
    BY EndsIn DEF TokensInv
  <1>2. Fits(q) /\ ~Gains(q) /\ ~HasRead(q)
    BY <1>1 DEF Fits, Gains, HasRead
  <1>3. Known' \subseteq Known
    BY <1>1, <1>2, KnownMoves DEF TokensInv
  <1>4. \A s \in Caller \ {r} : call'[s] = call[s]
    BY <1>1 DEF TokensInv, TokensTypeOK
  <1> QED BY <1>1, <1>2, <1>3, <1>4, QuietKeeps

LEMMA RefreshFailsKeeps ==
    ASSUME TokensInv, NEW r \in Caller, RefreshFails(r)
    PROVE  TokensInv'
  <1>1. call[r].at = "post" /\ Ends(r) /\ UNCHANGED <<rows, live, ofWhom, lost>>
    BY DEF RefreshFails, CallAt
  <1>2. \A s \in Caller : Gains(call[s]) => call[s].gained \in live'
    BY <1>1 DEF TokensInv, InHand
  <1>3. /\ call' \in [Caller -> CallState]
        /\ \A s \in Caller : Fits(call[s])'
        /\ IdsAgree' /\ TokensAgree' /\ InHand'
        /\ \A s \in Caller \ {r} : call'[s] = call[s]
    BY <1>1, <1>2, EndsKeeps
  <1>4. \A b \in rows, s \in Caller : Replacing(s, b) => Replacing(s, b)'
    BY <1>1, <1>3 DEF Replacing, CallAt
  <1>5. Settled'
    BY <1>1, <1>4, QuietSettles
  <1>6. TokensTypeOK'
    BY <1>1, <1>3 DEF TokensInv, TokensTypeOK
  <1> QED BY <1>3, <1>5, <1>6 DEF TokensInv

LEMMA RefreshLostKeeps ==
    ASSUME TokensInv, NEW r \in Caller, RefreshLost(r)
    PROVE  TokensInv'
  <1>1. /\ call[r].at = "post" /\ Ends(r) /\ UNCHANGED <<rows, ofWhom>>
        /\ live' = live \ {call[r].account.refresh} /\ lost' = lost \cup {call[r].account.id}
    BY DEF RefreshLost, CallAt
  <1>2. \A s \in Caller : Gains(call[s]) => call[s].gained \in live'
    BY <1>1, SpendsNobodys DEF TokensInv, InHand
  <1>3. /\ call' \in [Caller -> CallState]
        /\ \A s \in Caller : Fits(call[s])'
        /\ IdsAgree' /\ TokensAgree' /\ InHand'
        /\ \A s \in Caller \ {r} : call'[s] = call[s]
    BY <1>1, <1>2, EndsKeeps
  <1>4. Settled'
    BY <1>1, <1>3, SpendSettles
  <1>5. call[r].account.id \in Id
    BY <1>1 DEF TokensInv, Fits, HasRead, Account
  <1>6. TokensTypeOK'
    BY <1>1, <1>3, <1>5 DEF TokensInv, TokensTypeOK
  <1> QED BY <1>3, <1>4, <1>6 DEF TokensInv

\* A request that ends before it has written the new token loses it.
LEMMA AbandonKeeps ==
    ASSUME TokensInv, NEW r \in Caller, AbandonCall(r)
    PROVE  TokensInv'
  <1>1. /\ call[r].at # "done" /\ Ends(r) /\ UNCHANGED <<rows, live, ofWhom>>
        /\ lost' = IF CallAt(r, "save") THEN lost \cup {call[r].account.id} ELSE lost
    BY DEF AbandonCall
  <1>2. \A s \in Caller : Gains(call[s]) => call[s].gained \in live'
    BY <1>1 DEF TokensInv, InHand
  <1>3. /\ call' \in [Caller -> CallState]
        /\ \A s \in Caller : Fits(call[s])'
        /\ IdsAgree' /\ TokensAgree' /\ InHand'
        /\ \A s \in Caller \ {r} : call'[s] = call[s]
    BY <1>1, <1>2, EndsKeeps
  <1>4. \A b \in rows, s \in Caller : Replacing(s, b) => Replacing(s, b)' \/ b.id \in lost'
    BY <1>1, <1>3 DEF Replacing, CallAt
  <1>5. Settled'
    BY <1>1, <1>4, QuietSettles
  <1>6. CallAt(r, "save") => call[r].account.id \in Id
    BY DEF TokensInv, Fits, HasRead, Account, CallAt
  <1>7. TokensTypeOK'
    BY <1>1, <1>3, <1>6 DEF TokensInv, TokensTypeOK
  <1> QED BY <1>3, <1>5, <1>7 DEF TokensInv

LEMMA FindAccountKeeps ==
    ASSUME TokensInv, NEW r \in Caller, NEW kind \in {"accessToken", "refreshTokens"}, NEW a \in rows,
           NEW expiring \in BOOLEAN, FindAccount(r, kind, a, expiring)
    PROVE  TokensInv'
  <1>1. PICK f, e : /\ f = [[NoCall EXCEPT !.kind = kind] EXCEPT !.account = a, !.at = "post"]
                    /\ e = [[NoCall EXCEPT !.kind = kind] EXCEPT !.at = "done"]
    OBVIOUS
  <1>2. a \in Account /\ a \in Known
    BY DEF TokensInv, TokensTypeOK, Known
  <1>3. f \in CallState /\ f.at = "post" /\ f.account = a /\ f.gained = Nothing
    BY <1>1, <1>2, CallIdle DEF CallState
  <1>4. e \in CallState /\ e.at = "done"
    BY <1>1, CallIdle DEF CallState
  <1>5. /\ call' = [call EXCEPT ![r] = f] \/ call' = [call EXCEPT ![r] = e]
        /\ call[r].at = "idle" /\ UNCHANGED <<rows, live, ofWhom, lost>>
    BY <1>1 DEF FindAccount, CallBecomes, CallAt
  <1>6. PICK q \in CallState :
            /\ call' = [call EXCEPT ![r] = q] /\ q.at \in {"post", "done"}
            /\ HasRead(q) => q.account = a
    BY <1>3, <1>4, <1>5 DEF HasRead
  <1>7. Fits(q) /\ ~Gains(q)
    BY <1>2, <1>6 DEF Fits, Gains, HasRead
  <1>8. Known' \subseteq Known
    BY <1>2, <1>5, <1>6, KnownMoves DEF TokensInv
  <1>9. \A s \in Caller : Gains(call[s]) => call[s].gained \in live'
    BY <1>5 DEF TokensInv, InHand
  <1>10. /\ call' \in [Caller -> CallState]
         /\ \A s \in Caller : Fits(call[s])'
         /\ IdsAgree' /\ TokensAgree' /\ InHand'
    BY <1>5, <1>6, <1>7, <1>8, <1>9, QuietKeeps
  <1>11. \A b \in rows, s \in Caller : Replacing(s, b) => Replacing(s, b)'
    BY <1>5, <1>6 DEF Replacing, CallAt, TokensInv, TokensTypeOK
  <1>12. Settled'
    BY <1>5, <1>11, QuietSettles
  <1>13. TokensTypeOK'
    BY <1>5, <1>10 DEF TokensInv, TokensTypeOK
  <1> QED BY <1>10, <1>12, <1>13 DEF TokensInv

\* Fewer rows, and otherwise nothing.
LEMMA FewerKeeps ==
    ASSUME TokensInv, rows' \subseteq rows, UNCHANGED <<live, ofWhom, call, lost>>
    PROVE  TokensInv'
  <1>1. Known' \subseteq Known
    BY DEF Known
  <1>2. TokensTypeOK' /\ \A r \in Caller : Fits(call[r])'
    BY DEF TokensInv, TokensTypeOK, Fits, HasRead
  <1>3. IdsAgree' /\ TokensAgree' /\ InHand'
    BY <1>1 DEF TokensInv, IdsAgree, TokensAgree, InHand, Gains, GainedFor
  <1>4. Settled'
    BY DEF TokensInv, Settled, Replacing, CallAt
  <1> QED BY <1>2, <1>3, <1>4 DEF TokensInv

-----------------------------------------------------------------------------
(* The invariant *)

LEMMA TokensInvInit == TokensInit => TokensInv
  <1> SUFFICES ASSUME TokensInit PROVE TokensInv
    OBVIOUS
  <1>1. \A r \in Caller : call[r] = NoCall
    BY DEF TokensInit
  <1>2. \A r \in Caller : call[r].at = "idle"
    BY <1>1, CallIdle
  <1>3. /\ rows \subseteq Account /\ live \subseteq Token
        /\ \A a \in rows : a.id = Initial /\ a.refresh \in live /\ ofWhom[a.refresh] = a.is
        /\ \A a, b \in rows : a = b
    <2>1. CASE rows = {}
      BY <2>1 DEF TokensInit
    <2>2. CASE rows # {}
      <3>1. PICK i \in ProviderIdentity, u \in User, t \in Token :
                rows = {[id |-> Initial, is |-> i, owner |-> u, refresh |-> t]}
        BY <2>2 DEF TokensInit
      <3>2. PICK b : b = [id |-> Initial, is |-> i, owner |-> u, refresh |-> t]
        OBVIOUS
      <3>3. b \in Account /\ b.id = Initial /\ b.refresh = t /\ rows = {b}
        BY <3>1, <3>2 DEF Account, Id
      <3> QED BY <3>3 DEF TokensInit
    <2> QED BY <2>1, <2>2
  <1>4. TokensTypeOK
    BY <1>3, CallIdle DEF TokensInit, TokensTypeOK
  <1>5. \A r \in Caller : Fits(call[r]) /\ ~Gains(call[r]) /\ ~HasRead(call[r])
    BY <1>2 DEF Fits, Gains, HasRead
  <1>6. Known = rows
    BY <1>5 DEF Known
  <1>7. IdsAgree /\ TokensAgree
    BY <1>3, <1>6, NamesAreDistinct DEF IdsAgree, TokensAgree
  <1>8. InHand /\ Settled
    BY <1>3, <1>5 DEF InHand, Settled
  <1> QED BY <1>4, <1>5, <1>7, <1>8 DEF TokensInv

LEMMA TokensInvNext == TokensInv /\ [TokensNext]_tokenVars => TokensInv'
  <1> SUFFICES ASSUME TokensInv, [TokensNext]_tokenVars PROVE TokensInv'
    OBVIOUS
  <1>1. CASE UNCHANGED tokenVars \/ \E a \in rows : Unlink(a)
    BY <1>1, FewerKeeps DEF tokenVars, Unlink
  <1>2. ASSUME NEW r \in Caller, NEW i \in ProviderIdentity, NEW u \in User, NEW t \in Token \cup {Nothing},
               ExchangeCode(r, i, u, t)
        PROVE  TokensInv'
    BY <1>2, ExchangeCodeKeeps
  <1>3. ASSUME NEW r \in Caller, NEW kind \in {"accessToken", "refreshTokens"}, NEW a \in rows,
               NEW expiring \in BOOLEAN, FindAccount(r, kind, a, expiring)
        PROVE  TokensInv'
    BY <1>3, FindAccountKeeps
  <1>4. ASSUME NEW r \in Caller, NEW t \in Token \cup {Nothing}, Refresh(r, t)
        PROVE  TokensInv'
    BY <1>4, RefreshKeeps
  <1>5. ASSUME NEW r \in Caller,
               \/ LinkIdentity(r) \/ ReplaceTokens(r) \/ RefreshFails(r) \/ RefreshLost(r)
               \/ SaveTokens(r) \/ AbandonCall(r)
        PROVE  TokensInv'
    BY <1>5, LinkKeeps, ReplaceTokensKeeps, RefreshFailsKeeps, RefreshLostKeeps,
       SaveTokensKeeps, AbandonKeeps
  <1> QED BY <1>1, <1>2, <1>3, <1>4, <1>5 DEF TokensNext

LEMMA TokensInvHolds == TokensSpec => []TokensInv
  BY TokensInvInit, TokensInvNext, PTL DEF TokensSpec

\* Every variable keeps its type.
THEOREM TokensTypeCorrect == TokensSpec => []TokensTypeOK
  <1>1. TokensInv => TokensTypeOK
    BY DEF TokensInv
  <1> QED BY <1>1, TokensInvHolds, PTL

\* A token fetched for a row read earlier never reaches another identity.
THEOREM TokensStayTheirs == TokensSpec => []TokensOfTheirIdentity
  <1>1. TokensInv => TokensOfTheirIdentity
    BY DEF TokensInv, TokensAgree, Known, TokensOfTheirIdentity
  <1> QED BY <1>1, TokensInvHolds, PTL

\* A spent refresh token stays in an account only while its successor is on the way
\* there, or after the successor was lost.
THEOREM NothingStranded == TokensSpec => []NotStranded
  <1>1. TokensInv => NotStranded
    BY DEF TokensInv, Settled, Replacing, NotStranded
  <1> QED BY <1>1, TokensInvHolds, PTL
=============================================================================
