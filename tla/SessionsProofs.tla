--------------------------- MODULE SessionsProofs ---------------------------
(***************************************************************************)
(* What TLAPS proves of Sessions, and of the cookie cache over it, for any *)
(* number of people, sessions, tokens, requests and browsers and any       *)
(* lifetimes.                                                              *)
(***************************************************************************)
EXTENDS SessionCache, TLAPS

-----------------------------------------------------------------------------
(* Facts about the operators the steps are built from *)

\* A level is one of the three.
LEMMA LevelIsTyped == \A entries : DeriveAal(entries) \in Aal
BY DEF DeriveAal, Aal

\* Stamping evidence that completed no later than now gives a log entry.
LEMMA StampIsTyped ==
    ASSUME NEW e \in Evidence, NEW t \in Nat, e.ago <= t
    PROVE  StampEvidence(e, t) \in Entry
BY DEF Evidence, Entry, StampEvidence

\* The configured lifetimes are positive numbers.
LEMMA TtlIsTyped == \A m \in BOOLEAN : Ttl(m) \in Nat \ {0}
BY LifetimesArePositive DEF Ttl

\* A lifetime read off a session is a positive number.
LEMMA LifetimeIsTyped == \A s \in Session : GrantedLifetime(s) \in Nat \ {0}
BY LifetimesArePositive DEF GrantedLifetime, Session

\* The idle request and the sentinel session are values of their types.
LEMMA SentinelsAreTyped == NoSession \in Session /\ NoRequest \in RequestState
<1>1. NoSession \in Session
  BY SomeoneExists DEF NoSession, Session, Aal, Entry
<1>2. NoEvidence \in {e \in Evidence : e.ago = 0}
  BY RecoveryIsAMethod DEF NoEvidence, Evidence, Factor
<1>3. NoRequest \in RequestState
  <2>1. (CHOOSE s \in SessionId : TRUE) \in SessionId
    BY SomeoneExists
  <2>2. NoSession.token \in Token
    BY <1>1 DEF Session
  <2> QED BY <1>1, <1>2, <2>1, <2>2 DEF NoRequest, RequestState, Step
<1> QED BY <1>1, <1>3

\* A request at a step is a request state.
LEMMA HoldIsTyped ==
    ASSUME NEW t \in Token, NEW s \in SessionId, NEW session \in Session
    PROVE  /\ Holds(t, s, session) \in RequestState
           /\ At("read", t, s, session) \in RequestState
BY SentinelsAreTyped DEF Holds, At, RequestState, Step

\* The log a sign-in mints is well typed.
LEMMA MintedLogIsTyped ==
    ASSUME NEW evidence \in Seq(Evidence), NEW t \in Nat,
           \A i \in DOMAIN evidence : evidence[i].ago <= t
    PROVE  [i \in 1..Len(evidence) |-> StampEvidence(evidence[i], t)] \in Seq(Entry)
<1>1. \A i \in 1..Len(evidence) : StampEvidence(evidence[i], t) \in Entry
  <2> TAKE i \in 1..Len(evidence)
  <2>1. evidence[i] \in Evidence /\ i \in DOMAIN evidence
    OBVIOUS
  <2> QED BY <2>1, StampIsTyped
<1>2. Len(evidence) \in Nat
  OBVIOUS
<1> QED BY <1>1, <1>2

\* A refresh leaves a well-typed session.
LEMMA TouchedIsTyped ==
    ASSUME TypeOK, NEW s \in SessionId, NEW r \in Request
    PROVE  Touched(s, r) \in Session
<1>1. row[s] \in Session /\ req[r].session \in Session /\ req[r].began \in Nat
  BY DEF TypeOK, RequestState
<1> DEFINE began == req[r].began
           expiresAt == began + GrantedLifetime(req[r].session)
<1>2. began \in Nat /\ expiresAt \in Nat
  BY <1>1, LifetimeIsTyped
<1> HIDE DEF began, expiresAt
<1>3. [row[s] EXCEPT !.expiresAt = expiresAt, !.updatedAt = began] \in Session
  BY <1>1, <1>2 DEF Session
<1> QED BY <1>3 DEF Touched, began, expiresAt

\* A step-up leaves a well-typed session.
LEMMA ElevatedIsTyped ==
    ASSUME TypeOK, NEW s \in SessionId, NEW r \in Request, NEW stamp \in Nat
    PROVE  Elevated(s, r, stamp) \in Session
<1>1. row[s] \in Session /\ req[r] \in RequestState
  BY DEF TypeOK
<1>2. StampEvidence(req[r].evidence, req[r].began) \in Entry
  BY <1>1, StampIsTyped DEF RequestState
<1> DEFINE log == Append(row[s].methods, StampEvidence(req[r].evidence, req[r].began))
<1>3. log \in Seq(Entry)
  BY <1>1, <1>2 DEF Session
<1>4. DeriveAal(Entries(log)) \in Aal
  BY LevelIsTyped
<1> QED BY <1>1, <1>3, <1>4 DEF Elevated, Session, RequestState

-----------------------------------------------------------------------------
(* Type correctness *)

\* Only the request that takes a step changes, and only to a request state.
LEMMA InitTyped == Init => TypeOK
BY SentinelsAreTyped DEF Init, TypeOK

LEMMA NextTyped == TypeOK /\ [Next]_vars => TypeOK'
<1> SUFFICES ASSUME TypeOK, [Next]_vars PROVE TypeOK'
  OBVIOUS
<1> USE DEF TypeOK
<1>1. CASE Tick
  BY <1>1 DEF Tick
<1>2. ASSUME NEW u \in UserId, NEW m \in BOOLEAN, NEW e \in SignInLogs, Create(u, m, e)
      PROVE  TypeOK'
  <2>1. PICK s \in SessionId \ created, t \in Token \ minted :
           /\ \A i \in DOMAIN e : e[i].ago <= now
           /\ created' = created \cup {s}
           /\ live' = live \cup {s}
           /\ minted' = minted \cup {t}
           /\ granted' = [granted EXCEPT ![s] = Ttl(m)]
           /\ row' = [row EXCEPT ![s] =
                  [token |-> t, userId |-> u,
                   expiresAt |-> now + Ttl(m), updatedAt |-> now,
                   authenticatedAt |-> now, rememberMe |-> m,
                   methods |-> [i \in 1..Len(e) |-> StampEvidence(e[i], now)],
                   aal |-> DeriveAal(Entries(
                              [i \in 1..Len(e) |-> StampEvidence(e[i], now)]))]]
           /\ UNCHANGED <<now, ended, req>>
    BY <1>2 DEF Create
  <2> DEFINE log == [i \in 1..Len(e) |-> StampEvidence(e[i], now)]
  <2>2. log \in Seq(Entry)
    BY <2>1, EvidenceIsTyped, MintedLogIsTyped
  <2>3. Ttl(m) \in Nat /\ DeriveAal(Entries(log)) \in Aal
    BY TtlIsTyped, LevelIsTyped
  <2> HIDE DEF log
  <2>4. [token |-> t, userId |-> u, expiresAt |-> now + Ttl(m), updatedAt |-> now,
         authenticatedAt |-> now, rememberMe |-> m,
         methods |-> log, aal |-> DeriveAal(Entries(log))] \in Session
    BY <2>2, <2>3 DEF Session
  <2>5. row' \in [SessionId -> Session]
    BY <2>1, <2>4 DEF log
  <2> QED BY <2>1, <2>3, <2>5
<1>3. ASSUME NEW r \in Request, Verify(r) PROVE TypeOK'
  <2>1. ASSUME NEW t \in minted, Read(r, t) PROVE TypeOK'
    BY <2>1, HoldIsTyped DEF Read
  <2>2. CASE FindExpired(r)
    BY <2>2, SentinelsAreTyped DEF FindExpired, RequestState, Step
  <2>3. CASE AnswerAsRead(r)
    BY <2>3 DEF AnswerAsRead, RequestState, Step
  <2>4. CASE FindDue(r)
    BY <2>4 DEF FindDue, RequestState, Step
  <2>5. CASE Touch(r)
    <3> DEFINE s == req[r].id
               updated == Touched(s, r)
    <3>1. s \in SessionId /\ req[r].token \in Token
      BY DEF RequestState
    <3>2. updated \in Session
      BY <3>1, TouchedIsTyped
    <3>3. Holds(req[r].token, s, updated) \in RequestState
      BY <3>1, <3>2, HoldIsTyped
    <3>4. updated.expiresAt - updated.updatedAt \in Int
      BY <3>2 DEF Session
    <3> HIDE DEF updated
    <3> QED BY <2>5, <3>1, <3>2, <3>3, <3>4 DEF Touch, updated
  <2>6. CASE TouchNothing(r)
    BY <2>6, SentinelsAreTyped DEF TouchNothing
  <2>7. CASE Drop(r)
    BY <2>7, SentinelsAreTyped DEF Drop
  <2> QED BY <1>3, <2>1, <2>2, <2>3, <2>4, <2>5, <2>6, <2>7 DEF Verify
<1>4. ASSUME NEW r \in Request, Elevate(r) PROVE TypeOK'
  <2>1. ASSUME NEW e \in StepUps, BeginElevate(r, e) PROVE TypeOK'
    <3>1. PICK t \in Token \ minted :
             /\ minted' = minted \cup {t}
             /\ req' = [req EXCEPT ![r] = [@ EXCEPT !.at = "elevate", !.next = t,
                                           !.began = now, !.evidence = e]]
             /\ UNCHANGED <<now, created, live, row, granted, ended>>
      BY <2>1 DEF BeginElevate
    <3>2. e \in {x \in Evidence : x.ago = 0}
      BY EvidenceIsTyped
    <3>3. req[r] \in RequestState
      OBVIOUS
    <3>4. [req[r] EXCEPT !.at = "elevate", !.next = t, !.began = now, !.evidence = e]
             \in RequestState
      BY <3>2, <3>3 DEF RequestState, Step
    <3> QED BY <3>1, <3>4
  <2>2. ASSUME NEW stamp \in 0..now, CommitElevate(r, stamp) PROVE TypeOK'
    <3> DEFINE s == req[r].id
               updated == Elevated(s, r, stamp)
    <3>1. s \in SessionId /\ stamp \in Nat
      BY DEF RequestState
    <3>2. updated \in Session
      BY <3>1, ElevatedIsTyped
    <3>3. Holds(updated.token, s, updated) \in RequestState
      BY <3>1, <3>2, HoldIsTyped DEF Session
    <3>4. updated.token \in Token /\ updated.methods \in Seq(Entry)
      BY <3>2 DEF Session
    <3> HIDE DEF updated
    <3> QED BY <2>2, <3>1, <3>2, <3>3, <3>4 DEF CommitElevate, updated
  <2>3. CASE ElevateNothing(r)
    BY <2>3, SentinelsAreTyped DEF ElevateNothing
  <2> QED BY <1>4, <2>1, <2>2, <2>3 DEF Elevate
<1>5. ASSUME NEW r \in Request, Respond(r) PROVE TypeOK'
  BY <1>5, SentinelsAreTyped DEF Respond
<1>6. ASSUME NEW r \in Request, SignOut(r) PROVE TypeOK'
  BY <1>6, SentinelsAreTyped DEF SignOut, Announce
<1>7. ASSUME NEW r \in Request, RevokeOthers(r) PROVE TypeOK'
  BY <1>7, SentinelsAreTyped DEF RevokeOthers
<1>8. ASSUME NEW r \in Request, NEW s \in SessionId, Revoke(r, s) PROVE TypeOK'
  BY <1>8, SentinelsAreTyped DEF Revoke, Announce
<1>9. ASSUME NEW u \in UserId, RevokeAll(u) PROVE TypeOK'
  BY <1>9 DEF RevokeAll
<1>10. CASE DeleteExpired
  BY <1>10 DEF DeleteExpired
<1>11. CASE UNCHANGED vars
  BY <1>11 DEF vars
<1> QED
  BY <1>1, <1>2, <1>3, <1>4, <1>5, <1>6, <1>7, <1>8, <1>9, <1>10, <1>11 DEF Next

\* Every reachable state is well typed.
THEOREM TypeCorrect == Spec => []TypeOK
<1>1. Init => TypeOK
  BY InitTyped
<1>2. TypeOK /\ [Next]_vars => TypeOK'
  BY NextTyped
<1> QED BY <1>1, <1>2, PTL DEF Spec

-----------------------------------------------------------------------------
(* What a step does to the table *)

\* A step that neither inserts nor updates a row, and begins no step-up.
Quiet ==
    /\ live' \subseteq live
    /\ created' = created
    /\ row' = row
    /\ minted' = minted
    /\ \A q \in Request : req'[q].at = "elevate" => req'[q] = req[q]

\* Every step is an insert, a refresh, one of the two halves of a step-up, or
\* quiet.
LEMMA NextSummary ==
    ASSUME TypeOK, [Next]_vars
    PROVE  \/ \E u \in UserId, m \in BOOLEAN, e \in SignInLogs : Create(u, m, e)
           \/ \E r \in Request : Touch(r)
           \/ \E r \in Request, e \in StepUps : BeginElevate(r, e)
           \/ \E r \in Request, stamp \in 0..now : CommitElevate(r, stamp)
           \/ Quiet
<1> SUFFICES ASSUME ~ \E u \in UserId, m \in BOOLEAN, e \in SignInLogs : Create(u, m, e),
                    ~ \E r \in Request : Touch(r),
                    ~ \E r \in Request, e \in StepUps : BeginElevate(r, e),
                    ~ \E r \in Request, stamp \in 0..now : CommitElevate(r, stamp)
             PROVE  Quiet
  OBVIOUS
<1> USE DEF TypeOK, Quiet
<1>1. NoRequest.at = "idle"
  BY DEF NoRequest
<1>2. ASSUME NEW r \in Request, Verify(r) PROVE Quiet
  <2>1. ASSUME NEW t \in minted, Read(r, t) PROVE Quiet
    <3>1. PICK s \in live : req' = [req EXCEPT ![r] = At("read", t, s, row[s])]
      BY <2>1 DEF Read
    <3>2. At("read", t, s, row[s]).at = "read"
      BY DEF At, NoRequest
    <3>3. \A q \in Request : req'[q].at = "elevate" => req'[q] = req[q]
      BY <3>1, <3>2
    <3> QED BY <2>1, <3>3 DEF Read
  <2>2. CASE FindExpired(r)
    BY <2>2 DEF FindExpired, NoRequest
  <2>3. CASE AnswerAsRead(r)
    BY <2>3 DEF AnswerAsRead, RequestState
  <2>4. CASE FindDue(r)
    BY <2>4 DEF FindDue, RequestState
  <2>5. CASE TouchNothing(r)
    BY <2>5, <1>1 DEF TouchNothing
  <2>6. CASE Drop(r)
    BY <2>6, <1>1 DEF Drop
  <2> QED BY <1>2, <2>1, <2>2, <2>3, <2>4, <2>5, <2>6 DEF Verify
<1>3. ASSUME NEW r \in Request, ElevateNothing(r) PROVE Quiet
  BY <1>3, <1>1 DEF ElevateNothing
<1>4. ASSUME NEW r \in Request, Respond(r) PROVE Quiet
  BY <1>4, <1>1 DEF Respond
<1>5. ASSUME NEW r \in Request, SignOut(r) PROVE Quiet
  BY <1>5, <1>1 DEF SignOut
<1>6. ASSUME NEW r \in Request, RevokeOthers(r) PROVE Quiet
  BY <1>6, <1>1 DEF RevokeOthers
<1>7. ASSUME NEW r \in Request, NEW s \in SessionId, Revoke(r, s) PROVE Quiet
  BY <1>7, <1>1 DEF Revoke
<1>8. ASSUME NEW u \in UserId, RevokeAll(u) PROVE Quiet
  BY <1>8 DEF RevokeAll
<1>9. CASE Tick
  BY <1>9 DEF Tick
<1>10. CASE DeleteExpired
  BY <1>10 DEF DeleteExpired
<1>11. CASE UNCHANGED vars
  BY <1>11 DEF vars
<1> QED
  BY <1>2, <1>3, <1>4, <1>5, <1>6, <1>7, <1>8, <1>9, <1>10, <1>11 DEF Next, Elevate

-----------------------------------------------------------------------------
(* Ended sessions *)

\* A step brings back no session that was ended.
LEMMA EndedStaysEnded ==
    ASSUME TypeOK, [Next]_vars, NEW s \in created, s \in live'
    PROVE  s \in live
<1>1. CASE \E u \in UserId, m \in BOOLEAN, e \in SignInLogs : Create(u, m, e)
  BY <1>1 DEF Create
<1>2. CASE \E r \in Request : Touch(r)
  BY <1>2 DEF Touch
<1>3. CASE \E r \in Request, e \in StepUps : BeginElevate(r, e)
  BY <1>3 DEF BeginElevate
<1>4. CASE \E r \in Request, stamp \in 0..now : CommitElevate(r, stamp)
  BY <1>4 DEF CommitElevate
<1>5. CASE Quiet
  BY <1>5 DEF Quiet
<1> QED BY <1>1, <1>2, <1>3, <1>4, <1>5, NextSummary

\* No session that was ended, by whatever means, is ever in the table again.
THEOREM EndedForGood == Spec => NoResurrection
<1>1. TypeOK /\ [Next]_vars => \A s \in created : s \in live' => s \in live
  BY EndedStaysEnded
<1> QED BY <1>1, TypeCorrect, PTL DEF Spec, NoResurrection

-----------------------------------------------------------------------------
(* Tokens *)

\* The inductive strengthening of TokensUnique: what opens a row, or is about
\* to, was generated, so a freshly generated token is none of them.
TokensMinted ==
    /\ \A s \in live : row[s].token \in minted
    /\ \A r \in Elevating : req[r].next \in minted

LEMMA TokensStep ==
    ASSUME TypeOK, TokensMinted, TokensUnique, [Next]_vars
    PROVE  /\ TokensMinted' /\ TokensUnique'
           /\ \A t \in minted : Opens(t)' => Opens(t)
<1> DEFINE Goal == /\ TokensMinted' /\ TokensUnique'
                   /\ \A t \in minted : Opens(t)' => Opens(t)
<1> USE DEF TypeOK, TokensMinted, TokensUnique, Opens, Elevating
<1>1. ASSUME NEW u \in UserId, NEW m \in BOOLEAN, NEW e \in SignInLogs, Create(u, m, e)
      PROVE  Goal
  <2>1. PICK s \in SessionId \ created, t \in Token \ minted :
           /\ live' = live \cup {s}
           /\ minted' = minted \cup {t}
           /\ row' = [row EXCEPT ![s] =
                  [token |-> t, userId |-> u,
                   expiresAt |-> now + Ttl(m), updatedAt |-> now,
                   authenticatedAt |-> now, rememberMe |-> m,
                   methods |-> [i \in 1..Len(e) |-> StampEvidence(e[i], now)],
                   aal |-> DeriveAal(Entries(
                              [i \in 1..Len(e) |-> StampEvidence(e[i], now)]))]]
           /\ req' = req
    BY <1>1 DEF Create
  <2>2. row'[s].token = t /\ \A x \in live : row'[x] = row[x]
    BY <2>1
  <2> QED BY <2>1, <2>2
<1>2. ASSUME NEW r \in Request, Touch(r) PROVE Goal
  <2> DEFINE x == req[r].id
  <2>1. /\ live' = live /\ minted' = minted /\ x \in live
        /\ row' = [row EXCEPT ![x] = Touched(x, r)]
    BY <1>2 DEF Touch
  <2>3. row[x] \in Session
    BY <2>1
  <2>4. Touched(x, r).token = row[x].token
    BY <2>3 DEF Touched, Session
  <2>5. \A s \in live : row'[s].token = row[s].token
    BY <2>1, <2>4
  <2>2. \A q \in Elevating' : q \in Elevating /\ req'[q] = req[q]
    BY <1>2 DEF Touch, Holds, At, NoRequest
  <2> QED BY <2>1, <2>2, <2>5
<1>3. ASSUME NEW r \in Request, NEW e \in StepUps, BeginElevate(r, e) PROVE Goal
  <2>1. PICK t \in Token \ minted :
           /\ minted' = minted \cup {t}
           /\ req' = [req EXCEPT ![r] = [@ EXCEPT !.at = "elevate", !.next = t,
                                         !.began = now, !.evidence = e]]
           /\ live' = live /\ row' = row
    BY <1>3 DEF BeginElevate
  <2>2. req'[r].next = t /\ \A q \in Request \ {r} : req'[q] = req[q]
    BY <2>1 DEF RequestState
  <2> QED BY <2>1, <2>2
<1>4. ASSUME NEW r \in Request, NEW stamp \in 0..now, CommitElevate(r, stamp) PROVE Goal
  <2>1. /\ r \in Elevating /\ req[r].id \in live
        /\ live' = live /\ minted' = minted
    BY <1>4 DEF CommitElevate
  <2>2. row'[req[r].id].token = req[r].next
    <3>1. row[req[r].id] \in Session
      BY <2>1
    <3>2. Elevated(req[r].id, r, stamp).token = req[r].next
      BY <3>1 DEF Elevated, Session
    <3>3. row' = [row EXCEPT ![req[r].id] = Elevated(req[r].id, r, stamp)]
      BY <1>4 DEF CommitElevate
    <3> QED BY <2>1, <3>2, <3>3
  <2>3. \A s \in live \ {req[r].id} : row'[s] = row[s]
    BY <1>4 DEF CommitElevate, TypeOK
  <2>4. \A q \in Elevating' : q \in Elevating /\ q # r /\ req'[q] = req[q]
    BY <1>4 DEF CommitElevate, Holds, At, NoRequest
  <2> HIDE DEF Opens, TypeOK
  <2>5. TokensMinted' /\ TokensUnique'
    BY <2>1, <2>2, <2>3, <2>4
  <2>6. ASSUME NEW t \in minted, Opens(t)' PROVE Opens(t)
    BY <2>1, <2>2, <2>3, <2>4, <2>6 DEF Opens
  <2> QED BY <2>5, <2>6
<1>5. CASE Quiet
  BY <1>5 DEF Quiet
<1> QED BY <1>1, <1>2, <1>3, <1>4, <1>5, NextSummary

LEMMA TokensInvariant == Spec => [](TokensMinted /\ TokensUnique)
<1>1. Init => TokensMinted /\ TokensUnique
  BY DEF Init, TokensMinted, TokensUnique, Elevating, NoRequest
<1>2. TypeOK /\ TokensMinted /\ TokensUnique /\ [Next]_vars
         => TokensMinted' /\ TokensUnique'
  BY TokensStep
<1> QED BY <1>1, <1>2, TypeCorrect, PTL DEF Spec

\* One token opens at most one session, and a step-up in flight holds a token
\* nobody else has.
THEOREM OneTokenOneSession == Spec => []TokensUnique
BY TokensInvariant, PTL

\* A token that was rotated away or revoked never opens a session again.
THEOREM RotatedForGood == Spec => DeadTokenStaysDead
<1>1. TypeOK /\ TokensMinted /\ TokensUnique /\ [Next]_vars
         => \A t \in minted : Opens(t)' => Opens(t)
  BY TokensStep
<1> QED BY <1>1, TypeCorrect, TokensInvariant, PTL DEF Spec, DeadTokenStaysDead

-----------------------------------------------------------------------------
(* Lifetimes *)

Live(r) == req[r].at \in {"read", "touch"}

\* No moment that was read off the clock lies in the future.  This is what
\* keeps a row that has not expired from having been updated after its expiry.
ClockBounds ==
    /\ \A s \in live : row[s].updatedAt <= now
    /\ \A r \in Request : req[r].began <= now /\ req[r].session.updatedAt <= now

\* A step that leaves the rows and the clock alone, and starts no refresh.
Calm ==
    /\ live' \subseteq live
    /\ row' = row
    /\ created' = created
    /\ now' = now
    /\ \A q \in Request :
         \/ req'[q] = req[q]
         \/ /\ ~Live(q)'
            /\ req'[q].began <= now
            /\ req'[q].session \in {NoSession, req[q].session}

LEMMA CalmSummary ==
    ASSUME TypeOK, ClockBounds, [Next]_vars
    PROVE  \/ Tick
           \/ \E u \in UserId, m \in BOOLEAN, e \in SignInLogs : Create(u, m, e)
           \/ \E r \in Request, t \in minted : Read(r, t)
           \/ \E r \in Request : FindDue(r)
           \/ \E r \in Request : Touch(r)
           \/ \E r \in Request, stamp \in 0..now : CommitElevate(r, stamp)
           \/ Calm
<1> USE DEF TypeOK, ClockBounds
<1>1. NoRequest.at = "idle" /\ NoRequest.began = 0 /\ NoRequest.session = NoSession
  BY DEF NoRequest
<1>2. ASSUME NEW r \in Request, FindExpired(r) PROVE Calm
  <2>1. /\ NoRequest \in RequestState
        /\ [NoRequest EXCEPT !.at = "drop", !.id = req[r].id].at = "drop"
        /\ [NoRequest EXCEPT !.at = "drop", !.id = req[r].id].began = 0
        /\ [NoRequest EXCEPT !.at = "drop", !.id = req[r].id].session = NoSession
    BY <1>1, SentinelsAreTyped DEF RequestState
  <2> QED BY <1>2, <2>1 DEF FindExpired, Calm, Live
<1>3. ASSUME NEW r \in Request, AnswerAsRead(r) PROVE Calm
  BY <1>3 DEF AnswerAsRead, Calm, Live, RequestState
<1>4. ASSUME NEW r \in Request, TouchNothing(r) PROVE Calm
  BY <1>4, <1>1 DEF TouchNothing, Calm, Live
<1>5. ASSUME NEW r \in Request, Drop(r) PROVE Calm
  BY <1>5, <1>1 DEF Drop, Calm, Live
<1>6. ASSUME NEW r \in Request, NEW e \in StepUps, BeginElevate(r, e) PROVE Calm
  <2>1. PICK t \in Token \ minted :
           req' = [req EXCEPT ![r] = [@ EXCEPT !.at = "elevate", !.next = t,
                                               !.began = now, !.evidence = e]]
    BY <1>6 DEF BeginElevate
  <2>2. req[r] \in RequestState
    OBVIOUS
  <2>3. /\ req'[r].at = "elevate" /\ req'[r].began = now
        /\ req'[r].session = req[r].session
        /\ \A q \in Request \ {r} : req'[q] = req[q]
    BY <2>1, <2>2 DEF RequestState
  <2> QED BY <1>6, <2>3 DEF BeginElevate, Calm, Live
<1>7. ASSUME NEW r \in Request, ElevateNothing(r) PROVE Calm
  BY <1>7, <1>1 DEF ElevateNothing, Calm, Live
<1>8. ASSUME NEW r \in Request, Respond(r) PROVE Calm
  BY <1>8, <1>1 DEF Respond, Calm, Live
<1>9. ASSUME NEW r \in Request, SignOut(r) PROVE Calm
  BY <1>9, <1>1 DEF SignOut, Calm, Live
<1>10. ASSUME NEW r \in Request, RevokeOthers(r) PROVE Calm
  BY <1>10, <1>1 DEF RevokeOthers, Calm, Live
<1>11. ASSUME NEW r \in Request, NEW s \in SessionId, Revoke(r, s) PROVE Calm
  BY <1>11, <1>1 DEF Revoke, Calm, Live
<1>12. ASSUME NEW u \in UserId, RevokeAll(u) PROVE Calm
  BY <1>12 DEF RevokeAll, Calm, Live
<1>13. CASE DeleteExpired
  BY <1>13 DEF DeleteExpired, Calm, Live
<1>14. CASE UNCHANGED vars
  BY <1>14 DEF vars, Calm, Live
<1> QED
  BY <1>2, <1>3, <1>4, <1>5, <1>6, <1>7, <1>8, <1>9, <1>10, <1>11, <1>12, <1>13,
     <1>14 DEF Next, Verify, Elevate

\* What the three writes of a row leave in its times.
LEMMA CreatedTimes ==
    ASSUME TypeOK, NEW u \in UserId, NEW m \in BOOLEAN, NEW e \in SignInLogs,
           Create(u, m, e)
    PROVE  \E s \in SessionId \ created :
              /\ live' = live \cup {s} /\ created' = created \cup {s}
              /\ row'[s].updatedAt = now
              /\ row'[s].expiresAt = now + Ttl(m)
              /\ row'[s].rememberMe = m
              /\ \A x \in SessionId \ {s} : row'[x] = row[x]
              /\ now' = now /\ req' = req
<1>1. PICK s \in SessionId \ created, t \in Token \ minted :
         /\ created' = created \cup {s}
         /\ live' = live \cup {s}
         /\ row' = [row EXCEPT ![s] =
                [token |-> t, userId |-> u,
                 expiresAt |-> now + Ttl(m), updatedAt |-> now,
                 authenticatedAt |-> now, rememberMe |-> m,
                 methods |-> [i \in 1..Len(e) |-> StampEvidence(e[i], now)],
                 aal |-> DeriveAal(Entries(
                            [i \in 1..Len(e) |-> StampEvidence(e[i], now)]))]]
         /\ now' = now /\ req' = req
  BY DEF Create
<1>2. s \in DOMAIN row
  BY DEF TypeOK
<1> QED BY <1>1, <1>2 DEF TypeOK

LEMMA TouchedTimes ==
    ASSUME TypeOK, NEW r \in Request, Touch(r)
    PROVE  LET s == req[r].id IN
           /\ s \in live /\ live' = live /\ created' = created /\ now' = now
           /\ row'[s].updatedAt = req[r].began
           /\ row'[s].expiresAt = req[r].began + GrantedLifetime(req[r].session)
           /\ row'[s].rememberMe = row[s].rememberMe
           /\ \A x \in SessionId \ {s} : row'[x] = row[x]
           /\ req' = [req EXCEPT ![r] = Holds(req[r].token, s, row'[s])]
<1> DEFINE s == req[r].id
<1>1. /\ s \in live /\ live' = live /\ created' = created /\ now' = now
      /\ row' = [row EXCEPT ![s] = Touched(s, r)]
      /\ req' = [req EXCEPT ![r] = Holds(req[r].token, s, Touched(s, r))]
  BY DEF Touch
<1>2. s \in SessionId /\ row[s] \in Session /\ row'[s] = Touched(s, r)
  BY <1>1 DEF TypeOK
<1>3. /\ Touched(s, r).updatedAt = req[r].began
      /\ Touched(s, r).expiresAt = req[r].began + GrantedLifetime(req[r].session)
      /\ Touched(s, r).rememberMe = row[s].rememberMe
  BY <1>2 DEF Touched, Session
<1>4. \A x \in SessionId \ {s} : row'[x] = row[x]
  BY <1>1 DEF TypeOK
<1> QED BY <1>1, <1>2, <1>3, <1>4

LEMMA ElevatedTimes ==
    ASSUME TypeOK, NEW r \in Request, NEW stamp \in 0..now, CommitElevate(r, stamp)
    PROVE  LET s == req[r].id IN
           /\ s \in live /\ live' = live /\ created' = created /\ now' = now
           /\ row'[s].updatedAt = stamp
           /\ \A x \in SessionId \ {s} : row'[x] = row[x]
           /\ \E t : req' = [req EXCEPT ![r] = Holds(t, s, row'[s])]
<1> DEFINE s == req[r].id
<1>1. /\ s \in live /\ live' = live /\ created' = created /\ now' = now
      /\ row' = [row EXCEPT ![s] = Elevated(s, r, stamp)]
      /\ \E t : req' = [req EXCEPT ![r] = Holds(t, s, Elevated(s, r, stamp))]
  BY DEF CommitElevate
<1>2. s \in SessionId /\ row[s] \in Session /\ row'[s] = Elevated(s, r, stamp)
  BY <1>1 DEF TypeOK
<1>3. Elevated(s, r, stamp).updatedAt = stamp
  BY <1>2 DEF Elevated, Session
<1>4. \A x \in SessionId \ {s} : row'[x] = row[x]
  BY <1>1 DEF TypeOK
<1> QED BY <1>1, <1>2, <1>3, <1>4

LEMMA ClockStep ==
    ASSUME TypeOK, ClockBounds, [Next]_vars
    PROVE  ClockBounds'
<1> USE DEF ClockBounds
<1>1. /\ now \in Nat
      /\ \A s \in SessionId : row[s].updatedAt \in Nat
      /\ \A r \in Request : req[r].began \in Nat /\ req[r].session.updatedAt \in Nat
      /\ live \subseteq SessionId
  BY DEF TypeOK, Session, RequestState
<1>2. NoSession.updatedAt = 0
  BY DEF NoSession
<1>3. \A t, s, session : /\ Holds(t, s, session).began = 0
                         /\ Holds(t, s, session).session = session
  BY DEF Holds, At, NoRequest
<1>4. CASE Tick
  BY <1>4, <1>1 DEF Tick
<1>5. ASSUME NEW u \in UserId, NEW m \in BOOLEAN, NEW e \in SignInLogs, Create(u, m, e)
      PROVE  ClockBounds'
  BY <1>5, <1>1, CreatedTimes
<1>6. ASSUME NEW r \in Request, NEW t \in minted, Read(r, t) PROVE ClockBounds'
  <2>1. PICK s \in live : req' = [req EXCEPT ![r] = At("read", t, s, row[s])]
    BY <1>6 DEF Read
  <2>2. At("read", t, s, row[s]).began = 0 /\ At("read", t, s, row[s]).session = row[s]
    BY DEF At, NoRequest
  <2> QED BY <1>6, <1>1, <2>1, <2>2 DEF Read, TypeOK
<1>7. ASSUME NEW r \in Request, FindDue(r) PROVE ClockBounds'
  BY <1>7, <1>1 DEF FindDue, TypeOK, RequestState
<1>8. ASSUME NEW r \in Request, Touch(r) PROVE ClockBounds'
  <2> DEFINE s == req[r].id
  <2>1. /\ s \in live /\ live' = live /\ now' = now
        /\ row'[s].updatedAt = req[r].began
        /\ \A x \in SessionId \ {s} : row'[x] = row[x]
        /\ req' = [req EXCEPT ![r] = Holds(req[r].token, s, row'[s])]
    BY <1>8, TouchedTimes
  <2>2. /\ req'[r].began = 0 /\ req'[r].session = row'[s]
        /\ \A q \in Request \ {r} : req'[q] = req[q]
    BY <2>1, <1>3 DEF TypeOK
  <2> HIDE DEF s
  <2> QED BY <2>1, <2>2, <1>1
<1>9. ASSUME NEW r \in Request, NEW stamp \in 0..now, CommitElevate(r, stamp)
      PROVE  ClockBounds'
  <2> DEFINE s == req[r].id
  <2>1. /\ s \in live /\ live' = live /\ now' = now
        /\ row'[s].updatedAt = stamp
        /\ \A x \in SessionId \ {s} : row'[x] = row[x]
        /\ \E t : req' = [req EXCEPT ![r] = Holds(t, s, row'[s])]
    BY <1>9, ElevatedTimes
  <2>2. /\ req'[r].began = 0 /\ req'[r].session = row'[s]
        /\ \A q \in Request \ {r} : req'[q] = req[q]
    BY <2>1, <1>3 DEF TypeOK
  <2> HIDE DEF s
  <2> QED BY <2>1, <2>2, <1>1
<1>10. CASE Calm
  BY <1>10, <1>1, <1>2 DEF Calm
<1> QED BY <1>4, <1>5, <1>6, <1>7, <1>8, <1>9, <1>10, CalmSummary

LEMMA ClockInvariant == Spec => []ClockBounds
<1>1. Init => ClockBounds
  BY DEF Init, ClockBounds, NoRequest, NoSession
<1>2. TypeOK /\ ClockBounds /\ [Next]_vars => ClockBounds'
  BY ClockStep
<1> QED BY <1>1, <1>2, TypeCorrect, PTL DEF Spec

LEMMA FallbackStep ==
    ASSUME TypeOK, ClockBounds, FallbackUnreached, [Next]_vars
    PROVE  FallbackUnreached'
<1> USE DEF FallbackUnreached, Refreshing
<1>1. \A t, s, session : /\ Holds(t, s, session).at = "held"
                         /\ At("read", t, s, session).at = "read"
  BY DEF Holds, At, NoRequest
<1>2. CASE Tick
  BY <1>2 DEF Tick
<1>3. ASSUME NEW u \in UserId, NEW m \in BOOLEAN, NEW e \in SignInLogs, Create(u, m, e)
      PROVE  FallbackUnreached'
  BY <1>3 DEF Create
<1>4. ASSUME NEW r \in Request, NEW t \in minted, Read(r, t) PROVE FallbackUnreached'
  BY <1>4, <1>1 DEF Read, TypeOK
<1>5. ASSUME NEW r \in Request, FindDue(r) PROVE FallbackUnreached'
  <2>1. req[r].session.expiresAt > now /\ req[r].session.updatedAt <= now
    BY <1>5 DEF FindDue, IsExpired, ClockBounds, TypeOK, RequestState, Session
  <2>2. req[r].session.expiresAt > req[r].session.updatedAt
    BY <2>1 DEF TypeOK, RequestState, Session
  <2>3. req'[r].session = req[r].session /\ \A q \in Request \ {r} : req'[q] = req[q]
    BY <1>5 DEF FindDue, TypeOK, RequestState
  <2> QED BY <2>2, <2>3
<1>6. ASSUME NEW r \in Request, Touch(r) PROVE FallbackUnreached'
  BY <1>6, <1>1 DEF Touch, TypeOK
<1>7. ASSUME NEW r \in Request, NEW stamp \in 0..now, CommitElevate(r, stamp)
      PROVE  FallbackUnreached'
  BY <1>7, <1>1 DEF CommitElevate, TypeOK
<1>8. CASE Calm
  BY <1>8 DEF Calm, Live
<1> QED BY <1>2, <1>3, <1>4, <1>5, <1>6, <1>7, <1>8, CalmSummary

\* A refresh always extends by the distance the row recorded, step-ups or not.
THEOREM RefreshKeepsDistance == Spec => []FallbackUnreached
<1>1. Init => FallbackUnreached
  BY DEF Init, FallbackUnreached, Refreshing, NoRequest
<1>2. TypeOK /\ ClockBounds /\ FallbackUnreached /\ [Next]_vars => FallbackUnreached'
  BY FallbackStep
<1> QED BY <1>1, <1>2, TypeCorrect, ClockInvariant, PTL DEF Spec

\* The inductive strengthening of NeverPromoted: a session about to be refreshed
\* carries its row's own remember-me choice and no more than its lifetime.
LifetimesKept ==
    /\ NeverPromoted
    /\ \A r \in Request : Live(r) =>
         /\ req[r].id \in created
         /\ req[r].session.rememberMe = row[req[r].id].rememberMe
         /\ req[r].session.expiresAt
              <= req[r].session.updatedAt + Ttl(req[r].session.rememberMe)
    /\ Elevating = {}

LEMMA LifetimesStep ==
    ASSUME StepUps = {}, TypeOK, ClockBounds, FallbackUnreached, LifetimesKept, [Next]_vars
    PROVE  LifetimesKept'
<1> USE DEF LifetimesKept, NeverPromoted, Live, Elevating
<1>1. /\ now \in Nat /\ live \subseteq created /\ created \subseteq SessionId
      /\ \A s \in SessionId : row[s] \in Session
      /\ \A r \in Request : req[r] \in RequestState
  BY DEF TypeOK
<1>2. \A s, t, session :
         /\ Holds(t, s, session).at = "held"
         /\ At("read", t, s, session).at = "read"
         /\ At("read", t, s, session).id = s
         /\ At("read", t, s, session).session = session
  BY DEF Holds, At, NoRequest
<1>3. CASE Tick
  BY <1>3 DEF Tick, Ttl
<1>4. ASSUME NEW u \in UserId, NEW m \in BOOLEAN, NEW e \in SignInLogs, Create(u, m, e)
      PROVE  LifetimesKept'
  <2>1. PICK s \in SessionId \ created :
           /\ live' = live \cup {s} /\ created' = created \cup {s}
           /\ row'[s].updatedAt = now
           /\ row'[s].expiresAt = now + Ttl(m)
           /\ row'[s].rememberMe = m
           /\ \A x \in SessionId \ {s} : row'[x] = row[x]
           /\ req' = req
    BY <1>4, CreatedTimes
  <2>2. Ttl(m) \in Nat
    BY TtlIsTyped
  <2>3. row'[s].expiresAt <= row'[s].updatedAt + Ttl(row'[s].rememberMe)
    BY <2>1, <2>2, <1>1
  <2>4. \A x \in created : row'[x] = row[x]
    BY <2>1, <1>1
  <2>5. NeverPromoted'
    BY <2>1, <2>3, <2>4, <1>1 DEF Ttl
  <2> QED BY <2>1, <2>4, <2>5, <1>1 DEF Ttl
<1>5. ASSUME NEW r \in Request, NEW t \in minted, Read(r, t) PROVE LifetimesKept'
  <2>1. PICK s \in live :
           /\ req' = [req EXCEPT ![r] = At("read", t, s, row[s])]
           /\ live' = live /\ created' = created /\ row' = row
    BY <1>5 DEF Read
  <2>2. /\ req'[r].at = "read" /\ req'[r].id = s /\ req'[r].session = row[s]
        /\ \A q \in Request \ {r} : req'[q] = req[q]
    BY <2>1, <1>2 DEF TypeOK
  <2> QED BY <2>1, <2>2, <1>1 DEF Ttl
<1>6. ASSUME NEW r \in Request, FindDue(r) PROVE LifetimesKept'
  <2>1. /\ req[r].at = "read" /\ req'[r].at = "touch"
        /\ req'[r].id = req[r].id /\ req'[r].session = req[r].session
        /\ \A q \in Request \ {r} : req'[q] = req[q]
        /\ live' = live /\ created' = created /\ row' = row
    BY <1>6, <1>1 DEF FindDue, TypeOK, RequestState
  <2> QED BY <2>1 DEF Ttl
<1>7. ASSUME NEW r \in Request, Touch(r) PROVE LifetimesKept'
  <2> DEFINE s == req[r].id
             granting == GrantedLifetime(req[r].session)
  <2>1. /\ s \in live /\ live' = live /\ created' = created
        /\ row'[s].updatedAt = req[r].began
        /\ row'[s].expiresAt = req[r].began + granting
        /\ row'[s].rememberMe = row[s].rememberMe
        /\ \A x \in SessionId \ {s} : row'[x] = row[x]
        /\ req' = [req EXCEPT ![r] = Holds(req[r].token, s, row'[s])]
    BY <1>7, TouchedTimes
  <2>2. r \in Refreshing
    BY <1>7 DEF Touch, Refreshing
  <2>3. /\ req[r].session.rememberMe = row[s].rememberMe
        /\ req[r].session.expiresAt > req[r].session.updatedAt
        /\ req[r].session.expiresAt
             <= req[r].session.updatedAt + Ttl(req[r].session.rememberMe)
    BY <2>2 DEF FallbackUnreached, Refreshing
  <2>4. /\ req[r].session.expiresAt \in Nat /\ req[r].session.updatedAt \in Nat
        /\ req[r].began \in Nat /\ row[s].rememberMe \in BOOLEAN
    BY <1>1, <2>1 DEF RequestState, Session
  <2>5. Ttl(row[s].rememberMe) \in Nat
    BY <2>4, TtlIsTyped
  <2>6. granting \in Nat /\ granting <= Ttl(row[s].rememberMe)
    BY <2>3, <2>4, <2>5 DEF GrantedLifetime
  <2>7. \A x \in SessionId : row'[x].rememberMe = row[x].rememberMe
    BY <2>1
  <2>8. /\ req'[r].at = "held"
        /\ \A q \in Request \ {r} : req'[q] = req[q]
    BY <2>1, <1>2 DEF TypeOK
  <2> HIDE DEF s, granting
  <2>9. row'[s].expiresAt <= row'[s].updatedAt + Ttl(row'[s].rememberMe)
    BY <2>1, <2>4, <2>5, <2>6
  <2>10. \A x \in live' : x = s \/ row'[x] = row[x]
    BY <2>1, <1>1
  <2>11. NeverPromoted'
    BY <2>1, <2>9, <2>10 DEF Ttl
  <2> QED BY <2>1, <2>7, <2>8, <2>11, <1>1 DEF Ttl
<1>8. CASE \E r \in Request, stamp \in 0..now : CommitElevate(r, stamp)
  BY <1>8 DEF CommitElevate
<1>9. CASE Calm
  <2>1. Elevating' = {}
    <3>1. ASSUME NEW q \in Request, req'[q].at = "elevate" PROVE FALSE
      BY <3>1, NextSummary, <1>9, <1>4, <1>7, <1>8
         DEF Quiet, Create, Touch, Holds, At, NoRequest, TypeOK
    <3> QED BY <3>1
  <2> QED BY <1>9, <2>1 DEF Calm, Ttl
<1> QED BY <1>3, <1>4, <1>5, <1>6, <1>7, <1>8, <1>9, CalmSummary

\* Where nobody steps up, browsing never gives a session more than the lifetime
\* its remember-me choice was given, however its refreshes race.
THEOREM BrowsingNeverPromotes ==
    ASSUME StepUps = {} PROVE Spec => []NeverPromoted
<1>1. Init => LifetimesKept
  BY DEF Init, LifetimesKept, NeverPromoted, Live, Elevating, NoRequest
<1>2. TypeOK /\ ClockBounds /\ FallbackUnreached /\ LifetimesKept /\ [Next]_vars
         => LifetimesKept'
  BY LifetimesStep
<1>3. LifetimesKept => NeverPromoted
  BY DEF LifetimesKept
<1> QED
  BY <1>1, <1>2, <1>3, TypeCorrect, ClockInvariant, RefreshKeepsDistance, PTL DEF Spec

-----------------------------------------------------------------------------
(* Assurance *)

\* Evidence never lowers a level.
LEMMA MoreEvidenceNoLess ==
    ASSUME NEW A, NEW B, A \subseteq B
    PROVE  DeriveAal(A) <= DeriveAal(B)
<1>1. LiveEntries(A) \subseteq LiveEntries(B)
  BY DEF LiveEntries
<1> QED BY <1>1 DEF DeriveAal

\* Refusing recovery codes only ever makes a policy stricter: the level and the
\* methods are both judged on what is left of the log.
THEOREM RecoveryOnlyStricter == Spec => []RefusingRecoveryIsStricter
<1>1. ASSUME NEW s, NEW p \in Policy, NEW t,
             MeetsAssurance(s, [p EXCEPT !.allowRecovery = FALSE], t)
      PROVE  MeetsAssurance(s, [p EXCEPT !.allowRecovery = TRUE], t)
  <2> DEFINE strict == [p EXCEPT !.allowRecovery = FALSE]
             lax == [p EXCEPT !.allowRecovery = TRUE]
  <2>1. /\ strict.allowRecovery = FALSE /\ lax.allowRecovery = TRUE
        /\ strict.aal = lax.aal /\ strict.aal \in 0..2
        /\ strict.hasMaxAge = lax.hasMaxAge /\ strict.maxAge = lax.maxAge
        /\ strict.hasMethods = lax.hasMethods /\ strict.methods = lax.methods
    BY DEF Policy, Aal
  <2> HIDE DEF strict, lax
  <2>2. Considered(s.methods, strict) \subseteq Considered(s.methods, lax)
    BY <2>1 DEF Considered
  <2>3. MeetsAssurance(s, strict, t)
    BY <1>1 DEF strict
  <2>4. DeriveAal(Considered(s.methods, lax)) >= lax.aal
    <3>1. /\ DeriveAal(Considered(s.methods, strict)) \in 0..2
          /\ DeriveAal(Considered(s.methods, lax)) \in 0..2
      BY LevelIsTyped DEF Aal
    <3>2. DeriveAal(Considered(s.methods, strict)) <= DeriveAal(Considered(s.methods, lax))
      BY <2>2, MoreEvidenceNoLess
    <3>3. DeriveAal(Considered(s.methods, strict)) >= strict.aal
      BY <2>3 DEF MeetsAssurance
    <3> QED BY <3>1, <3>2, <3>3, <2>1
  <2>5. lax.hasMaxAge => s.authenticatedAt + lax.maxAge > t
    BY <2>1, <2>3 DEF MeetsAssurance
  <2>6. lax.hasMethods =>
          \E e \in LiveEntries(Considered(s.methods, lax)) : e.method \in lax.methods
    BY <2>1, <2>2, <2>3 DEF MeetsAssurance, LiveEntries
  <2>7. MeetsAssurance(s, lax, t)
    BY <2>4, <2>5, <2>6 DEF MeetsAssurance
  <2> QED BY <2>7 DEF lax
<1>2. RefusingRecoveryIsStricter
  BY <1>1, PoliciesAreTyped DEF RefusingRecoveryIsStricter
<1> QED BY <1>2, PTL

\* The strengthening of StepUpOnlyAdds: no row's level disagrees with its log.
LevelsHonest == \A s \in live : row[s].aal = DeriveAal(Entries(row[s].methods))

LEMMA AddsStep ==
    ASSUME TypeOK, LevelsHonest, [Next]_vars
    PROVE  /\ LevelsHonest'
           /\ \A s \in live \cap live' :
                /\ Len(row[s].methods) <= Len(row'[s].methods)
                /\ \A i \in DOMAIN row[s].methods : row'[s].methods[i] = row[s].methods[i]
                /\ row[s].aal <= row'[s].aal
<1> DEFINE Kept(s) == /\ Len(row[s].methods) <= Len(row'[s].methods)
                      /\ \A i \in DOMAIN row[s].methods :
                            row'[s].methods[i] = row[s].methods[i]
                      /\ row[s].aal <= row'[s].aal
           Goal == LevelsHonest' /\ \A s \in live \cap live' : Kept(s)
<1>1. /\ live \subseteq created /\ created \subseteq SessionId
      /\ \A s \in SessionId : row[s] \in Session
  BY DEF TypeOK
<1>2. ASSUME NEW s \in live, row'[s].methods = row[s].methods, row'[s].aal = row[s].aal
      PROVE  Kept(s) /\ row'[s].aal = DeriveAal(Entries(row'[s].methods))
  BY <1>1, <1>2 DEF Session, Aal, LevelsHonest
<1>3. ASSUME NEW u \in UserId, NEW m \in BOOLEAN, NEW e \in SignInLogs, Create(u, m, e)
      PROVE  Goal
  <2>1. PICK s \in SessionId \ created, t \in Token \ minted :
           /\ live' = live \cup {s}
           /\ row' = [row EXCEPT ![s] =
                  [token |-> t, userId |-> u,
                   expiresAt |-> now + Ttl(m), updatedAt |-> now,
                   authenticatedAt |-> now, rememberMe |-> m,
                   methods |-> [i \in 1..Len(e) |-> StampEvidence(e[i], now)],
                   aal |-> DeriveAal(Entries(
                              [i \in 1..Len(e) |-> StampEvidence(e[i], now)]))]]
    BY <1>3 DEF Create
  <2>2. row'[s].aal = DeriveAal(Entries(row'[s].methods))
    BY <2>1 DEF TypeOK
  <2>3. \A x \in live : row'[x] = row[x] /\ x # s
    BY <2>1, <1>1
  <2> QED BY <2>1, <2>2, <2>3, <1>2 DEF LevelsHonest
<1>4. ASSUME NEW r \in Request, Touch(r) PROVE Goal
  <2> DEFINE s == req[r].id
  <2>1. s \in live /\ live' = live /\ row' = [row EXCEPT ![s] = Touched(s, r)]
    BY <1>4 DEF Touch
  <2>2. Touched(s, r).methods = row[s].methods /\ Touched(s, r).aal = row[s].aal
    BY <2>1, <1>1 DEF Touched, Session
  <2> HIDE DEF s
  <2>3. \A x \in live : row'[x].methods = row[x].methods /\ row'[x].aal = row[x].aal
    BY <2>1, <2>2, <1>1
  <2> QED BY <2>1, <2>3, <1>2 DEF LevelsHonest
<1>5. ASSUME NEW r \in Request, NEW stamp \in 0..now, CommitElevate(r, stamp) PROVE Goal
  <2> DEFINE s == req[r].id
             entry == StampEvidence(req[r].evidence, req[r].began)
             log == Append(row[s].methods, entry)
  <2>1. s \in live /\ live' = live /\ row' = [row EXCEPT ![s] = Elevated(s, r, stamp)]
    BY <1>5 DEF CommitElevate
  <2>2. /\ Elevated(s, r, stamp).methods = log
        /\ Elevated(s, r, stamp).aal = DeriveAal(Entries(log))
    BY <2>1, <1>1 DEF Elevated, Session
  <2>3. entry \in Entry /\ row[s].methods \in Seq(Entry)
    <3>1. req[r] \in RequestState
      BY DEF TypeOK
    <3> QED BY <3>1, <2>1, <1>1, StampIsTyped DEF RequestState, Session
  <2>4. row'[s].methods = log /\ row'[s].aal = DeriveAal(Entries(log))
    <3>1. row'[s] = Elevated(s, r, stamp)
      BY <2>1 DEF TypeOK
    <3> HIDE DEF s, log
    <3> QED BY <3>1, <2>2
  <2> HIDE DEF s, entry
  <2>5. /\ Len(row[s].methods) <= Len(log)
        /\ \A i \in DOMAIN row[s].methods : i \in DOMAIN log /\ log[i] = row[s].methods[i]
    BY <2>3
  <2>6. Entries(row[s].methods) \subseteq Entries(log)
    BY <2>5 DEF Entries
  <2>7. row[s].aal <= DeriveAal(Entries(log))
    BY <2>1, <2>6, MoreEvidenceNoLess DEF LevelsHonest
  <2> HIDE DEF log
  <2>8. Kept(s)
    <3>1. row'[s].methods = log
      BY <2>4
    <3>2. row[s].aal <= row'[s].aal
      BY <2>4, <2>7
    <3> QED BY <3>1, <3>2, <2>5
  <2>9. \A x \in live \ {s} : row'[x] = row[x]
    BY <2>1, <1>1
  <2>10. ASSUME NEW x \in live \ {s}
         PROVE  Kept(x) /\ row'[x].aal = DeriveAal(Entries(row'[x].methods))
    BY <2>9, <1>2
  <2> QED BY <2>1, <2>4, <2>8, <2>10 DEF LevelsHonest
<1>6. CASE live' \subseteq live /\ row' = row
  BY <1>6, <1>2 DEF LevelsHonest
<1>7. CASE \E r \in Request, e \in StepUps : BeginElevate(r, e)
  BY <1>7, <1>6 DEF BeginElevate
<1> QED BY <1>3, <1>4, <1>5, <1>6, <1>7, NextSummary DEF Quiet

\* Whatever races, a session's log is only ever extended and its level never
\* falls.
THEOREM ProofIsNeverLost == Spec => StepUpOnlyAdds
<1>1. Init => LevelsHonest
  BY DEF Init, LevelsHonest
<1>2. TypeOK /\ LevelsHonest /\ [Next]_vars => LevelsHonest'
  BY AddsStep
<1>3. TypeOK /\ LevelsHonest /\ [Next]_vars =>
        \A s \in live \cap live' :
          /\ Len(row[s].methods) <= Len(row'[s].methods)
          /\ \A i \in DOMAIN row[s].methods : row'[s].methods[i] = row[s].methods[i]
          /\ row[s].aal <= row'[s].aal
  BY AddsStep
<1> QED BY <1>1, <1>2, <1>3, TypeCorrect, PTL DEF Spec, StepUpOnlyAdds

-----------------------------------------------------------------------------
(* Freshness *)

\* A row that backs its freshness goes on doing so: an insert and a step-up
\* record the evidence of the moment they state, a refresh touches neither.
LEMMA BackedStep ==
    ASSUME TypeOK, EvidenceBacked, [Next]_vars
    PROVE  EvidenceBacked'
<1> DEFINE Backed(x) == x.methods # <<>> =>
                          \E e \in Entries(x.methods) : e.completedAt = x.authenticatedAt
<1>0. (\A s \in live : Backed(row[s])) /\ ((\A s \in live' : Backed(row'[s])) => EvidenceBacked')
  BY DEF EvidenceBacked
<1>1. /\ live \subseteq created /\ created \subseteq SessionId
      /\ \A s \in SessionId : row[s] \in Session
  BY DEF TypeOK
<1>2. ASSUME NEW u \in UserId, NEW m \in BOOLEAN, NEW e \in SignInLogs, Create(u, m, e)
      PROVE  EvidenceBacked'
  <2> DEFINE log == [i \in 1..Len(e) |-> StampEvidence(e[i], now)]
  <2>1. PICK s \in SessionId \ created :
           /\ live' = live \cup {s}
           /\ row'[s].methods = log /\ row'[s].authenticatedAt = now
           /\ \A x \in SessionId \ {s} : row'[x] = row[x]
    BY <1>2 DEF Create, TypeOK
  <2>2. ASSUME log # <<>> PROVE \E x \in Entries(log) : x.completedAt = now
    <3>1. e \in Seq(Evidence) /\ now \in Nat
      BY EvidenceIsTyped DEF TypeOK
    <3>2. e # <<>>
      BY <2>2, <3>1
    <3>3. PICK i \in DOMAIN e : e[i].ago = 0
      BY <3>2, SignInsAreFresh
    <3>4. i \in DOMAIN log /\ log[i] = StampEvidence(e[i], now)
      BY <3>1
    <3>5. log[i].completedAt = now
      BY <3>1, <3>3, <3>4 DEF StampEvidence
    <3> QED BY <3>4, <3>5 DEF Entries
  <2> HIDE DEF log
  <2>3. Backed(row'[s])
    BY <2>1, <2>2
  <2>4. \A x \in live : row'[x] = row[x]
    BY <1>1, <2>1
  <2> HIDE DEF Backed
  <2> QED BY <1>0, <2>1, <2>3, <2>4
<1>3. ASSUME NEW r \in Request, Touch(r) PROVE EvidenceBacked'
  <2> DEFINE s == req[r].id
  <2>1. s \in live /\ live' = live /\ row' = [row EXCEPT ![s] = Touched(s, r)]
    BY <1>3 DEF Touch
  <2>2. /\ Touched(s, r).methods = row[s].methods
        /\ Touched(s, r).authenticatedAt = row[s].authenticatedAt
    BY <2>1, <1>1 DEF Touched, Session
  <2> HIDE DEF s
  <2>3. \A x \in live : /\ row'[x].methods = row[x].methods
                        /\ row'[x].authenticatedAt = row[x].authenticatedAt
    BY <2>1, <2>2, <1>1
  <2> QED BY <1>0, <2>1, <2>3
<1>4. ASSUME NEW r \in Request, NEW stamp \in 0..now, CommitElevate(r, stamp)
      PROVE  EvidenceBacked'
  <2> DEFINE s == req[r].id
             entry == StampEvidence(req[r].evidence, req[r].began)
             log == Append(row[s].methods, entry)
  <2>1. s \in live /\ live' = live /\ row' = [row EXCEPT ![s] = Elevated(s, r, stamp)]
    BY <1>4 DEF CommitElevate
  <2>2. /\ Elevated(s, r, stamp).methods = log
        /\ Elevated(s, r, stamp).authenticatedAt = req[r].began
    BY <2>1, <1>1 DEF Elevated, Session
  <2>3. /\ req[r] \in RequestState /\ row[s].methods \in Seq(Entry)
        /\ req[r].began \in Nat /\ req[r].evidence \in {x \in Evidence : x.ago = 0}
    BY <2>1, <1>1 DEF TypeOK, RequestState, Session
  <2>4. entry.completedAt = req[r].began
    BY <2>3 DEF StampEvidence
  <2>5. entry \in Entry
    BY <2>3, StampIsTyped
  <2> HIDE DEF entry, s
  <2>6. Len(log) \in DOMAIN log /\ log[Len(log)] = entry
    BY <2>3, <2>5
  <2>7. entry \in Entries(log)
    BY <2>6 DEF Entries
  <2>8. row'[s] = Elevated(s, r, stamp) /\ \A x \in live \ {s} : row'[x] = row[x]
    BY <2>1, <1>1 DEF TypeOK
  <2> HIDE DEF log
  <2>9. Backed(row'[s])
    BY <2>2, <2>4, <2>7, <2>8
  <2> HIDE DEF Backed
  <2> QED BY <1>0, <2>1, <2>8, <2>9
<1>5. CASE live' \subseteq live /\ row' = row
  BY <1>0, <1>5
<1>6. CASE \E r \in Request, e \in StepUps : BeginElevate(r, e)
  BY <1>5, <1>6 DEF BeginElevate
<1> QED BY <1>2, <1>3, <1>4, <1>5, <1>6, NextSummary DEF Quiet

\* The moment freshness is measured from is always one that recorded evidence
\* completed at: no refresh and no race of step-ups moves it off the log.
THEOREM FreshnessIsProven == Spec => []EvidenceBacked
<1>1. Init => EvidenceBacked
  BY DEF Init, EvidenceBacked
<1>2. TypeOK /\ EvidenceBacked /\ [Next]_vars => EvidenceBacked'
  BY BackedStep
<1> QED BY <1>1, <1>2, TypeCorrect, PTL DEF Spec

-----------------------------------------------------------------------------
(* Announcements *)

\* The strengthening of EndAnnouncedOnce: a session not yet inserted has not
\* been announced as ended.
Announced == EndAnnouncedOnce /\ \A s \in SessionId \ created : ended[s] = 0

LEMMA AnnouncedStep ==
    ASSUME TypeOK, Announced, [Next]_vars
    PROVE  Announced'
<1> USE DEF Announced, EndAnnouncedOnce
<1>0. /\ live \subseteq created /\ created \subseteq SessionId
      /\ ended \in [SessionId -> Nat]
  BY DEF TypeOK
<1>1. ASSUME live' \subseteq live, created' = created, ended' = ended PROVE Announced'
  BY <1>0, <1>1
<1>2. ASSUME NEW removed, removed \subseteq live, live' = live \ removed,
             created' = created, Announce(removed)
      PROVE  Announced'
  BY <1>0, <1>2 DEF Announce
<1>3. ASSUME NEW u \in UserId, NEW m \in BOOLEAN, NEW e \in SignInLogs, Create(u, m, e)
      PROVE  Announced'
  <2>1. PICK s \in SessionId \ created : /\ created' = created \cup {s}
                                         /\ live' = live \cup {s}
                                         /\ ended' = ended
    BY <1>3 DEF Create
  <2> QED BY <1>0, <2>1
<1>4. ASSUME NEW r \in Request, Verify(r) PROVE Announced'
  BY <1>0, <1>1, <1>4
     DEF Verify, Read, FindExpired, AnswerAsRead, FindDue, Touch, TouchNothing, Drop
<1>5. ASSUME NEW r \in Request, Elevate(r) \/ Respond(r) PROVE Announced'
  BY <1>0, <1>1, <1>5 DEF Elevate, BeginElevate, CommitElevate, ElevateNothing, Respond
<1>6. ASSUME NEW r \in Request, SignOut(r) PROVE Announced'
  BY <1>2, <1>6 DEF SignOut, DeletedById
<1>7. ASSUME NEW r \in Request, NEW s \in SessionId, Revoke(r, s) PROVE Announced'
  BY <1>2, <1>7 DEF Revoke, DeletedById
<1>8. ASSUME NEW r \in Request, RevokeOthers(r) PROVE Announced'
  BY <1>1, <1>8 DEF RevokeOthers
<1>9. ASSUME \/ Tick \/ DeleteExpired \/ UNCHANGED vars \/ \E u \in UserId : RevokeAll(u)
      PROVE  Announced'
  BY <1>1, <1>9 DEF Tick, DeleteExpired, vars, RevokeAll
<1> QED BY <1>3, <1>4, <1>5, <1>6, <1>7, <1>8, <1>9 DEF Next

\* A session's single end is announced once at most, whoever races whom to it,
\* and never for a row that is still there.
THEOREM EndsAnnouncedOnce == Spec => []EndAnnouncedOnce
<1>1. Init => Announced
  BY DEF Init, Announced, EndAnnouncedOnce
<1>2. TypeOK /\ Announced /\ [Next]_vars => Announced'
  BY AnnouncedStep
<1>3. Announced => EndAnnouncedOnce
  BY DEF Announced
<1> QED BY <1>1, <1>2, <1>3, TypeCorrect, PTL DEF Spec
-----------------------------------------------------------------------------
(* The cookie cache: what its snapshots and tokens are of *)

\* What a session's value says of whose it is: its token was handed out for
\* that row, and the row is the same person's.
IsOf(s, session) ==
    /\ holder[session.token] = s
    /\ s \in created
    /\ row[s].userId = session.userId

\* A snapshot says it of its session, and expires with the session's end and
\* with its refresh.
Clamped(snapshot) ==
    /\ snapshot.expiresAt <= snapshot.session.expiresAt
    /\ snapshot.expiresAt <= RefreshDueAt(snapshot.session)

Honest(snapshot) == IsOf(snapshot.id, snapshot.session) /\ Clamped(snapshot)

Holding == {r \in Request : req[r].at \in {"read", "touch", "held", "elevate"}}

\* Rows, requests, cookies, and the snapshots on their way say it alike.
AllAreOf ==
    /\ \A s \in live : IsOf(s, row[s])
    /\ \A r \in Holding : IsOf(req[r].id, req[r].session)
    /\ \A b \in Browser : jar[b].snapshot # None => Honest(jar[b].snapshot)
    /\ \A r \in Request : call[r].sets # None =>
         /\ Honest(call[r].sets)
         /\ ~Idle(r)
         /\ call[r].sets.id = req[r].id

\* A token that a step-up is about to install was never handed out, and neither
\* was one that is not generated yet.
NextsAreNew ==
    /\ \A r \in Elevating : req[r].next \in minted /\ holder[req[r].next] = None
    /\ \A r, q \in Elevating : req[r].next = req[q].next => r = q
    /\ \A t \in Token \ minted : holder[t] = None

\* A request under way is of a browser.
Attached == \A r \in Request : Idle(r) \/ call[r].browser \in Browser

\* What a browser was told is over is over in the table, and neither its cookies
\* nor a request of it that is under way say otherwise.
ToldIsOver ==
    \A b \in Browser, s \in SessionId : <<b, s>> \in told =>
        /\ s \in created \ live
        /\ jar[b].snapshot # None => jar[b].snapshot.id # s
        /\ \A r \in Request : call[r].browser = b /\ ~Idle(r) => req[r].id # s

CacheTyped == TypeOK /\ CacheTypeOK /\ Attached

CacheInv == CacheTyped /\ AllAreOf /\ NextsAreNew /\ ToldIsOver

-----------------------------------------------------------------------------
(* The cache's types *)

\* A snapshot is written of the session it is given, and is clamped.
LEMMA WrittenIsClamped ==
    ASSUME now \in Nat, NEW s \in SessionId, NEW x \in Session
    PROVE  /\ Written(s, x) \in Snapshot \cup {None}
           /\ Written(s, x) # None =>
                /\ Written(s, x).id = s
                /\ Written(s, x).session = x
                /\ Clamped(Written(s, x))
<1>1. /\ x.expiresAt \in Nat /\ GrantedLifetime(x) \in Nat
      /\ UpdateAge \in Nat /\ MaxAge \in Nat
  BY LifetimeIsTyped, LifetimesArePositive, CacheIsEnabled DEF Session
<1>2. RefreshDueAt(x) \in Int
  BY <1>1 DEF RefreshDueAt
<1>3. /\ CacheExpiry(x) \in Int /\ CacheExpiry(x) <= x.expiresAt
      /\ CacheExpiry(x) <= RefreshDueAt(x)
  BY <1>1, <1>2 DEF CacheExpiry, Earliest
<1>4. CacheExpiry(x) > now => CacheExpiry(x) \in Nat
  BY <1>3
<1>5. CASE CacheExpiry(x) > now
  BY <1>3, <1>4, <1>5 DEF Written, Snapshot, Clamped
<1>6. CASE ~(CacheExpiry(x) > now)
  BY <1>6 DEF Written
<1> QED BY <1>5, <1>6

LEMMA CacheSentinelsAreTyped ==
    /\ NoCall \in Call /\ NoCall.sets = None /\ NoCall.browser = None
    /\ NoCookies \in Jar /\ NoCookies.snapshot = None
BY DEF NoCall, Call, NoCookies, Jar

\* What the middleware's part of the answer sets is a pair of cookies.
LEMMA AnsweredIsTyped ==
    ASSUME CacheTyped, NEW r \in Request, ~Idle(r)
    PROVE  /\ call[r].browser \in Browser
           /\ Answered(r) \in Jar
           /\ Answered(r).snapshot = IF call[r].sets # None THEN call[r].sets
                                     ELSE jar[call[r].browser].snapshot
<1>1. /\ call[r].browser \in Browser /\ call[r] \in Call /\ req[r] \in RequestState
      /\ jar[call[r].browser] \in Jar
  BY DEF CacheTyped, Attached, CacheTypeOK, TypeOK
<1> QED BY <1>1 DEF Answered, Jar, Call, RequestState, Session

\* The answer of a request arrives at its browser and the request is over.
LEMMA ArrivingIsTyped ==
    ASSUME CacheTyped, NEW r \in Request, ~Idle(r), NEW cookies \in Jar,
           Arrives(r, cookies), req' = [req EXCEPT ![r] = NoRequest]
    PROVE  /\ jar' \in [Browser -> Jar] /\ call' \in [Request -> Call] /\ Attached'
<1>1. NoRequest.at = "idle"
  BY DEF NoRequest
<1> QED
  BY <1>1, CacheSentinelsAreTyped
     DEF Arrives, CacheTyped, CacheTypeOK, TypeOK, Attached, Idle

\* Whatever a browser is told is of a session.
LEMMA TellingIsTyped ==
    ASSUME CacheTyped, NEW r \in Request, ~Idle(r), NEW ids \in SUBSET SessionId,
           IsTold(r, ids)
    PROVE  told' \subseteq Browser \X SessionId
BY DEF IsTold, CacheTyped, CacheTypeOK, Attached

\* The steps of Sessions among the cache's, and the two that are not.
LEMMA CacheTypeOfSessions ==
    ASSUME CacheTyped, [CacheNext]_allVars
    PROVE  TypeOK'
<1> SUFFICES ASSUME CacheNext PROVE TypeOK'
  BY NextTyped DEF allVars, vars, CacheTyped, TypeOK
<1>0. ASSUME [Next]_vars PROVE TypeOK'
  BY <1>0, NextTyped DEF CacheTyped
<1>1. CASE Elsewhere
  BY <1>0, <1>1 DEF Elsewhere, Next
<1>2. ASSUME NEW b \in Browser, NEW u \in UserId, ResetPassword(b, u) PROVE TypeOK'
  BY <1>0, <1>2 DEF ResetPassword, Next
<1>3. ASSUME NEW b \in Browser, ClearSnapshot(b) PROVE TypeOK'
  BY <1>0, <1>3 DEF ClearSnapshot
<1>4. ASSUME NEW b \in Browser, NEW u \in UserId, NEW m \in BOOLEAN, NEW e \in SignInLogs,
             SignIn(b, u, m, e)
      PROVE  TypeOK'
  BY <1>0, <1>4 DEF SignIn, Next
<1>5. ASSUME NEW r \in Request, Serve(r) PROVE TypeOK'
  <2>1. ASSUME NEW b \in Browser, ReadCache(r, b) PROVE TypeOK'
    <3>1. /\ jar[b].token \in Token /\ jar[b].snapshot.id \in SessionId
          /\ jar[b].snapshot.session \in Session
      BY <2>1 DEF ReadCache, Hit, CacheTyped, CacheTypeOK, Jar, Snapshot
    <3>2. Holds(jar[b].token, jar[b].snapshot.id, jar[b].snapshot.session) \in RequestState
      BY <3>1, HoldIsTyped
    <3> QED BY <2>1, <3>2 DEF ReadCache, CacheTyped, TypeOK
  <2>2. ASSUME NEW b \in Browser, NEW cacheable \in BOOLEAN, ReadRow(r, b, cacheable)
        PROVE  TypeOK'
    <3>1. Read(r, jar[b].token) /\ jar[b].token \in Token
      BY <2>2 DEF ReadRow, CacheTyped, CacheTypeOK, Jar
    <3>2. PICK s \in live : req' = [req EXCEPT ![r] = At("read", jar[b].token, s, row[s])]
      BY <3>1 DEF Read
    <3>3. At("read", jar[b].token, s, row[s]) \in RequestState
      BY <3>1, HoldIsTyped DEF CacheTyped, TypeOK
    <3> QED BY <3>1, <3>2, <3>3 DEF Read, CacheTyped, TypeOK
  <2>3. CASE VerifyRow(r)
    BY <1>0, <2>3 DEF VerifyRow, Next, Verify
  <2>4. CASE Answer(r) \/ Lost(r) \/ UpdateUser(r)
    BY <1>0, <2>4 DEF Answer, Lost, UpdateUser, Next
  <2>5. ASSUME NEW e \in StepUps, Reauthenticate(r, e) PROVE TypeOK'
    BY <1>0, <2>5 DEF Reauthenticate, Next, Elevate
  <2>6. ASSUME NEW stamp \in 0..now, Reauthenticated(r, stamp) PROVE TypeOK'
    BY <1>0, <2>6 DEF Reauthenticated, Next, Elevate
  <2>7. CASE NotReauthenticated(r)
    BY <1>0, <2>7 DEF NotReauthenticated, Next, Elevate
  <2>8. CASE SignOutHere(r)
    BY <1>0, <2>8 DEF SignOutHere, Next
  <2>9. CASE RevokeSessions(r)
    BY <2>9, SentinelsAreTyped DEF RevokeSessions, CacheTyped, TypeOK
  <2>10. CASE RevokeOtherSessions(r)
    BY <1>0, <2>10 DEF RevokeOtherSessions, Next
  <2>11. ASSUME NEW s \in created, RevokeSession(r, s) PROVE TypeOK'
    BY <1>0, <2>11 DEF RevokeSession, Next, CacheTyped, TypeOK
  <2> QED BY <1>5, <2>1, <2>2, <2>3, <2>4, <2>5, <2>6, <2>7, <2>8, <2>9, <2>10, <2>11 DEF Serve
<1> QED BY <1>1, <1>2, <1>3, <1>4, <1>5 DEF CacheNext
\* The step of a request under way keeps what its call is of.
LEMMA CallingIsTyped ==
    ASSUME CacheTyped, NEW r \in Request, NEW c \in Call, call' = [call EXCEPT ![r] = c],
           c.browser \in Browser \/ Idle(r)',
           \A q \in Request \ {r} : req'[q] = req[q]
    PROVE  call' \in [Request -> Call] /\ Attached'
BY DEF CacheTyped, CacheTypeOK, Attached, Idle

\* verify took its snapshot: of the session the request now holds.
LEMMA VerifiedIsTyped ==
    ASSUME CacheTyped, TypeOK', NEW r \in Request, ~Idle(r), now' = now,
           NEW refreshed \in BOOLEAN, Verified(r, refreshed),
           \A q \in Request \ {r} : req'[q] = req[q]
    PROVE  call' \in [Request -> Call] /\ Attached'
<1> DEFINE w == Written(req'[r].id, req'[r].session)
           c == [call[r] EXCEPT !.refreshed = refreshed,
                                !.sets = IF call[r].cacheable THEN w ELSE None]
<1>1. w \in Snapshot \cup {None}
  BY WrittenIsClamped DEF CacheTyped, TypeOK, RequestState
<1>2. call[r] \in Call /\ call[r].browser \in Browser
  BY DEF CacheTyped, CacheTypeOK, Attached
<1> HIDE DEF w
<1>3. c \in Call /\ c.browser = call[r].browser
  BY <1>1, <1>2 DEF Call
<1>4. call' = [call EXCEPT ![r] = c]
  BY <1>2 DEF Verified, w, CacheTyped, CacheTypeOK
<1> HIDE DEF c
<1> QED BY <1>2, <1>3, <1>4, CallingIsTyped

LEMMA VerifyRowTyped ==
    ASSUME CacheTyped, TypeOK', NEW r \in Request, VerifyRow(r)
    PROVE  CacheTypeOK' /\ Attached'
<1> USE DEF CacheTyped, CacheTypeOK
<1>0. NoRequest.at = "idle"
  BY DEF NoRequest
<1>1. UNCHANGED <<jar, holder, told>>
  BY DEF VerifyRow
<1>2. CASE AnswerAsRead(r) /\ Verified(r, FALSE)
  <2>1. ~Idle(r) /\ now' = now /\ \A q \in Request \ {r} : req'[q] = req[q]
    BY <1>2 DEF AnswerAsRead, Idle, TypeOK
  <2> QED BY <1>1, <1>2, <2>1, VerifiedIsTyped
<1>3. CASE Touch(r) /\ Verified(r, TRUE)
  <2>1. ~Idle(r) /\ now' = now /\ \A q \in Request \ {r} : req'[q] = req[q]
    BY <1>3 DEF Touch, Idle, TypeOK
  <2> QED BY <1>1, <1>3, <2>1, VerifiedIsTyped
<1>4. CASE (FindDue(r) \/ FindExpired(r)) /\ UNCHANGED call
  <2>1. ~Idle(r) /\ \A q \in Request \ {r} : req'[q] = req[q]
    BY <1>4 DEF FindDue, FindExpired, Idle, TypeOK
  <2> QED BY <1>1, <1>4, <2>1 DEF Attached, Idle
<1>5. CASE (TouchNothing(r) \/ Drop(r)) /\ call' = [call EXCEPT ![r] = NoCall]
  <2>1. req' = [req EXCEPT ![r] = NoRequest]
    BY <1>5 DEF TouchNothing, Drop
  <2>2. Idle(r)' /\ \A q \in Request \ {r} : req'[q] = req[q]
    BY <1>0, <2>1 DEF Idle, TypeOK
  <2> QED BY <1>1, <1>5, <2>2, CacheSentinelsAreTyped, CallingIsTyped
<1> QED BY <1>2, <1>3, <1>4, <1>5 DEF VerifyRow

LEMMA ServeTyped ==
    ASSUME CacheTyped, TypeOK', NEW r \in Request, Serve(r)
    PROVE  CacheTypeOK' /\ Attached'
<1> USE DEF CacheTyped, CacheTypeOK
<1>1. ASSUME NEW b \in Browser, ReadCache(r, b) PROVE CacheTypeOK' /\ Attached'
  <2>1. jar[b].snapshot \in Snapshot
    BY <1>1 DEF ReadCache, Hit, Jar
  <2> DEFINE c == [NoCall EXCEPT !.browser = b, !.cacheable = TRUE]
  <2>2. c \in Call /\ c.browser = b
    BY <2>1, CacheSentinelsAreTyped DEF Call, Snapshot
  <2>3. call' = [call EXCEPT ![r] = c] /\ \A q \in Request \ {r} : req'[q] = req[q]
    BY <1>1 DEF ReadCache, TypeOK
  <2> HIDE DEF c
  <2> QED BY <1>1, <2>2, <2>3, CallingIsTyped DEF ReadCache
<1>2. ASSUME NEW b \in Browser, NEW cacheable \in BOOLEAN, ReadRow(r, b, cacheable)
      PROVE  CacheTypeOK' /\ Attached'
  <2> DEFINE c == [NoCall EXCEPT !.browser = b, !.cacheable = cacheable]
  <2>1. c \in Call /\ c.browser = b
    BY CacheSentinelsAreTyped DEF Call
  <2>2. call' = [call EXCEPT ![r] = c] /\ \A q \in Request \ {r} : req'[q] = req[q]
    BY <1>2 DEF ReadRow, Read, TypeOK
  <2> HIDE DEF c
  <2> QED BY <1>2, <2>1, <2>2, CallingIsTyped DEF ReadRow
<1>3. CASE VerifyRow(r)
  BY <1>3, VerifyRowTyped
<1>4. CASE Answer(r)
  <2>1. ~Idle(r) /\ req' = [req EXCEPT ![r] = NoRequest]
    BY <1>4 DEF Answer, Respond, Idle
  <2> QED BY <1>4, <2>1, AnsweredIsTyped, ArrivingIsTyped DEF Answer
<1>5. CASE Lost(r)
  <2>1. Idle(r)' /\ \A q \in Request \ {r} : req'[q] = req[q]
    BY <1>5 DEF Lost, Respond, Idle, TypeOK, NoRequest
  <2> QED BY <1>5, <2>1, CacheSentinelsAreTyped, CallingIsTyped DEF Lost
<1>6. CASE UpdateUser(r)
  <2>1. ~Idle(r) /\ req' = [req EXCEPT ![r] = NoRequest]
    BY <1>6 DEF UpdateUser, Respond, Idle
  <2> DEFINE w == Written(req[r].id, req[r].session)
             cookies == [Answered(r) EXCEPT !.snapshot = IF w # None THEN w ELSE @]
  <2>2. req[r].id \in SessionId /\ req[r].session \in Session
    BY DEF TypeOK, RequestState
  <2>3. w \in Snapshot \cup {None}
    BY <2>2, WrittenIsClamped DEF TypeOK
  <2> HIDE DEF w
  <2>4. cookies \in Jar
    BY <2>1, <2>3, AnsweredIsTyped DEF Jar
  <2>5. Arrives(r, cookies)
    BY <1>6 DEF UpdateUser, w
  <2> HIDE DEF cookies
  <2> QED BY <1>6, <2>1, <2>4, <2>5, ArrivingIsTyped DEF UpdateUser
<1>7. ASSUME NEW e \in StepUps, Reauthenticate(r, e) PROVE CacheTypeOK' /\ Attached'
  <2>1. ~Idle(r) /\ \A q \in Request \ {r} : req'[q] = req[q]
    BY <1>7 DEF Reauthenticate, BeginElevate, Idle, TypeOK
  <2> QED BY <1>7, <2>1 DEF Reauthenticate, cacheVars, Attached, Idle
<1>8. ASSUME NEW stamp \in 0..now, Reauthenticated(r, stamp) PROVE CacheTypeOK' /\ Attached'
  <2> DEFINE w == Written(req'[r].id, req'[r].session)
             c == [call[r] EXCEPT !.elevated = TRUE, !.sets = w]
  <2>1. w \in Snapshot \cup {None}
    BY WrittenIsClamped DEF TypeOK, RequestState
  <2>2. ~Idle(r) /\ \A q \in Request \ {r} : req'[q] = req[q]
    BY <1>8 DEF Reauthenticated, CommitElevate, Idle, TypeOK
  <2>3. call[r] \in Call /\ call[r].browser \in Browser
    BY <2>2 DEF Attached
  <2> HIDE DEF w
  <2>4. c \in Call /\ c.browser = call[r].browser
    BY <2>1, <2>3 DEF Call
  <2>5. call' = [call EXCEPT ![r] = c]
    BY <1>8, <2>3 DEF Reauthenticated, w
  <2> HIDE DEF c
  <2>6. req[r].id \in SessionId /\ req[r].next \in Token
    BY DEF TypeOK, RequestState
  <2>7. holder' \in [Token -> SessionId \cup {None}]
    BY <1>8, <2>6 DEF Reauthenticated
  <2> QED BY <1>8, <2>2, <2>3, <2>4, <2>5, <2>7, CallingIsTyped DEF Reauthenticated
<1>9. CASE NotReauthenticated(r)
  <2>1. ~Idle(r) /\ req' = [req EXCEPT ![r] = NoRequest]
    BY <1>9 DEF NotReauthenticated, ElevateNothing, Idle
  <2> QED BY <1>9, <2>1, AnsweredIsTyped, ArrivingIsTyped DEF NotReauthenticated
<1>10. CASE SignOutHere(r)
  <2>1. ~Idle(r) /\ req' = [req EXCEPT ![r] = NoRequest]
    BY <1>10 DEF SignOutHere, SignOut, Idle
  <2>2. {req[r].id} \in SUBSET SessionId
    BY DEF TypeOK, RequestState
  <2> QED
    BY <1>10, <2>1, <2>2, CacheSentinelsAreTyped, ArrivingIsTyped, TellingIsTyped
       DEF SignOutHere
<1>11. CASE RevokeSessions(r)
  <2>1. ~Idle(r) /\ req' = [req EXCEPT ![r] = NoRequest]
    BY <1>11 DEF RevokeSessions, Idle
  <2>2. {req[r].id} \in SUBSET SessionId
    BY DEF TypeOK, RequestState
  <2> QED
    BY <1>11, <2>1, <2>2, CacheSentinelsAreTyped, ArrivingIsTyped, TellingIsTyped
       DEF RevokeSessions
<1>12. CASE RevokeOtherSessions(r)
  <2>1. ~Idle(r) /\ req' = [req EXCEPT ![r] = NoRequest]
    BY <1>12 DEF RevokeOtherSessions, RevokeOthers, Idle
  <2> QED BY <1>12, <2>1, AnsweredIsTyped, ArrivingIsTyped DEF RevokeOtherSessions
<1>13. ASSUME NEW s \in created, RevokeSession(r, s) PROVE CacheTypeOK' /\ Attached'
  <2> DEFINE removed == DeletedById(s, req[r].session.userId)
  <2>1. ~Idle(r) /\ req' = [req EXCEPT ![r] = NoRequest]
    BY <1>13 DEF RevokeSession, Revoke, Idle
  <2>2. removed \cap {req[r].id} \in SUBSET SessionId
    BY DEF TypeOK, RequestState
  <2>3. AfterRevoke(r, s, removed) \in Jar
    BY <2>1, AnsweredIsTyped, CacheSentinelsAreTyped DEF AfterRevoke
  <2>4. Arrives(r, AfterRevoke(r, s, removed)) /\ IsTold(r, removed \cap {req[r].id})
    BY <1>13 DEF RevokeSession
  <2> HIDE DEF removed
  <2> QED
    BY <1>13, <2>1, <2>2, <2>3, <2>4, ArrivingIsTyped, TellingIsTyped DEF RevokeSession
<1> QED
  BY <1>1, <1>2, <1>3, <1>4, <1>5, <1>6, <1>7, <1>8, <1>9, <1>10, <1>11, <1>12, <1>13
     DEF Serve

LEMMA CacheNextTyped ==
    ASSUME CacheTyped, [CacheNext]_allVars
    PROVE  CacheTyped'
<1>0. TypeOK'
  BY CacheTypeOfSessions
<1> SUFFICES CacheTypeOK' /\ Attached'
  BY <1>0 DEF CacheTyped
<1> USE DEF CacheTyped, CacheTypeOK
<1>1. ASSUME req' = req, call' = call PROVE Attached'
  BY <1>1 DEF Attached, Idle
<1>2. CASE UNCHANGED allVars
  BY <1>1, <1>2 DEF allVars, vars, cacheVars
<1>3. CASE Elsewhere
  BY <1>1, <1>3 DEF Elsewhere, cacheVars, Tick, DeleteExpired, RevokeAll
<1>4. ASSUME NEW b \in Browser, NEW u \in UserId, ResetPassword(b, u)
      PROVE  CacheTypeOK' /\ Attached'
  BY <1>1, <1>4, CacheSentinelsAreTyped DEF ResetPassword, RevokeAll
<1>5. ASSUME NEW b \in Browser, ClearSnapshot(b) PROVE CacheTypeOK' /\ Attached'
  <2>1. [jar[b] EXCEPT !.snapshot = None] \in Jar
    BY DEF Jar
  <2> QED BY <1>1, <1>5, <2>1 DEF ClearSnapshot, vars
<1>6. ASSUME NEW b \in Browser, NEW u \in UserId, NEW m \in BOOLEAN, NEW e \in SignInLogs,
             SignIn(b, u, m, e)
      PROVE  CacheTypeOK' /\ Attached'
  <2>1. PICK t \in minted' \ minted, s \in created' \ created :
          /\ jar' = [jar EXCEPT ![b].token = t]
          /\ holder' = [holder EXCEPT ![t] = s]
    BY <1>6 DEF SignIn
  <2>2. t \in Token /\ s \in SessionId
    BY <1>0 DEF TypeOK
  <2>3. [jar[b] EXCEPT !.token = t] \in Jar
    BY <2>2 DEF Jar
  <2> QED BY <1>1, <1>6, <2>1, <2>2, <2>3 DEF SignIn, Create
<1>7. ASSUME NEW r \in Request, Serve(r) PROVE CacheTypeOK' /\ Attached'
  BY <1>0, <1>7, ServeTyped
<1> QED BY <1>2, <1>3, <1>4, <1>5, <1>6, <1>7 DEF CacheNext

-----------------------------------------------------------------------------
(* The cache: what a step leaves as it was *)

\* Every step of the cache signs in, refreshes, is one of the two halves of a
\* step-up, or is quiet; and it hands out a token only when it signs in or
\* completes a step-up.
LEMMA CacheSummary ==
    ASSUME CacheTyped, [CacheNext]_allVars
    PROVE  \/ \E b \in Browser, u \in UserId, m \in BOOLEAN, e \in SignInLogs : SignIn(b, u, m, e)
           \/ \E r \in Request : Touch(r) /\ UNCHANGED holder
           \/ \E r \in Request, e \in StepUps : BeginElevate(r, e) /\ UNCHANGED holder
           \/ \E r \in Request, stamp \in 0..now : Reauthenticated(r, stamp)
           \/ Quiet /\ UNCHANGED holder
<1> DEFINE Inserts == \E b \in Browser, u \in UserId, m \in BOOLEAN, e \in SignInLogs :
                        SignIn(b, u, m, e)
           Refreshes == \E r \in Request : Touch(r) /\ UNCHANGED holder
           Begins == \E r \in Request, e \in StepUps : BeginElevate(r, e) /\ UNCHANGED holder
           Commits == \E r \in Request, stamp \in 0..now : Reauthenticated(r, stamp)
<1> SUFFICES ASSUME ~Inserts, ~Refreshes, ~Begins, ~Commits PROVE Quiet /\ UNCHANGED holder
  OBVIOUS
<1> USE DEF CacheTyped, TypeOK, Quiet
<1>1. CASE UNCHANGED allVars
  BY <1>1 DEF allVars, vars, cacheVars
<1>2. CASE Elsewhere
  BY <1>2 DEF Elsewhere, cacheVars, Tick, DeleteExpired, RevokeAll
<1>3. ASSUME NEW b \in Browser, NEW u \in UserId, ResetPassword(b, u)
      PROVE  Quiet /\ UNCHANGED holder
  BY <1>3 DEF ResetPassword, RevokeAll
<1>4. ASSUME NEW b \in Browser, ClearSnapshot(b) PROVE Quiet /\ UNCHANGED holder
  BY <1>4 DEF ClearSnapshot, vars
<1>5. ASSUME NEW r \in Request, Serve(r) PROVE Quiet /\ UNCHANGED holder
  <2>0. NoRequest.at = "idle"
    BY DEF NoRequest
  <2>1. ASSUME NEW b \in Browser, ReadCache(r, b) PROVE Quiet /\ UNCHANGED holder
    <3>1. Holds(jar[b].token, jar[b].snapshot.id, jar[b].snapshot.session).at = "held"
      BY DEF Holds, At, NoRequest
    <3> QED BY <2>1, <3>1 DEF ReadCache
  <2>2. ASSUME NEW b \in Browser, NEW cacheable \in BOOLEAN, ReadRow(r, b, cacheable)
        PROVE  Quiet /\ UNCHANGED holder
    <3>1. PICK s \in live : req' = [req EXCEPT ![r] = At("read", jar[b].token, s, row[s])]
      BY <2>2 DEF ReadRow, Read
    <3>2. At("read", jar[b].token, s, row[s]).at = "read"
      BY DEF At, NoRequest
    <3> QED BY <2>2, <3>1, <3>2 DEF ReadRow, Read
  <2>3. CASE VerifyRow(r)
    <3>1. CASE AnswerAsRead(r)
      BY <2>3, <3>1 DEF VerifyRow, AnswerAsRead, RequestState
    <3>2. CASE FindDue(r)
      BY <2>3, <3>2 DEF VerifyRow, FindDue, RequestState
    <3>3. CASE FindExpired(r)
      BY <2>3, <3>3 DEF VerifyRow, FindExpired, NoRequest
    <3>4. CASE TouchNothing(r) \/ Drop(r)
      BY <2>0, <2>3, <3>4 DEF VerifyRow, TouchNothing, Drop
    <3>5. CASE Touch(r)
      BY <2>3, <3>5 DEF VerifyRow
    <3> QED BY <2>3, <3>1, <3>2, <3>3, <3>4, <3>5 DEF VerifyRow
  <2>4. CASE Answer(r) \/ Lost(r) \/ UpdateUser(r)
    BY <2>0, <2>4 DEF Answer, Lost, UpdateUser, Respond
  <2>5. ASSUME NEW e \in StepUps, Reauthenticate(r, e) PROVE Quiet /\ UNCHANGED holder
    BY <2>5 DEF Reauthenticate, cacheVars
  <2>6. CASE NotReauthenticated(r)
    BY <2>0, <2>6 DEF NotReauthenticated, ElevateNothing
  <2>7. CASE SignOutHere(r)
    BY <2>0, <2>7 DEF SignOutHere, SignOut
  <2>8. CASE RevokeSessions(r)
    BY <2>0, <2>8 DEF RevokeSessions
  <2>9. CASE RevokeOtherSessions(r)
    BY <2>0, <2>9 DEF RevokeOtherSessions, RevokeOthers
  <2>10. ASSUME NEW s \in created, RevokeSession(r, s) PROVE Quiet /\ UNCHANGED holder
    BY <2>0, <2>10 DEF RevokeSession, Revoke
  <2> QED BY <1>5, <2>1, <2>2, <2>3, <2>4, <2>5, <2>6, <2>7, <2>8, <2>9, <2>10 DEF Serve
<1> QED BY <1>1, <1>2, <1>3, <1>4, <1>5 DEF CacheNext

\* Whose a row is, and which row a token was handed out for, never changes; and
\* no row comes back.
Keeps ==
    /\ \A s \in created : /\ s \in created' /\ row'[s].userId = row[s].userId
                          /\ s \in live' => s \in live
    /\ \A t \in Token : holder[t] \in SessionId => holder'[t] = holder[t]

LEMMA CacheKeeps ==
    ASSUME CacheTyped, NextsAreNew, [CacheNext]_allVars
    PROVE  Keeps
<1> USE DEF CacheTyped, CacheTypeOK, TypeOK, Keeps
<1>1. ASSUME NEW b \in Browser, NEW u \in UserId, NEW m \in BOOLEAN, NEW e \in SignInLogs,
             SignIn(b, u, m, e)
      PROVE  Keeps
  <2>1. PICK t \in minted' \ minted, s \in created' \ created :
          holder' = [holder EXCEPT ![t] = s]
    BY <1>1 DEF SignIn
  <2>2. PICK s0 \in SessionId \ created, t0 \in Token \ minted :
          /\ created' = created \cup {s0} /\ live' = live \cup {s0}
          /\ minted' = minted \cup {t0}
          /\ \A x \in created : row'[x] = row[x]
    BY <1>1 DEF SignIn, Create
  <2>3. t \in Token \ minted
    BY <2>1, <2>2
  <2>4. holder[t] \notin SessionId
    BY <2>3, NoneIsNothing DEF NextsAreNew
  <2> QED BY <2>1, <2>2, <2>4
<1>2. ASSUME NEW r \in Request, Touch(r), UNCHANGED holder PROVE Keeps
  BY <1>2 DEF Touch, Touched, Session
<1>3. ASSUME NEW r \in Request, NEW e \in StepUps, BeginElevate(r, e), UNCHANGED holder
      PROVE  Keeps
  BY <1>3 DEF BeginElevate
<1>4. ASSUME NEW r \in Request, NEW stamp \in 0..now, Reauthenticated(r, stamp) PROVE Keeps
  <2>1. CommitElevate(r, stamp) /\ holder' = [holder EXCEPT ![req[r].next] = req[r].id]
    BY <1>4 DEF Reauthenticated
  <2>2. holder[req[r].next] \notin SessionId
    BY <2>1, NoneIsNothing DEF NextsAreNew, Elevating, CommitElevate
  <2>3. Elevated(req[r].id, r, stamp).userId = row[req[r].id].userId
    BY DEF Elevated, Session, RequestState
  <2> QED BY <2>1, <2>2, <2>3 DEF CommitElevate, RequestState
<1>5. CASE Quiet /\ UNCHANGED holder
  BY <1>5 DEF Quiet
<1> QED BY <1>1, <1>2, <1>3, <1>4, <1>5, CacheSummary

\* What a session or a snapshot says of whose it is, after the step.
StillOf(s, session) ==
    /\ holder'[session.token] = s
    /\ s \in created'
    /\ row'[s].userId = session.userId

StillHonest(snapshot) == StillOf(snapshot.id, snapshot.session) /\ Clamped(snapshot)

LEMMA StaysOf ==
    ASSUME Keeps, NEW s \in SessionId, NEW x \in Session, IsOf(s, x)
    PROVE  StillOf(s, x)
BY DEF Keeps, IsOf, StillOf, Session

LEMMA StaysHonest ==
    ASSUME Keeps, NEW y \in Snapshot, Honest(y)
    PROVE  StillHonest(y)
BY StaysOf DEF Honest, StillHonest, Snapshot

\* The tokens of the step-ups under way, and those not generated yet, stay new.
LEMMA NextsStep ==
    ASSUME CacheTyped, TypeOK', NextsAreNew, [CacheNext]_allVars
    PROVE  NextsAreNew'
<1> USE DEF CacheTyped, CacheTypeOK, TypeOK, NextsAreNew, Elevating
<1>1. ASSUME NEW b \in Browser, NEW u \in UserId, NEW m \in BOOLEAN, NEW e \in SignInLogs,
             SignIn(b, u, m, e)
      PROVE  NextsAreNew'
  <2>1. PICK t \in minted' \ minted, s \in created' \ created :
          holder' = [holder EXCEPT ![t] = s]
    BY <1>1 DEF SignIn
  <2>2. req' = req /\ minted \subseteq minted'
    BY <1>1 DEF SignIn, Create
  <2> QED BY <2>1, <2>2
<1>2. ASSUME NEW r \in Request, Touch(r), UNCHANGED holder PROVE NextsAreNew'
  <2>1. Holds(req[r].token, req[r].id, Touched(req[r].id, r)).at = "held"
    BY DEF Holds, At, NoRequest
  <2> QED BY <1>2, <2>1 DEF Touch
<1>3. ASSUME NEW r \in Request, NEW e \in StepUps, BeginElevate(r, e), UNCHANGED holder
      PROVE  NextsAreNew'
  <2>1. PICK t \in Token \ minted :
          /\ minted' = minted \cup {t}
          /\ req' = [req EXCEPT ![r] = [@ EXCEPT !.at = "elevate", !.next = t,
                                                 !.began = now, !.evidence = e]]
    BY <1>3 DEF BeginElevate
  <2>2. req'[r].next = t /\ \A q \in Request \ {r} : req'[q] = req[q]
    BY <2>1 DEF RequestState
  <2> QED BY <1>3, <2>1, <2>2
<1>4. ASSUME NEW r \in Request, NEW stamp \in 0..now, Reauthenticated(r, stamp)
      PROVE  NextsAreNew'
  <2>1. CommitElevate(r, stamp) /\ holder' = [holder EXCEPT ![req[r].next] = req[r].id]
    BY <1>4 DEF Reauthenticated
  <2>2. /\ req[r].at = "elevate" /\ minted' = minted
        /\ \A q \in Request \ {r} : req'[q] = req[q]
    BY <2>1 DEF CommitElevate
  <2>3. req'[r].at = "held"
    BY <2>1 DEF CommitElevate, Holds, At, NoRequest
  <2> QED BY <2>1, <2>2, <2>3
<1>5. CASE Quiet /\ UNCHANGED holder
  BY <1>5 DEF Quiet
<1> QED BY <1>1, <1>2, <1>3, <1>4, <1>5, CacheSummary

\* The rows of the table stay what their tokens were handed out for.
LEMMA RowsStep ==
    ASSUME CacheTyped, CacheTyped', AllAreOf, Keeps, [CacheNext]_allVars,
           NEW x \in SessionId, x \in live'
    PROVE  StillOf(x, row'[x])
<1> USE DEF CacheTyped, CacheTypeOK, TypeOK
<1>0. ASSUME x \in live, row'[x].token = row[x].token PROVE StillOf(x, row'[x])
  <2>1. /\ holder[row[x].token] = x /\ row[x].token \in Token /\ x \in created
    BY <1>0 DEF AllAreOf, IsOf, Session
  <2> QED BY <1>0, <2>1 DEF Keeps, StillOf
<1>1. ASSUME NEW b \in Browser, NEW u \in UserId, NEW m \in BOOLEAN, NEW e \in SignInLogs,
             SignIn(b, u, m, e)
      PROVE  StillOf(x, row'[x])
  <2>1. PICK t \in minted' \ minted, s \in created' \ created :
          holder' = [holder EXCEPT ![t] = s]
    BY <1>1 DEF SignIn
  <2>2. PICK s0 \in SessionId \ created, t0 \in Token \ minted :
          /\ created' = created \cup {s0} /\ live' = live \cup {s0}
          /\ minted' = minted \cup {t0}
          /\ \E log : row' = [row EXCEPT ![s0] =
               [token |-> t0, userId |-> u,
                expiresAt |-> now + Ttl(m), updatedAt |-> now,
                authenticatedAt |-> now, rememberMe |-> m,
                methods |-> log, aal |-> DeriveAal(Entries(log))]]
    BY <1>1 DEF SignIn, Create
  <2>3. s = s0 /\ t = t0
    BY <2>1, <2>2
  <2>4. CASE x = s0
    <3>1. row'[s0].token = t0
      BY <2>2
    <3> QED BY <2>1, <2>2, <2>3, <2>4, <3>1 DEF StillOf
  <2>5. CASE x \in live
    BY <1>0, <2>2, <2>5
  <2> QED BY <2>2, <2>4, <2>5
<1>2. ASSUME NEW r \in Request, Touch(r) PROVE StillOf(x, row'[x])
  <2>1. Touched(req[r].id, r).token = row[req[r].id].token /\ x \in live
    BY <1>2 DEF Touched, Touch, Session, RequestState
  <2> QED BY <1>0, <1>2, <2>1 DEF Touch
<1>3. ASSUME NEW r \in Request, NEW stamp \in 0..now, Reauthenticated(r, stamp)
      PROVE  StillOf(x, row'[x])
  <2>1. CommitElevate(r, stamp) /\ holder' = [holder EXCEPT ![req[r].next] = req[r].id]
    BY <1>3 DEF Reauthenticated
  <2>2. x \in live /\ req[r].id \in SessionId /\ req[r].next \in Token
    BY <2>1 DEF CommitElevate, RequestState
  <2>3. CASE x = req[r].id
    <3>1. Elevated(req[r].id, r, stamp).token = req[r].next
      BY <2>2 DEF Elevated, Session
    <3> QED BY <2>1, <2>2, <2>3, <3>1 DEF CommitElevate, StillOf
  <2>4. CASE x # req[r].id
    BY <1>0, <2>1, <2>2, <2>4 DEF CommitElevate
  <2> QED BY <2>3, <2>4
<1>4. CASE Quiet \/ \E r \in Request, e \in StepUps : BeginElevate(r, e)
  BY <1>0, <1>4 DEF Quiet, BeginElevate
<1> QED BY <1>1, <1>2, <1>3, <1>4, CacheSummary

\* A session that a request holds is written honestly.
LEMMA WrittenIsHonest ==
    ASSUME CacheTyped, AllAreOf, NEW r \in Holding
    PROVE  LET w == Written(req[r].id, req[r].session) IN
           /\ w \in Snapshot \cup {None}
           /\ w # None => Honest(w) /\ w.id = req[r].id
<1>1. /\ req[r].id \in SessionId /\ req[r].session \in Session /\ now \in Nat
      /\ IsOf(req[r].id, req[r].session)
  BY DEF CacheTyped, TypeOK, RequestState, Holding, AllAreOf
<1> QED BY <1>1, WrittenIsClamped DEF Honest

-----------------------------------------------------------------------------
(* The cache: the invariant's step *)

\* What every step keeps of whose the rows, the other requests, and the
\* snapshots that it does not set are.
LEMMA OthersStay ==
    ASSUME CacheInv, CacheTyped', Keeps, [CacheNext]_allVars
    PROVE  /\ \A s \in live' : StillOf(s, row'[s])
           /\ \A q \in Holding : StillOf(req[q].id, req[q].session)
           /\ \A b \in Browser : jar[b].snapshot # None => StillHonest(jar[b].snapshot)
           /\ \A q \in Request : call[q].sets # None => StillHonest(call[q].sets)
           /\ \A b \in Browser, s \in SessionId : <<b, s>> \in told => s \in created' \ live'
<1>1. \A s \in live' : StillOf(s, row'[s])
  BY RowsStep DEF CacheInv, CacheTyped, TypeOK
<1>2. ASSUME NEW q \in Holding PROVE StillOf(req[q].id, req[q].session)
  <2>1. /\ req[q].id \in SessionId /\ req[q].session \in Session
        /\ IsOf(req[q].id, req[q].session)
    BY DEF CacheInv, CacheTyped, TypeOK, RequestState, Holding, AllAreOf
  <2> QED BY <2>1, StaysOf
<1>3. ASSUME NEW b \in Browser, jar[b].snapshot # None PROVE StillHonest(jar[b].snapshot)
  <2>1. jar[b].snapshot \in Snapshot /\ Honest(jar[b].snapshot)
    BY <1>3 DEF CacheInv, CacheTyped, CacheTypeOK, Jar, AllAreOf
  <2> QED BY <2>1, StaysHonest
<1>4. ASSUME NEW q \in Request, call[q].sets # None PROVE StillHonest(call[q].sets)
  <2>1. call[q].sets \in Snapshot /\ Honest(call[q].sets)
    BY <1>4 DEF CacheInv, CacheTyped, CacheTypeOK, Call, AllAreOf
  <2> QED BY <2>1, StaysHonest
<1>5. \A b \in Browser, s \in SessionId : <<b, s>> \in told => s \in created' \ live'
  BY DEF CacheInv, ToldIsOver, Keeps
<1> QED BY <1>1, <1>2, <1>3, <1>4, <1>5

\* A step of no request, which takes snapshots from browsers at most.
LEMMA OutsideKeeps ==
    ASSUME CacheInv, CacheTyped', Keeps, [CacheNext]_allVars,
           req' = req, call' = call, told' = told,
           \A b \in Browser : jar'[b].snapshot \in {jar[b].snapshot, None}
    PROVE  AllAreOf' /\ ToldIsOver'
<1>1. AllAreOf'
  BY OthersStay DEF AllAreOf, Holding, IsOf, Honest, StillOf, StillHonest, CacheInv, Idle
<1>2. ToldIsOver'
  BY OthersStay DEF ToldIsOver, CacheInv, Idle
<1> QED BY <1>1, <1>2

\* A step of a request that sets no cookie yet.
LEMMA WorkingKeeps ==
    ASSUME CacheInv, CacheTyped', Keeps, [CacheNext]_allVars, NEW r \in Request,
           jar' = jar, told' = told,
           \A q \in Request \ {r} : req'[q] = req[q] /\ call'[q] = call[q],
           r \in Holding' => StillOf(req'[r].id, req'[r].session),
           call'[r].sets # None => /\ StillHonest(call'[r].sets)
                                   /\ ~Idle(r)'
                                   /\ call'[r].sets.id = req'[r].id,
           \/ Idle(r)'
           \/ ~Idle(r) /\ call'[r].browser = call[r].browser /\ req'[r].id = req[r].id
           \/ <<call'[r].browser, req'[r].id>> \notin told
    PROVE  AllAreOf' /\ ToldIsOver'
<1>1. AllAreOf'
  BY OthersStay DEF AllAreOf, Holding, IsOf, Honest, StillOf, StillHonest, CacheInv, Idle
<1>2. ToldIsOver'
  BY OthersStay DEF ToldIsOver, CacheInv, Idle
<1> QED BY <1>1, <1>2

\* The answer of a request arrives: its cookies are the browser's own, or say
\* of the request's session what it is; and if the browser is told that the
\* session is over, it is, and they have no snapshot.
LEMMA ArrivingKeeps ==
    ASSUME CacheInv, CacheTyped', Keeps, [CacheNext]_allVars,
           NEW r \in Holding, NEW cookies \in Jar,
           Arrives(r, cookies), req' = [req EXCEPT ![r] = NoRequest],
           cookies.snapshot # None =>
              \/ cookies.snapshot = jar[call[r].browser].snapshot
              \/ Honest(cookies.snapshot) /\ cookies.snapshot.id = req[r].id,
           \/ told' = told
           \/ \E ids \in SUBSET ({req[r].id} \ live') :
                IsTold(r, ids) /\ (ids # {} => cookies.snapshot = None)
    PROVE  AllAreOf' /\ ToldIsOver'
<1> DEFINE b == call[r].browser
<1>0. /\ r \in Request /\ ~Idle(r) /\ b \in Browser
      /\ req[r].id \in SessionId /\ req[r].id \in created
  BY DEF CacheInv, CacheTyped, CacheTypeOK, TypeOK, Attached, RequestState, Holding, Idle,
         AllAreOf, IsOf
<1>1. /\ Idle(r)' /\ call'[r].sets = None
      /\ \A q \in Request \ {r} : req'[q] = req[q] /\ call'[q] = call[q]
      /\ jar'[b] = cookies /\ \A c \in Browser \ {b} : jar'[c] = jar[c]
  BY <1>0 DEF Arrives, NoCall, NoRequest, Idle, CacheInv, CacheTyped, CacheTypeOK, TypeOK
<1>2. cookies.snapshot # None => StillHonest(cookies.snapshot)
  BY <1>0, OthersStay, StaysHonest DEF Jar
<1>3. AllAreOf'
  BY <1>0, <1>1, <1>2, OthersStay
     DEF AllAreOf, Holding, IsOf, Honest, StillOf, StillHonest, CacheInv, Idle
<1>4. CASE told' = told
  BY <1>0, <1>1, <1>3, <1>4, OthersStay DEF ToldIsOver, CacheInv, Idle
<1>5. ASSUME NEW ids \in SUBSET ({req[r].id} \ live'), IsTold(r, ids), told' # told,
             ids # {} => cookies.snapshot = None
      PROVE  ToldIsOver'
  <2>1. /\ told' = told \cup ({b} \X ids)
        /\ \A q \in Request \ {r} : ~Idle(q) => call[q].browser # b
    BY <1>5 DEF IsTold
  <2>2. cookies.snapshot = None
    BY <1>5, <2>1
  <2>3. req[r].id \in created'
    BY <1>0 DEF Keeps
  <2> QED
    BY <1>0, <1>1, <1>5, <2>1, <2>2, <2>3, OthersStay DEF ToldIsOver, CacheInv, Idle
<1> QED BY <1>3, <1>4, <1>5

\* The cookies that the middleware's part of an answer leaves.
LEMMA AnsweredIsHonest ==
    ASSUME CacheInv, NEW r \in Request, ~Idle(r)
    PROVE  /\ Answered(r) \in Jar
           /\ Answered(r).snapshot # None =>
                \/ Answered(r).snapshot = jar[call[r].browser].snapshot
                \/ Honest(Answered(r).snapshot) /\ Answered(r).snapshot.id = req[r].id
BY AnsweredIsTyped DEF CacheInv, AllAreOf

\* verify took its snapshot of the session that the request now holds.
LEMMA VerifiedIsHonest ==
    ASSUME CacheInv, CacheTyped', NEW r \in Request, now' = now, req'[r].at = "held",
           StillOf(req'[r].id, req'[r].session),
           NEW refreshed \in BOOLEAN, Verified(r, refreshed)
    PROVE  /\ call'[r].browser = call[r].browser
           /\ \A q \in Request \ {r} : call'[q] = call[q]
           /\ call'[r].sets # None => /\ StillHonest(call'[r].sets)
                                      /\ call'[r].sets.id = req'[r].id
<1> DEFINE w == Written(req'[r].id, req'[r].session)
<1>1. /\ req'[r].id \in SessionId /\ req'[r].session \in Session /\ now \in Nat
      /\ call \in [Request -> Call]
  BY DEF CacheInv, CacheTyped, CacheTypeOK, TypeOK, RequestState
<1>2. w # None => /\ w.id = req'[r].id /\ w.session = req'[r].session /\ Clamped(w)
  BY <1>1, WrittenIsClamped
<1>3. call' = [call EXCEPT ![r].refreshed = refreshed,
                           ![r].sets = IF call[r].cacheable THEN w ELSE None]
  BY DEF Verified
<1> HIDE DEF w
<1>4. /\ call'[r].browser = call[r].browser
      /\ call'[r].sets \in {w, None}
      /\ \A q \in Request \ {r} : call'[q] = call[q]
  BY <1>1, <1>3 DEF Call
<1> QED BY <1>2, <1>4 DEF StillHonest

LEMMA VerifyRowKeeps ==
    ASSUME CacheInv, CacheTyped', Keeps, [CacheNext]_allVars, NEW r \in Request, VerifyRow(r)
    PROVE  AllAreOf' /\ ToldIsOver'
<1>0. UNCHANGED <<jar, told>>
  BY DEF VerifyRow
<1>1. /\ req \in [Request -> RequestState] /\ call \in [Request -> Call]
      /\ row \in [SessionId -> Session] /\ NoRequest.at = "idle"
  BY DEF CacheInv, CacheTyped, CacheTypeOK, TypeOK, NoRequest
<1>2. CASE AnswerAsRead(r) /\ Verified(r, FALSE)
  <2>1. /\ ~Idle(r) /\ now' = now /\ req'[r].at = "held" /\ ~Idle(r)'
        /\ req'[r].id = req[r].id /\ req'[r].session = req[r].session
        /\ \A q \in Request \ {r} : req'[q] = req[q]
    BY <1>1, <1>2 DEF AnswerAsRead, Idle, RequestState
  <2>2. StillOf(req'[r].id, req'[r].session)
    BY <1>2, <2>1, OthersStay DEF AnswerAsRead, Holding
  <2> QED BY <1>0, <1>2, <2>1, <2>2, VerifiedIsHonest, WorkingKeeps
<1>3. CASE Touch(r) /\ Verified(r, TRUE)
  <2> DEFINE s == req[r].id
  <2>1. /\ s \in live /\ s \in SessionId /\ s \in live' /\ row'[s] = Touched(s, r)
        /\ req' = [req EXCEPT ![r] = Holds(req[r].token, s, Touched(s, r))]
        /\ ~Idle(r) /\ now' = now
    BY <1>1, <1>3 DEF Touch, RequestState, Idle
  <2>2. /\ req'[r].at = "held" /\ ~Idle(r)'
        /\ req'[r].id = s /\ req'[r].session = row'[s]
        /\ \A q \in Request \ {r} : req'[q] = req[q]
    BY <1>1, <2>1 DEF Holds, At, NoRequest, Idle
  <2>3. StillOf(req'[r].id, req'[r].session)
    BY <2>1, <2>2, OthersStay
  <2> QED BY <1>0, <1>3, <2>1, <2>2, <2>3, VerifiedIsHonest, WorkingKeeps
<1>4. CASE FindDue(r) /\ UNCHANGED call
  <2>1. /\ ~Idle(r) /\ req[r].at = "read"
        /\ req'[r].at = "touch" /\ ~Idle(r)'
        /\ req'[r].id = req[r].id /\ req'[r].session = req[r].session
        /\ \A q \in Request \ {r} : req'[q] = req[q]
    BY <1>1, <1>4 DEF FindDue, Idle, RequestState
  <2>2. StillOf(req'[r].id, req'[r].session)
    BY <2>1, OthersStay DEF Holding
  <2>3. call'[r].sets # None => StillHonest(call'[r].sets) /\ call'[r].sets.id = req'[r].id
    BY <1>4, <2>1, OthersStay DEF CacheInv, AllAreOf
  <2> QED BY <1>0, <1>4, <2>1, <2>2, <2>3, WorkingKeeps
<1>5. CASE FindExpired(r) /\ UNCHANGED call
  <2>1. /\ ~Idle(r) /\ req'[r].at = "drop" /\ ~Idle(r)' /\ req'[r].id = req[r].id
        /\ \A q \in Request \ {r} : req'[q] = req[q]
    BY <1>1, <1>5 DEF FindExpired, Idle, NoRequest
  <2>2. call'[r].sets # None => StillHonest(call'[r].sets) /\ call'[r].sets.id = req'[r].id
    BY <1>5, <2>1, OthersStay DEF CacheInv, AllAreOf
  <2>3. r \notin Holding'
    BY <2>1 DEF Holding
  <2> QED BY <1>0, <1>5, <2>1, <2>2, <2>3, WorkingKeeps
<1>6. CASE (TouchNothing(r) \/ Drop(r)) /\ call' = [call EXCEPT ![r] = NoCall]
  <2>1. /\ req'[r].at = "idle" /\ Idle(r)' /\ call'[r].sets = None /\ r \notin Holding'
        /\ \A q \in Request \ {r} : req'[q] = req[q] /\ call'[q] = call[q]
    BY <1>1, <1>6 DEF TouchNothing, Drop, Idle, NoCall, Holding
  <2> QED BY <1>0, <2>1, WorkingKeeps
<1> QED BY <1>2, <1>3, <1>4, <1>5, <1>6 DEF VerifyRow

LEMMA ServeKeeps ==
    ASSUME CacheInv, CacheTyped', Keeps, [CacheNext]_allVars, NEW r \in Request, Serve(r)
    PROVE  AllAreOf' /\ ToldIsOver'
<1> DEFINE Goal == AllAreOf' /\ ToldIsOver'
<1>0. /\ req \in [Request -> RequestState] /\ call \in [Request -> Call]
      /\ jar \in [Browser -> Jar] /\ row \in [SessionId -> Session]
      /\ live \subseteq SessionId /\ NoRequest.at = "idle"
  BY DEF CacheInv, CacheTyped, CacheTypeOK, TypeOK, NoRequest
<1>1. ASSUME NEW b \in Browser, ReadCache(r, b) PROVE Goal
  <2> DEFINE y == jar[b].snapshot
  <2>1. /\ y \in Snapshot /\ jar' = jar /\ told' = told
        /\ req' = [req EXCEPT ![r] = Holds(jar[b].token, y.id, y.session)]
    BY <1>0, <1>1 DEF ReadCache, Hit, Jar
  <2>2. /\ req'[r].id = y.id /\ req'[r].session = y.session
        /\ \A q \in Request \ {r} : req'[q] = req[q] /\ call'[q] = call[q]
        /\ call'[r].browser = b /\ call'[r].sets = None
    BY <1>0, <1>1, <2>1 DEF ReadCache, Holds, At, NoRequest, NoCall
  <2>3. y # None /\ StillHonest(y)
    BY <1>1, OthersStay DEF ReadCache, Hit
  <2>4. StillOf(req'[r].id, req'[r].session)
    BY <2>2, <2>3 DEF StillHonest
  <2>5. <<call'[r].browser, req'[r].id>> \notin told
    BY <2>1, <2>2, <2>3 DEF CacheInv, ToldIsOver, Snapshot
  <2> QED BY <2>1, <2>2, <2>4, <2>5, WorkingKeeps
<1>2. ASSUME NEW b \in Browser, NEW cacheable \in BOOLEAN, ReadRow(r, b, cacheable) PROVE Goal
  <2>1. PICK s \in live : req' = [req EXCEPT ![r] = At("read", jar[b].token, s, row[s])]
    BY <1>2 DEF ReadRow, Read
  <2>2. /\ jar' = jar /\ told' = told /\ live' = live /\ row' = row /\ s \in SessionId
    BY <1>0, <1>2 DEF ReadRow, Read
  <2>3. /\ req'[r].id = s /\ req'[r].session = row[s]
        /\ \A q \in Request \ {r} : req'[q] = req[q] /\ call'[q] = call[q]
        /\ call'[r].browser = b /\ call'[r].sets = None
    BY <1>0, <1>2, <2>1 DEF ReadRow, At, NoRequest, NoCall
  <2>4. StillOf(req'[r].id, req'[r].session)
    BY <2>2, <2>3, OthersStay
  <2>5. <<call'[r].browser, req'[r].id>> \notin told
    BY <2>2, <2>3 DEF CacheInv, ToldIsOver
  <2> QED BY <2>2, <2>3, <2>4, <2>5, WorkingKeeps
<1>3. CASE VerifyRow(r)
  BY <1>3, VerifyRowKeeps
<1>4. CASE Answer(r)
  <2>1. r \in Holding /\ ~Idle(r) /\ req' = [req EXCEPT ![r] = NoRequest]
    BY <1>4 DEF Answer, Respond, Holding, Idle
  <2> QED BY <1>4, <2>1, AnsweredIsHonest, ArrivingKeeps DEF Answer
<1>5. CASE Lost(r)
  <2>1. /\ Idle(r)' /\ r \notin Holding' /\ call'[r].sets = None
        /\ jar' = jar /\ told' = told
        /\ \A q \in Request \ {r} : req'[q] = req[q] /\ call'[q] = call[q]
    BY <1>0, <1>5 DEF Lost, Respond, Idle, Holding, NoCall
  <2> QED BY <2>1, WorkingKeeps
<1>6. CASE UpdateUser(r)
  <2> DEFINE w == Written(req[r].id, req[r].session)
             cookies == [Answered(r) EXCEPT !.snapshot = IF w # None THEN w ELSE @]
  <2>1. r \in Holding /\ ~Idle(r) /\ req' = [req EXCEPT ![r] = NoRequest] /\ told' = told
    BY <1>6 DEF UpdateUser, Respond, Holding, Idle
  <2>3. w \in Snapshot \cup {None} /\ (w # None => Honest(w) /\ w.id = req[r].id)
    BY <2>1, WrittenIsHonest DEF CacheInv
  <2> HIDE DEF w
  <2>4. Answered(r) \in Jar
    BY <2>1, AnsweredIsHonest
  <2>5. cookies \in Jar /\ cookies.snapshot = IF w # None THEN w ELSE Answered(r).snapshot
    BY <2>3, <2>4 DEF Jar
  <2>6. Arrives(r, cookies)
    BY <1>6 DEF UpdateUser, w
  <2> HIDE DEF cookies
  <2> QED BY <2>1, <2>3, <2>5, <2>6, AnsweredIsHonest, ArrivingKeeps
<1>7. ASSUME NEW e \in StepUps, Reauthenticate(r, e) PROVE Goal
  <2>1. /\ ~Idle(r) /\ r \in Holding /\ ~Idle(r)'
        /\ jar' = jar /\ told' = told /\ call' = call
        /\ req'[r].id = req[r].id /\ req'[r].session = req[r].session
        /\ \A q \in Request \ {r} : req'[q] = req[q]
    BY <1>0, <1>7 DEF Reauthenticate, BeginElevate, cacheVars, Idle, Holding, RequestState
  <2>2. StillOf(req'[r].id, req'[r].session)
    BY <2>1, OthersStay
  <2>3. call'[r].sets # None => StillHonest(call'[r].sets) /\ call'[r].sets.id = req'[r].id
    BY <2>1, OthersStay DEF CacheInv, AllAreOf
  <2> QED BY <2>1, <2>2, <2>3, WorkingKeeps
<1>8. ASSUME NEW stamp \in 0..now, Reauthenticated(r, stamp) PROVE Goal
  <2> DEFINE s == req[r].id
             w == Written(req'[r].id, req'[r].session)
  <2>1. /\ s \in live' /\ row'[s] = Elevated(s, r, stamp) /\ ~Idle(r)
        /\ req' = [req EXCEPT ![r] = Holds(Elevated(s, r, stamp).token, s, Elevated(s, r, stamp))]
        /\ jar' = jar /\ told' = told
    BY <1>0, <1>8 DEF Reauthenticated, CommitElevate, Idle
  <2>2. /\ ~Idle(r)' /\ req'[r].id = s /\ req'[r].session = row'[s]
        /\ \A q \in Request \ {r} : req'[q] = req[q]
    BY <1>0, <2>1 DEF Holds, At, NoRequest, Idle
  <2>3. StillOf(req'[r].id, req'[r].session)
    BY <2>1, <2>2, OthersStay
  <2>4. req'[r].id \in SessionId /\ req'[r].session \in Session /\ now \in Nat
    BY DEF CacheInv, CacheTyped, TypeOK, RequestState
  <2>5. w # None => /\ w.id = req'[r].id /\ w.session = req'[r].session /\ Clamped(w)
    BY <2>4, WrittenIsClamped
  <2> HIDE DEF w
  <2>6. /\ call'[r].browser = call[r].browser /\ call'[r].sets = w
        /\ \A q \in Request \ {r} : call'[q] = call[q]
    BY <1>0, <1>8 DEF Reauthenticated, Call, w
  <2>7. call'[r].sets # None => StillHonest(call'[r].sets) /\ call'[r].sets.id = req'[r].id
    BY <2>3, <2>5, <2>6 DEF StillHonest
  <2> QED BY <2>1, <2>2, <2>3, <2>6, <2>7, WorkingKeeps
<1>9. CASE NotReauthenticated(r)
  <2>1. r \in Holding /\ ~Idle(r) /\ req' = [req EXCEPT ![r] = NoRequest]
    BY <1>9 DEF NotReauthenticated, ElevateNothing, Holding, Idle
  <2> QED BY <1>9, <2>1, AnsweredIsHonest, ArrivingKeeps DEF NotReauthenticated
<1>10. ASSUME req[r].at = "held" PROVE row[req[r].id].userId = req[r].session.userId
  BY <1>10 DEF Holding, CacheInv, AllAreOf, IsOf
<1>11. CASE SignOutHere(r)
  <2>1. r \in Holding /\ ~Idle(r) /\ req' = [req EXCEPT ![r] = NoRequest]
    BY <1>11 DEF SignOutHere, SignOut, Holding, Idle
  <2>2. req[r].id \notin live'
    BY <1>10, <1>11 DEF SignOutHere, SignOut, DeletedById
  <2>3. Arrives(r, NoCookies) /\ IsTold(r, {req[r].id})
    BY <1>11 DEF SignOutHere
  <2> QED BY <2>1, <2>2, <2>3, CacheSentinelsAreTyped, ArrivingKeeps
<1>12. CASE RevokeSessions(r)
  <2>1. r \in Holding /\ ~Idle(r) /\ req' = [req EXCEPT ![r] = NoRequest]
    BY <1>12 DEF RevokeSessions, Holding, Idle
  <2>2. req[r].id \notin live'
    BY <1>10, <1>12 DEF RevokeSessions
  <2>3. Arrives(r, NoCookies) /\ IsTold(r, {req[r].id})
    BY <1>12 DEF RevokeSessions
  <2> QED BY <2>1, <2>2, <2>3, CacheSentinelsAreTyped, ArrivingKeeps
<1>13. CASE RevokeOtherSessions(r)
  <2>1. r \in Holding /\ ~Idle(r) /\ req' = [req EXCEPT ![r] = NoRequest]
    BY <1>13 DEF RevokeOtherSessions, RevokeOthers, Holding, Idle
  <2> QED BY <1>13, <2>1, AnsweredIsHonest, ArrivingKeeps DEF RevokeOtherSessions
<1>14. ASSUME NEW s \in created, RevokeSession(r, s) PROVE Goal
  <2> DEFINE removed == DeletedById(s, req[r].session.userId)
             cookies == AfterRevoke(r, s, removed)
  <2>1. /\ r \in Holding /\ ~Idle(r) /\ req' = [req EXCEPT ![r] = NoRequest]
        /\ live' = live \ removed
        /\ Arrives(r, cookies) /\ IsTold(r, removed \cap {req[r].id})
    BY <1>14 DEF RevokeSession, Revoke, Holding, Idle
  <2>2. removed \subseteq {s}
    BY DEF DeletedById
  <2>3. cookies = IF removed # {} /\ s = req[r].id THEN NoCookies ELSE Answered(r)
    BY DEF AfterRevoke
  <2> HIDE DEF cookies, removed
  <2>4. /\ removed \cap {req[r].id} \in SUBSET ({req[r].id} \ live')
        /\ removed \cap {req[r].id} # {} => cookies = NoCookies
    BY <2>1, <2>2, <2>3
  <2>5. /\ cookies \in Jar
        /\ cookies.snapshot # None =>
              \/ cookies.snapshot = jar[call[r].browser].snapshot
              \/ Honest(cookies.snapshot) /\ cookies.snapshot.id = req[r].id
    BY <2>1, <2>3, AnsweredIsHonest, CacheSentinelsAreTyped
  <2> QED BY <2>1, <2>4, <2>5, CacheSentinelsAreTyped, ArrivingKeeps
<1> QED
  BY <1>1, <1>2, <1>3, <1>4, <1>5, <1>6, <1>7, <1>8, <1>9, <1>11, <1>12, <1>13, <1>14
     DEF Serve

\* The invariant of the cache is inductive.
LEMMA CacheStep ==
    ASSUME CacheInv, [CacheNext]_allVars
    PROVE  CacheInv'
<1>1. CacheTyped' /\ Keeps /\ NextsAreNew'
  BY CacheNextTyped, CacheKeeps, NextsStep DEF CacheInv, CacheTyped
<1> SUFFICES AllAreOf' /\ ToldIsOver'
  BY <1>1 DEF CacheInv
<1>2. CASE UNCHANGED allVars
  BY <1>1, <1>2, OutsideKeeps DEF allVars, vars, cacheVars
<1>3. CASE Elsewhere
  BY <1>1, <1>3, OutsideKeeps DEF Elsewhere, cacheVars, Tick, DeleteExpired, RevokeAll
<1>4. ASSUME NEW b \in Browser, NEW u \in UserId, ResetPassword(b, u)
      PROVE  AllAreOf' /\ ToldIsOver'
  BY <1>1, <1>4, CacheSentinelsAreTyped, OutsideKeeps
     DEF ResetPassword, RevokeAll, CacheInv, CacheTyped, CacheTypeOK
<1>5. ASSUME NEW b \in Browser, ClearSnapshot(b) PROVE AllAreOf' /\ ToldIsOver'
  <2>1. \A c \in Browser : jar'[c].snapshot \in {jar[c].snapshot, None}
    BY <1>5 DEF ClearSnapshot, CacheInv, CacheTyped, CacheTypeOK, Jar
  <2> QED BY <1>1, <1>5, <2>1, OutsideKeeps DEF ClearSnapshot, vars
<1>6. ASSUME NEW b \in Browser, NEW u \in UserId, NEW m \in BOOLEAN, NEW e \in SignInLogs,
             SignIn(b, u, m, e)
      PROVE  AllAreOf' /\ ToldIsOver'
  <2>1. \A c \in Browser : jar'[c].snapshot \in {jar[c].snapshot, None}
    BY <1>6 DEF SignIn, CacheInv, CacheTyped, CacheTypeOK, Jar
  <2> QED BY <1>1, <1>6, <2>1, OutsideKeeps DEF SignIn, Create
<1>7. ASSUME NEW r \in Request, Serve(r) PROVE AllAreOf' /\ ToldIsOver'
  BY <1>1, <1>7, ServeKeeps
<1> QED BY <1>2, <1>3, <1>4, <1>5, <1>6, <1>7 DEF CacheNext

LEMMA CacheStarts == CacheInit => CacheInv
<1> SUFFICES ASSUME CacheInit PROVE CacheInv
  OBVIOUS
<1> USE DEF CacheInit
<1>1. CacheTyped
  BY InitTyped, CacheSentinelsAreTyped DEF CacheTyped, CacheTypeOK, Attached, Idle, Init, NoRequest
<1>2. \A r \in Request : req[r].at = "idle"
  BY DEF Init, NoRequest
<1>3. AllAreOf /\ NextsAreNew /\ ToldIsOver
  BY <1>2, CacheSentinelsAreTyped
     DEF AllAreOf, NextsAreNew, ToldIsOver, Holding, Elevating, Init
<1> QED BY <1>1, <1>3 DEF CacheInv

LEMMA CacheInvariant == CacheSpec => []CacheInv
BY CacheStarts, CacheStep, PTL DEF CacheSpec

-----------------------------------------------------------------------------
(* The cache: what it promises *)

\* Every variable of the cache has its type.
THEOREM CacheTypeCorrect == CacheSpec => []CacheTypeOK
<1>1. CacheInv => CacheTypeOK
  BY DEF CacheInv, CacheTyped
<1> QED BY <1>1, CacheInvariant, PTL

\* A snapshot answers only for the session that the token beside it was handed
\* out for, in whatever order the answers of a browser's requests arrive.
THEOREM SnapshotsAnswerTheirHolder == CacheSpec => []AnswersItsHolder
<1>1. CacheInv => AnswersItsHolder
  BY DEF CacheInv, AllAreOf, Honest, IsOf, AnswersItsHolder, Hit, Matches
<1> QED BY <1>1, CacheInvariant, PTL

\* No snapshot answers for a session that is due for its refresh or has ended by
\* its own time, whoever signed it and whatever was written since.
THEOREM CachingKeepsTheRefresh == CacheSpec => []RefreshStaysHonest
<1>1. ASSUME CacheInv, NEW b \in Browser, Hit(b)
      PROVE  /\ ~IsExpired(jar[b].snapshot.session, now)
             /\ ~IsRefreshDue(jar[b].snapshot.session, now)
  <2> DEFINE y == jar[b].snapshot
  <2>1. y \in Snapshot /\ now < y.expiresAt /\ Clamped(y) /\ now \in Nat
    BY <1>1 DEF CacheInv, CacheTyped, CacheTypeOK, TypeOK, Jar, Hit, AllAreOf, Honest
  <2>2. y.expiresAt \in Nat /\ y.session.expiresAt \in Nat /\ y.session \in Session
    BY <2>1 DEF Snapshot, Session
  <2>3. GrantedLifetime(y.session) \in Nat /\ UpdateAge \in Nat
    BY <2>2, LifetimeIsTyped, LifetimesArePositive
  <2> QED BY <2>1, <2>2, <2>3 DEF Clamped, RefreshDueAt, IsExpired, IsRefreshDue
<1>2. CacheInv => RefreshStaysHonest
  BY <1>1 DEF RefreshStaysHonest
<1> QED BY <1>2, CacheInvariant, PTL

\* Once a browser has ended its own session and was told so, with no other
\* request of it under way, nothing in it answers for that session again.
THEOREM EndedHereStaysOver == CacheSpec => []EndedHereIsOver
<1>1. ASSUME CacheInv, NEW b \in Browser, Hit(b) PROVE <<b, jar[b].snapshot.id>> \notin told
  <2>1. jar[b].snapshot # None /\ jar[b].snapshot.id \in SessionId
    BY <1>1 DEF CacheInv, CacheTyped, CacheTypeOK, Jar, Snapshot, Hit
  <2> QED BY <1>1, <2>1 DEF CacheInv, ToldIsOver
<1>2. CacheInv => EndedHereIsOver
  BY <1>1 DEF EndedHereIsOver
<1> QED BY <1>2, CacheInvariant, PTL
=============================================================================
