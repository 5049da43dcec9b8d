--------------------------- MODULE AccountsProofs ---------------------------
(***************************************************************************)
(* What holds of Accounts for any number of requests, users and            *)
(* identities.                                                             *)
(*                                                                         *)
(* The inductive invariant says of every request what the locks it holds   *)
(* keep true while it is under way, and of any two requests that they hold *)
(* no lock in common.                                                      *)
(***************************************************************************)
EXTENDS Accounts, TLAPS

\* Whose user has to exist.
References(r) ==
    \/ req[r].at \in {"lock", "register"}
    \/ At(r, "identity") /\ req[r].op = "link"
    \/ req[r].at \in {"sweep", "revoke", "sweepEnd"}
    \/ req[r].at \in {"insert", "commit"} /\ req[r].user # r

HoldsUser(r) ==
    \/ req[r].at \in {"sweep", "revoke", "sweepEnd"}
    \/ req[r].at \in {"insert", "commit"} /\ req[r].user # r

Progress(r) ==
    /\ r \in users \/ req[r].answer # "none" => req[r].at \in {"announce", "done"}
    /\ References(r) => req[r].user \in users
    /\ HoldsUser(r) => req[r].holds = req[r].user
    /\ At(r, "commit") => ~Taken(req[r].key)

Locked(r) ==
    /\ req[r].locked \subseteq accounts
    /\ req[r].counted \subseteq req[r].locked
    /\ req[r].at \notin {"factors", "delete", "revoke", "sweepEnd"} => req[r].locked = {}
    /\ req[r].at \in {"factors", "delete"} =>
          /\ Target(r) \subseteq req[r].locked
          /\ \E a \in req[r].locked : a.key = req[r].key
    /\ req[r].at \in {"revoke", "sweepEnd"} => AccountsOf(req[r].user) \subseteq req[r].locked
    /\ At(r, "sweepEnd") => PasskeysOf(req[r].user) \subseteq req[r].drops

Answered(r) ==
    /\ SignedInBy(r) => \E a \in stored : a.key = req[r].key /\ a.owner = req[r].user
    /\ At(r, "announce") => \E a \in stored : a.key = req[r].key /\ a.by = r

Shape(r) == Progress(r) /\ Locked(r) /\ Answered(r)

Apart(q, r) ==
    /\ req[q].holds # NoUser => req[q].holds # req[r].holds
    /\ req[q].locked \cap req[r].locked = {}
    /\ At(q, "commit") /\ At(r, "commit") => req[q].key # req[r].key

History ==
    /\ accounts \subseteq stored
    /\ \A a \in stored : a \in accounts \/ a.key \in removed

Inv ==
    /\ TypeOK
    /\ \A r \in Request : Shape(r)
    /\ \A q, r \in Request : q # r => Apart(q, r)
    /\ OneOwner
    /\ AnnouncedWasStored
    /\ History

-----------------------------------------------------------------------------
(* Records *)

LEMMA NoRequestIsTyped == ASSUME NEW r \in Request PROVE NoRequest \in RequestState
<1>1. r \in Key /\ [owner |-> r, by |-> r] \in Passkey
  BY DEF Key, UserId, Passkey, Writer
<1>2. (CHOOSE k \in Key : TRUE) \in Key /\ (CHOOSE k \in Passkey : TRUE) \in Passkey
  BY <1>1
<1> QED BY <1>2 DEF NoRequest, RequestState, Step, Answer

LEMMA BecomesTo ==
    ASSUME TypeOK, NEW r \in Request, NEW state \in RequestState, Becomes(r, state)
    PROVE  /\ req' \in [Request -> RequestState]
           /\ req'[r] = state
           /\ \A q \in Request \ {r} : req'[q] = req[q]
BY DEF TypeOK, Becomes

LEMMA EndsTo ==
    ASSUME TypeOK, NEW r \in Request, NEW answer \in Answer, Ends(r, answer)
    PROVE  /\ req' \in [Request -> RequestState]
           /\ \A q \in Request \ {r} : req'[q] = req[q]
           /\ req'[r].at = "done"
           /\ req'[r].op = req[r].op
           /\ req'[r].answer = answer
           /\ req'[r].holds = NoUser
           /\ req'[r].locked = {}
           /\ req'[r].counted = {}
<1> DEFINE next == [NoRequest EXCEPT !.op = req[r].op, !.at = "done", !.answer = answer]
<1>1. NoRequest \in RequestState /\ req[r] \in RequestState
  BY NoRequestIsTyped DEF TypeOK
<1>2. next \in RequestState
  BY <1>1 DEF RequestState, Step
<1>3. /\ next.at = "done" /\ next.op = req[r].op /\ next.answer = answer
      /\ next.holds = NoUser /\ next.locked = {} /\ next.counted = {}
  BY <1>1 DEF NoRequest
<1>4. Becomes(r, next)
  BY DEF Ends
<1> HIDE DEF next
<1> QED BY <1>2, <1>3, <1>4, BecomesTo

LEMMA SignsInTo ==
    ASSUME TypeOK, NEW r \in Request, NEW step \in Step, NEW u \in UserId, SignsIn(r, step, u)
    PROVE  /\ req' \in [Request -> RequestState]
           /\ \A q \in Request \ {r} : req'[q] = req[q]
           /\ req'[r].at = step
           /\ req'[r].op = req[r].op
           /\ req'[r].answer = "signedIn"
           /\ req'[r].key = req[r].key
           /\ req'[r].user = u
           /\ req'[r].holds = NoUser
           /\ req'[r].locked = {}
           /\ req'[r].counted = {}
<1> DEFINE next == [NoRequest EXCEPT !.op = req[r].op, !.at = step, !.answer = "signedIn",
                                     !.key = req[r].key, !.user = u]
<1>1. NoRequest \in RequestState /\ req[r] \in RequestState
  BY NoRequestIsTyped DEF TypeOK
<1>2. next \in RequestState
  BY <1>1 DEF RequestState, Answer
<1>3. /\ next.at = step /\ next.op = req[r].op /\ next.answer = "signedIn"
      /\ next.key = req[r].key /\ next.user = u
      /\ next.holds = NoUser /\ next.locked = {} /\ next.counted = {}
  BY <1>1 DEF NoRequest
<1>4. Becomes(r, next)
  BY DEF SignsIn
<1> HIDE DEF next
<1> QED BY <1>2, <1>3, <1>4, BecomesTo

\* A step that moves a request on and changes nothing else of it.
LEMMA MovesTo ==
    ASSUME TypeOK, NEW r \in Request, NEW step \in Step,
           Becomes(r, [req[r] EXCEPT !.at = step])
    PROVE  /\ req' \in [Request -> RequestState]
           /\ \A q \in Request \ {r} : req'[q] = req[q]
           /\ req'[r].at = step
           /\ req'[r].op = req[r].op
           /\ req'[r].answer = req[r].answer
           /\ req'[r].user = req[r].user
           /\ req'[r].key = req[r].key
           /\ req'[r].holds = req[r].holds
           /\ req'[r].locked = req[r].locked
           /\ req'[r].counted = req[r].counted
           /\ req'[r].drops = req[r].drops
           /\ req'[r].passkey = req[r].passkey
<1> DEFINE next == [req[r] EXCEPT !.at = step]
<1>1. req[r] \in RequestState
  BY DEF TypeOK
<1>2. next \in RequestState
  BY <1>1 DEF RequestState
<1>3. /\ next.at = step /\ next.op = req[r].op /\ next.answer = req[r].answer
      /\ next.user = req[r].user /\ next.key = req[r].key
      /\ next.holds = req[r].holds /\ next.locked = req[r].locked
      /\ next.counted = req[r].counted /\ next.drops = req[r].drops
      /\ next.passkey = req[r].passkey
  BY <1>1 DEF RequestState
<1>4. Becomes(r, next)
  OBVIOUS
<1> HIDE DEF next
<1> QED BY <1>2, <1>3, <1>4, BecomesTo

-----------------------------------------------------------------------------
(* Steps that change nothing but their request *)

Quiet == UNCHANGED <<users, holder, verified, accounts, passkeys,
                     announced, stored, removed>>

\* What a request may do to itself without disturbing the others.
Keeps(r) ==
    /\ req' \in [Request -> RequestState]
    /\ \A q \in Request \ {r} : req'[q] = req[q]
    /\ Shape(r)'
    /\ (InTransaction(r) \/ (req[r].holds = NoUser /\ req[r].locked = {}))'
    /\ req'[r].holds \in {NoUser, req[r].holds} \/ MayLockUser(r, req'[r].holds)
    /\ req'[r].locked \in {{}, req[r].locked} \/ MayLock(r, req'[r].locked)
    /\ req'[r].at = "commit" => ~Pending(r, req'[r].key)

LEMMA ShapeKept ==
    ASSUME NEW q \in Request, Shape(q), req'[q] = req[q],
           UNCHANGED <<users, accounts, passkeys, stored>>
    PROVE  Shape(q)'
BY DEF Shape, Progress, Locked, Answered, References, HoldsUser, At, Taken, Target,
       AccountsOf, PasskeysOf, SignedInBy

LEMMA QuietKeeps ==
    ASSUME Inv, NEW r \in Request, Quiet, Keeps(r)
    PROVE  Inv'
<1>1. TypeOK'
  BY DEF Inv, TypeOK, Quiet, Keeps, InTransaction
<1>2. ASSUME NEW q \in Request PROVE Shape(q)'
  <2>1. CASE q = r
    BY <2>1 DEF Keeps
  <2>2. CASE q # r
    BY <2>2, ShapeKept DEF Inv, Keeps, Quiet
  <2> QED BY <2>1, <2>2
<1>3. ASSUME NEW p \in Request, NEW q \in Request, p # q PROVE Apart(p, q)'
  <2>1. Apart(p, q) /\ Apart(q, p)
    BY <1>3 DEF Inv
  <2>2. CASE p # r /\ q # r
    <3>1. req'[p] = req[p] /\ req'[q] = req[q]
      BY <2>2 DEF Keeps
    <3> QED BY <3>1, <2>1 DEF Apart, At
  <2>3. CASE p = r
    <3>1. req'[q] = req[q]
      BY <2>3, <1>3 DEF Keeps
    <3>2. req'[p].holds # NoUser => req'[p].holds # req'[q].holds
      BY <3>1, <2>1, <2>3, <1>3 DEF Keeps, Apart, MayLockUser
    <3>3. req'[p].locked \cap req'[q].locked = {}
      BY <3>1, <2>1, <2>3, <1>3 DEF Keeps, Apart, MayLock
    <3>4. req'[p].at = "commit" /\ req'[q].at = "commit" => req'[p].key # req'[q].key
      BY <3>1, <2>3, <1>3 DEF Keeps, Pending, At
    <3> QED BY <3>2, <3>3, <3>4 DEF Apart, At
  <2>4. CASE q = r
    <3>1. req'[p] = req[p]
      BY <2>4, <1>3 DEF Keeps
    <3>2. req'[p].holds # NoUser => req'[p].holds # req'[q].holds
      BY <3>1, <2>1, <2>4, <1>3 DEF Keeps, Apart, MayLockUser
    <3>3. req'[p].locked \cap req'[q].locked = {}
      BY <3>1, <2>1, <2>4, <1>3 DEF Keeps, Apart, MayLock
    <3>4. req'[p].at = "commit" /\ req'[q].at = "commit" => req'[p].key # req'[q].key
      BY <3>1, <2>4, <1>3 DEF Keeps, Pending, At
    <3> QED BY <3>2, <3>3, <3>4 DEF Apart, At
  <2> QED BY <2>2, <2>3, <2>4
<1>4. OneOwner' /\ AnnouncedWasStored' /\ History'
  BY DEF Inv, OneOwner, AnnouncedWasStored, History, Quiet
<1> QED BY <1>1, <1>2, <1>3, <1>4 DEF Inv

\* An end without a sign-in is always harmless.
LEMMA EndKeeps ==
    ASSUME Inv, NEW r \in Request, NEW answer \in Answer \ {"signedIn"},
           Ends(r, answer), Quiet
    PROVE  Keeps(r)
<1>1. /\ req' \in [Request -> RequestState]
      /\ \A q \in Request \ {r} : req'[q] = req[q]
      /\ req'[r].at = "done"
      /\ req'[r].answer = answer
      /\ req'[r].holds = NoUser
      /\ req'[r].locked = {}
      /\ req'[r].counted = {}
  BY EndsTo DEF Inv
<1>2. Shape(r)'
  BY <1>1 DEF Shape, Progress, Locked, Answered, References, HoldsUser, At, SignedInBy
<1> QED BY <1>1, <1>2 DEF Keeps, InTransaction

\* A request that starts holds nothing and refers at most to a user there is.
LEMMA StartKeeps ==
    ASSUME Inv, NEW r \in Request, Start(r)
    PROVE  Quiet /\ Keeps(r)
<1> DEFINE Fresh ==
        /\ req' \in [Request -> RequestState]
        /\ \A q \in Request \ {r} : req'[q] = req[q]
        /\ req'[r].at \in {"identity", "create", "lock", "rows", "ways", "register"}
        /\ (req'[r].at \in {"lock", "register"} \/ req'[r].op = "link") => req'[r].user \in users
        /\ req'[r].answer = "none"
        /\ req'[r].holds = NoUser
        /\ req'[r].locked = {}
        /\ req'[r].counted = {}
<1>1. TypeOK /\ NoRequest \in RequestState
  BY NoRequestIsTyped DEF Inv
<1>2. At(r, "idle")
  BY DEF Start, Callback, Link, Unlink, Register, Sweep, Remove, SignUp, Begins
<1>3. ASSUME NEW i \in Identity, NEW trusted \in BOOLEAN, NEW proven \in BOOLEAN,
             Callback(r, i, trusted, proven)
      PROVE  Fresh /\ Quiet
  <2> DEFINE next == [[NoRequest EXCEPT !.at = "identity", !.key = i,
                           !.trusted = trusted, !.proven = proven] EXCEPT !.op = "callback"]
  <2>1. next \in RequestState
    BY <1>1 DEF RequestState, Step, Key, Op
  <2>2. Becomes(r, next) /\ Quiet
    BY <1>3 DEF Callback, Begins, Quiet
  <2>3. /\ next.at = "identity" /\ next.op = "callback" /\ next.answer = "none"
        /\ next.holds = NoUser /\ next.locked = {} /\ next.counted = {}
    BY DEF NoRequest
  <2> HIDE DEF next
  <2> QED BY <1>1, <2>1, <2>2, <2>3, BecomesTo
<1>4. ASSUME NEW u \in users, NEW i \in Identity, Link(r, u, i)
      PROVE  Fresh /\ Quiet
  <2> DEFINE next == [[NoRequest EXCEPT !.at = "identity", !.user = u, !.key = i]
                          EXCEPT !.op = "link"]
  <2>1. next \in RequestState
    BY <1>1 DEF RequestState, Step, Key, Op, TypeOK
  <2>2. Becomes(r, next) /\ Quiet
    BY <1>4 DEF Link, Begins, Quiet
  <2>3. /\ next.at = "identity" /\ next.user = u /\ next.answer = "none"
        /\ next.holds = NoUser /\ next.locked = {} /\ next.counted = {}
    BY DEF NoRequest
  <2> HIDE DEF next
  <2> QED BY <1>1, <2>1, <2>2, <2>3, BecomesTo
<1>5. ASSUME NEW a \in accounts, Unlink(r, a.owner, a.key)
      PROVE  Fresh /\ Quiet
  <2> DEFINE next == [[NoRequest EXCEPT !.at = "rows", !.user = a.owner, !.key = a.key]
                          EXCEPT !.op = "unlink"]
  <2>1. next \in RequestState
    BY <1>1 DEF RequestState, Step, Op, TypeOK, Account
  <2>2. Becomes(r, next) /\ Quiet
    BY <1>5 DEF Unlink, Begins, Quiet
  <2>3. /\ next.at = "rows" /\ next.op = "unlink" /\ next.answer = "none"
        /\ next.holds = NoUser /\ next.locked = {} /\ next.counted = {}
    BY DEF NoRequest
  <2> HIDE DEF next
  <2> QED BY <1>1, <2>1, <2>2, <2>3, BecomesTo
<1>6. ASSUME NEW u \in users, Register(r, u)
      PROVE  Fresh /\ Quiet
  <2> DEFINE next == [[NoRequest EXCEPT !.at = "register", !.user = u]
                          EXCEPT !.op = "register"]
  <2>1. next \in RequestState
    BY <1>1 DEF RequestState, Step, Op, TypeOK
  <2>2. Becomes(r, next) /\ Quiet
    BY <1>6 DEF Register, Begins, Quiet
  <2>3. /\ next.at = "register" /\ next.user = u /\ next.answer = "none"
        /\ next.holds = NoUser /\ next.locked = {} /\ next.counted = {}
    BY DEF NoRequest
  <2> HIDE DEF next
  <2> QED BY <1>1, <2>1, <2>2, <2>3, BecomesTo
<1>7. ASSUME NEW u \in users, Sweep(r, u)
      PROVE  Fresh /\ Quiet
  <2> DEFINE next == [[NoRequest EXCEPT !.at = "lock", !.user = u] EXCEPT !.op = "sweep"]
  <2>1. next \in RequestState
    BY <1>1 DEF RequestState, Step, Op, TypeOK
  <2>2. Becomes(r, next) /\ Quiet
    BY <1>7 DEF Sweep, Begins, Quiet
  <2>3. /\ next.at = "lock" /\ next.user = u /\ next.answer = "none"
        /\ next.holds = NoUser /\ next.locked = {} /\ next.counted = {}
    BY DEF NoRequest
  <2> HIDE DEF next
  <2> QED BY <1>1, <2>1, <2>2, <2>3, BecomesTo
<1>8. ASSUME NEW k \in passkeys, Remove(r, k.owner, k)
      PROVE  Fresh /\ Quiet
  <2> DEFINE next == [[NoRequest EXCEPT !.at = "ways", !.user = k.owner, !.passkey = k]
                          EXCEPT !.op = "remove"]
  <2>1. next \in RequestState
    BY <1>1 DEF RequestState, Step, Op, TypeOK, Passkey
  <2>2. Becomes(r, next) /\ Quiet
    BY <1>8 DEF Remove, Begins, Quiet
  <2>3. /\ next.at = "ways" /\ next.op = "remove" /\ next.answer = "none"
        /\ next.holds = NoUser /\ next.locked = {} /\ next.counted = {}
    BY DEF NoRequest
  <2> HIDE DEF next
  <2> QED BY <1>1, <2>1, <2>2, <2>3, BecomesTo
<1>9. ASSUME SignUp(r)
      PROVE  Fresh /\ Quiet
  <2> DEFINE next == [[NoRequest EXCEPT !.at = "create"] EXCEPT !.op = "signUp"]
  <2>1. next \in RequestState
    BY <1>1 DEF RequestState, Step, Op
  <2>2. Becomes(r, next) /\ Quiet
    BY <1>9 DEF SignUp, Begins, Quiet
  <2>3. /\ next.at = "create" /\ next.op = "signUp" /\ next.answer = "none"
        /\ next.holds = NoUser /\ next.locked = {} /\ next.counted = {}
    BY DEF NoRequest
  <2> HIDE DEF next
  <2> QED BY <1>1, <2>1, <2>2, <2>3, BecomesTo
<1>10. Fresh /\ Quiet
  <2> HIDE DEF Fresh
  <2> QED BY <1>3, <1>4, <1>5, <1>6, <1>7, <1>8, <1>9 DEF Start
<1>11. r \notin users /\ users' = users
  BY <1>2, <1>10 DEF Inv, Shape, Progress, At, Quiet
<1>12. Shape(r)'
  BY <1>10, <1>11 DEF Shape, Progress, Locked, Answered, References, HoldsUser, At, SignedInBy
<1> QED BY <1>10, <1>12 DEF Keeps, InTransaction

\* A callback that lost a race starts over with nothing in its hands.
LEMMA RefusedKeeps ==
    ASSUME Inv, NEW r \in Request, Refused(r), Quiet, req[r].at \notin {"announce", "done"}
    PROVE  Keeps(r)
<1>1. CASE req[r].op = "callback" /\ ~req[r].retried
  <2> DEFINE next == [NoRequest EXCEPT
             !.op = "callback", !.at = "identity", !.key = req[r].key, !.retried = TRUE,
             !.trusted = req[r].trusted, !.proven = req[r].proven]
  <2>1. TypeOK /\ NoRequest \in RequestState /\ req[r] \in RequestState
    BY NoRequestIsTyped DEF Inv, TypeOK
  <2>2. next \in RequestState
    BY <2>1 DEF RequestState, Step, Op
  <2>3. /\ next.at = "identity" /\ next.op = "callback" /\ next.answer = "none"
        /\ next.holds = NoUser /\ next.locked = {} /\ next.counted = {}
    BY DEF NoRequest
  <2>4. Becomes(r, next)
    BY <1>1 DEF Refused
  <2> HIDE DEF next
  <2>5. /\ req' \in [Request -> RequestState]
        /\ req'[r] = next
        /\ \A q \in Request \ {r} : req'[q] = req[q]
    BY <2>1, <2>2, <2>4, BecomesTo
  <2>6. r \notin users /\ users' = users
    BY DEF Inv, Shape, Progress, Quiet
  <2>7. Shape(r)'
    BY <2>3, <2>5, <2>6
       DEF Shape, Progress, Locked, Answered, References, HoldsUser, At, SignedInBy
  <2> QED BY <2>3, <2>5, <2>7 DEF Keeps, InTransaction
<1>2. CASE ~(req[r].op = "callback" /\ ~req[r].retried)
  BY <1>2, EndKeeps DEF Refused, Answer
<1> QED BY <1>1, <1>2

\* A state that a request on its way may go on to.
MayGoOnTo(r, next) ==
    /\ next.at \notin {"announce", "done"}
    /\ next.answer = "none"
    /\ \/ next.at \in {"lock", "register"}
       \/ next.at = "identity" /\ next.op = "link"
       \/ next.at \in {"sweep", "revoke", "sweepEnd"}
       \/ next.at \in {"insert", "commit"} /\ next.user # r
       => next.user \in users
    /\ \/ next.at \in {"sweep", "revoke", "sweepEnd"}
       \/ next.at \in {"insert", "commit"} /\ next.user # r
       => next.holds = next.user
    /\ next.at = "commit" => ~Taken(next.key) /\ ~Pending(r, next.key)
    /\ next.locked \subseteq accounts
    /\ next.counted \subseteq next.locked
    /\ next.at \notin {"factors", "delete", "revoke", "sweepEnd"} => next.locked = {}
    /\ next.at \in {"factors", "delete"} =>
          /\ {a \in AccountsOf(next.user) : a.key = next.key} \subseteq next.locked
          /\ \E a \in next.locked : a.key = next.key
    /\ next.at \in {"revoke", "sweepEnd"} => AccountsOf(next.user) \subseteq next.locked
    /\ next.at = "sweepEnd" => PasskeysOf(next.user) \subseteq next.drops
    /\ \/ next.at \in {"insert", "commit", "factors", "delete", "sweep", "revoke", "sweepEnd"}
       \/ next.holds = NoUser /\ next.locked = {}
    /\ next.holds \in {NoUser, req[r].holds} \/ MayLockUser(r, next.holds)
    /\ next.locked \in {{}, req[r].locked} \/ MayLock(r, next.locked)

LEMMA OnwardKeeps ==
    ASSUME Inv, NEW r \in Request, Quiet, req[r].at \notin {"announce", "done"},
           NEW next \in RequestState, Becomes(r, next), MayGoOnTo(r, next)
    PROVE  Keeps(r)
<1>1. /\ req' \in [Request -> RequestState]
      /\ req'[r] = next
      /\ \A q \in Request \ {r} : req'[q] = req[q]
  BY BecomesTo DEF Inv
<1>2. r \notin users /\ users' = users /\ accounts' = accounts /\ passkeys' = passkeys
  BY DEF Inv, Shape, Progress, Quiet
<1>3. Progress(r)'
  BY <1>1, <1>2 DEF MayGoOnTo, Progress, References, HoldsUser, At, Taken
<1>4. Locked(r)'
  BY <1>1, <1>2 DEF MayGoOnTo, Locked, At, Target, AccountsOf, PasskeysOf
<1>5. Answered(r)'
  BY <1>1 DEF MayGoOnTo, Answered, At, SignedInBy
<1> QED BY <1>1, <1>3, <1>4, <1>5 DEF MayGoOnTo, Shape, Keeps, InTransaction

\* What is known of a request on its way before it has locked anything.
LEMMA OnItsWay ==
    ASSUME Inv, NEW r \in Request, req[r].at \notin {"announce", "done"}
    PROVE  /\ req[r] \in RequestState
           /\ req[r].answer = "none"
           /\ ~InTransaction(r) => req[r].holds = NoUser /\ req[r].locked = {} /\ req[r].counted = {}
BY DEF Inv, TypeOK, Shape, Progress, Locked

LEMMA FindIdentityKeeps ==
    ASSUME Inv, NEW r \in Request, FindIdentity(r)
    PROVE  Quiet /\ Keeps(r)
<1>1. TypeOK /\ At(r, "identity") /\ Quiet
  BY DEF Inv, FindIdentity, Quiet
<1>2. /\ req[r] \in RequestState /\ req[r].answer = "none" /\ req[r].holds = NoUser
      /\ req[r].locked = {} /\ req[r].counted = {}
  BY <1>1, OnItsWay DEF At, InTransaction
<1>3. CASE Becomes(r, [req[r] EXCEPT !.at = IF req[r].op = "link" THEN "lock" ELSE "address"])
  <2> DEFINE next == [req[r] EXCEPT !.at = IF req[r].op = "link" THEN "lock" ELSE "address"]
  <2>1. next \in RequestState
    BY <1>2 DEF RequestState, Step
  <2>2. /\ next.at = IF req[r].op = "link" THEN "lock" ELSE "address"
        /\ next.user = req[r].user /\ next.answer = "none"
        /\ next.holds = NoUser /\ next.locked = {} /\ next.counted = {}
    BY <1>2 DEF RequestState
  <2>3. Becomes(r, next)
    BY <1>3
  <2> HIDE DEF next
  <2>4. next.at = "lock" => next.user \in users
    BY <1>1, <2>2 DEF Inv, Shape, Progress, References, At
  <2>5. MayGoOnTo(r, next)
    BY <2>2, <2>4 DEF MayGoOnTo
  <2> QED BY <1>1, <2>1, <2>3, <2>5, OnwardKeeps DEF At
<1>4. ASSUME NEW a \in accounts, a.key = req[r].key, SignsIn(r, "done", a.owner)
      PROVE  Keeps(r)
  <2>1. a \in stored /\ a.owner \in UserId
    BY <1>1 DEF Inv, History, TypeOK, Account
  <2>2. /\ req' \in [Request -> RequestState]
        /\ \A q \in Request \ {r} : req'[q] = req[q]
        /\ req'[r].at = "done"
        /\ req'[r].key = a.key
        /\ req'[r].user = a.owner
        /\ req'[r].holds = NoUser
        /\ req'[r].locked = {}
        /\ req'[r].counted = {}
    BY <1>1, <1>4, <2>1, SignsInTo DEF Step
  <2>3. stored' = stored
    BY <1>1 DEF Quiet
  <2>4. Shape(r)'
    BY <2>1, <2>2, <2>3
       DEF Shape, Progress, Locked, Answered, References, HoldsUser, At, SignedInBy
  <2> QED BY <2>2, <2>4 DEF Keeps, InTransaction
<1>5. CASE Ends(r, "refused")
  BY <1>1, <1>5, EndKeeps DEF Answer
<1> QED BY <1>1, <1>3, <1>4, <1>5 DEF FindIdentity

LEMMA FindByAddressKeeps ==
    ASSUME Inv, NEW r \in Request, FindByAddress(r)
    PROVE  Quiet /\ Keeps(r)
<1>1. TypeOK /\ At(r, "address") /\ Quiet
  BY DEF Inv, FindByAddress, Quiet
<1>2. /\ req[r] \in RequestState /\ req[r].answer = "none" /\ req[r].holds = NoUser
      /\ req[r].locked = {} /\ req[r].counted = {}
  BY <1>1, OnItsWay DEF At, InTransaction
<1>3. CASE Becomes(r, [req[r] EXCEPT !.at = "create"])
  <2> DEFINE next == [req[r] EXCEPT !.at = "create"]
  <2>1. next \in RequestState /\ Becomes(r, next)
    BY <1>2, <1>3 DEF RequestState, Step
  <2>2. /\ next.at = "create" /\ next.answer = "none"
        /\ next.holds = NoUser /\ next.locked = {} /\ next.counted = {}
    BY <1>2 DEF RequestState
  <2> HIDE DEF next
  <2>3. MayGoOnTo(r, next)
    BY <2>2 DEF MayGoOnTo
  <2> QED BY <1>1, <2>1, <2>3, OnwardKeeps DEF At
<1>4. CASE Becomes(r, [req[r] EXCEPT !.at = "lock", !.user = holder]) /\ holder # NoUser
  <2> DEFINE next == [req[r] EXCEPT !.at = "lock", !.user = holder]
  <2>1. holder \in users /\ holder \in UserId
    BY <1>1, <1>4 DEF TypeOK
  <2>2. next \in RequestState /\ Becomes(r, next)
    BY <1>2, <1>4, <2>1 DEF RequestState, Step
  <2>3. /\ next.at = "lock" /\ next.answer = "none" /\ next.user \in users
        /\ next.holds = NoUser /\ next.locked = {} /\ next.counted = {}
    BY <1>2, <2>1 DEF RequestState
  <2> HIDE DEF next
  <2>4. MayGoOnTo(r, next)
    BY <2>3 DEF MayGoOnTo
  <2> QED BY <1>1, <2>2, <2>4, OnwardKeeps DEF At
<1>5. CASE Ends(r, "refused")
  BY <1>1, <1>5, EndKeeps DEF Answer
<1> QED BY <1>1, <1>3, <1>4, <1>5 DEF FindByAddress

LEMMA CreateUserKeeps ==
    ASSUME Inv, NEW r \in Request, CreateUser(r)
    PROVE  Quiet /\ Keeps(r)
<1>1. TypeOK /\ At(r, "create") /\ Quiet
  BY DEF Inv, CreateUser, Quiet
<1>2. /\ req[r] \in RequestState /\ req[r].answer = "none" /\ req[r].holds = NoUser
      /\ req[r].locked = {} /\ req[r].counted = {}
  BY <1>1, OnItsWay DEF At, InTransaction
<1>3. CASE Refused(r)
  BY <1>1, <1>3, RefusedKeeps DEF At
<1>4. CASE Becomes(r, [req[r] EXCEPT !.at = "insert", !.user = r,
                                    !.key = IF req[r].op = "signUp" THEN r ELSE req[r].key])
  <2> DEFINE key == IF req[r].op = "signUp" THEN r ELSE req[r].key
             next == [req[r] EXCEPT !.at = "insert", !.user = r, !.key = key]
  <2>0. key \in Key /\ Becomes(r, next)
    BY <1>2, <1>4 DEF RequestState, Key, UserId
  <2> HIDE DEF key
  <2>1. next \in RequestState /\ Becomes(r, next)
    BY <1>2, <2>0 DEF RequestState, Step, UserId
  <2>2. /\ next.at = "insert" /\ next.answer = "none" /\ next.user = r
        /\ next.holds = NoUser /\ next.locked = {} /\ next.counted = {}
    BY <1>2 DEF RequestState
  <2> HIDE DEF next
  <2>3. MayGoOnTo(r, next)
    BY <2>2 DEF MayGoOnTo
  <2> QED BY <1>1, <2>1, <2>3, OnwardKeeps DEF At
<1> QED BY <1>1, <1>3, <1>4 DEF CreateUser

LEMMA LockUserRowKeeps ==
    ASSUME Inv, NEW r \in Request, LockUserRow(r)
    PROVE  Quiet /\ Keeps(r)
<1>1. TypeOK /\ At(r, "lock") /\ Quiet /\ MayLockUser(r, req[r].user)
  BY DEF Inv, LockUserRow, Quiet
<1>2. /\ req[r] \in RequestState /\ req[r].answer = "none"
      /\ req[r].locked = {} /\ req[r].counted = {}
  BY <1>1, OnItsWay DEF At, InTransaction
<1>3. req[r].user \in users
  BY <1>1 DEF Inv, Shape, Progress, References, At
<1> DEFINE next == [req[r] EXCEPT !.holds = req[r].user,
                        !.at = IF req[r].op = "sweep" THEN "sweep" ELSE "insert"]
<1>4. next \in RequestState /\ Becomes(r, next)
  BY <1>2 DEF LockUserRow, RequestState, Step
<1>5. /\ next.at \in {"sweep", "insert"} /\ next.answer = "none"
      /\ next.user = req[r].user /\ next.holds = req[r].user
      /\ next.locked = {} /\ next.counted = {}
  BY <1>2 DEF RequestState
<1> HIDE DEF next
<1>6. MayGoOnTo(r, next)
  BY <1>1, <1>3, <1>5 DEF MayGoOnTo
<1> QED BY <1>1, <1>4, <1>6, OnwardKeeps DEF At

LEMMA InsertAccountKeeps ==
    ASSUME Inv, NEW r \in Request, InsertAccount(r)
    PROVE  Quiet /\ Keeps(r)
<1>1. TypeOK /\ At(r, "insert") /\ Quiet /\ ~Pending(r, req[r].key)
  BY DEF Inv, InsertAccount, Quiet
<1>2. req[r] \in RequestState /\ req[r].answer = "none"
  BY <1>1, OnItsWay DEF At
<1>3. CASE Refused(r)
  BY <1>1, <1>3, RefusedKeeps DEF At
<1>4. CASE ~Taken(req[r].key) /\ Becomes(r, [req[r] EXCEPT !.at = "commit"])
  <2> DEFINE next == [req[r] EXCEPT !.at = "commit"]
  <2>1. next \in RequestState /\ Becomes(r, next)
    BY <1>2, <1>4 DEF RequestState, Step
  <2>2. /\ next.at = "commit" /\ next.answer = "none"
        /\ next.user = req[r].user /\ next.key = req[r].key
        /\ next.holds = req[r].holds /\ next.locked = req[r].locked
        /\ next.counted = req[r].counted
    BY <1>2 DEF RequestState
  <2> HIDE DEF next
  <2>3. /\ req[r].user # r => req[r].user \in users /\ req[r].holds = req[r].user
        /\ req[r].locked = {} /\ req[r].counted = {}
    BY <1>1 DEF Inv, Shape, Progress, Locked, References, HoldsUser, At
  <2>4. MayGoOnTo(r, next)
    BY <1>1, <1>4, <2>2, <2>3 DEF MayGoOnTo
  <2> QED BY <1>1, <2>1, <2>4, OnwardKeeps DEF At
<1> QED BY <1>1, <1>3, <1>4 DEF InsertAccount

LEMMA LockRowsKeeps ==
    ASSUME Inv, NEW r \in Request, LockRows(r)
    PROVE  Quiet /\ Keeps(r)
<1>1. TypeOK /\ At(r, "rows") /\ Quiet /\ MayLock(r, AccountsOf(req[r].user))
  BY DEF Inv, LockRows, Quiet
<1>2. /\ req[r] \in RequestState /\ req[r].answer = "none" /\ req[r].holds = NoUser
      /\ req[r].locked = {} /\ req[r].counted = {}
  BY <1>1, OnItsWay DEF At, InTransaction
<1>3. CASE Ends(r, "refused")
  BY <1>1, <1>3, EndKeeps DEF Answer
<1>4. CASE ~Ends(r, "refused")
  <2> DEFINE rows == AccountsOf(req[r].user)
             others == {a \in AccountsOf(req[r].user) \ Target(r) : a.signsIn}
             next == [req[r] EXCEPT !.at = "factors", !.locked = rows, !.counted = others]
  <2>1. rows \in SUBSET Account /\ others \in SUBSET Account
        /\ rows \subseteq accounts /\ others \subseteq rows
    BY <1>1 DEF TypeOK, AccountsOf
  <2>2. Becomes(r, next) /\ \E a \in rows : a.key = req[r].key
    BY <1>4 DEF LockRows, Target
  <2>3. {a \in AccountsOf(req[r].user) : a.key = req[r].key} \subseteq rows /\ MayLock(r, rows)
    BY <1>1
  <2> HIDE DEF rows, others
  <2>4. next \in RequestState
    BY <1>2, <2>1 DEF RequestState, Step
  <2>5. /\ next.at = "factors" /\ next.answer = "none"
        /\ next.user = req[r].user /\ next.key = req[r].key
        /\ next.holds = NoUser /\ next.locked = rows /\ next.counted = others
    BY <1>2 DEF RequestState
  <2> HIDE DEF next
  <2>6. MayGoOnTo(r, next)
    BY <2>1, <2>2, <2>3, <2>5 DEF MayGoOnTo
  <2> QED BY <1>1, <2>2, <2>4, <2>6, OnwardKeeps DEF At
<1> QED BY <1>1, <1>3, <1>4

LEMMA CountFactorsKeeps ==
    ASSUME Inv, NEW r \in Request, CountFactors(r)
    PROVE  Quiet /\ Keeps(r)
<1>1. TypeOK /\ At(r, "factors") /\ Quiet
  BY DEF Inv, CountFactors, Quiet
<1>2. req[r] \in RequestState /\ req[r].answer = "none"
  BY <1>1, OnItsWay DEF At
<1>3. CASE Ends(r, "refused")
  BY <1>1, <1>3, EndKeeps DEF Answer
<1>4. CASE Becomes(r, [req[r] EXCEPT !.at = "delete"])
  <2> DEFINE next == [req[r] EXCEPT !.at = "delete"]
  <2>1. next \in RequestState /\ Becomes(r, next)
    BY <1>2, <1>4 DEF RequestState, Step
  <2>2. /\ next.at = "delete" /\ next.answer = "none"
        /\ next.user = req[r].user /\ next.key = req[r].key
        /\ next.holds = req[r].holds /\ next.locked = req[r].locked
        /\ next.counted = req[r].counted
    BY <1>2 DEF RequestState
  <2> HIDE DEF next
  <2>3. /\ Target(r) \subseteq req[r].locked /\ \E a \in req[r].locked : a.key = req[r].key
        /\ req[r].locked \subseteq accounts /\ req[r].counted \subseteq req[r].locked
    BY <1>1 DEF Inv, Shape, Locked, At
  <2>4. MayGoOnTo(r, next)
    BY <2>2, <2>3 DEF MayGoOnTo, Target
  <2> QED BY <1>1, <2>1, <2>4, OnwardKeeps DEF At
<1> QED BY <1>1, <1>3, <1>4 DEF CountFactors

LEMMA AnotherWayKeeps ==
    ASSUME Inv, NEW r \in Request, AnotherAccount(r) \/ AnotherPasskey(r)
    PROVE  Quiet /\ Keeps(r)
<1>1. TypeOK /\ req[r].at \in {"ways", "others"} /\ Quiet
  BY DEF Inv, AnotherAccount, AnotherPasskey, Quiet, At
<1>2. /\ req[r] \in RequestState /\ req[r].answer = "none" /\ req[r].holds = NoUser
      /\ req[r].locked = {} /\ req[r].counted = {}
  BY <1>1, OnItsWay DEF InTransaction
<1>3. CASE Ends(r, "refused")
  BY <1>1, <1>3, EndKeeps DEF Answer
<1>4. ASSUME NEW step \in {"drop", "others"}, Becomes(r, [req[r] EXCEPT !.at = step])
      PROVE  Keeps(r)
  <2> DEFINE next == [req[r] EXCEPT !.at = step]
  <2>1. next \in RequestState /\ Becomes(r, next)
    BY <1>2, <1>4 DEF RequestState, Step
  <2>2. /\ next.at \in {"drop", "others"} /\ next.answer = "none"
        /\ next.holds = NoUser /\ next.locked = {} /\ next.counted = {}
    BY <1>2 DEF RequestState
  <2> HIDE DEF next
  <2>3. MayGoOnTo(r, next)
    BY <2>2 DEF MayGoOnTo
  <2> QED BY <1>1, <2>1, <2>3, OnwardKeeps
<1> QED BY <1>1, <1>3, <1>4 DEF AnotherAccount, AnotherPasskey

LEMMA SweepKeeps ==
    ASSUME Inv, NEW r \in Request, SweepRows(r) \/ SweepFactors(r)
    PROVE  Quiet /\ Keeps(r)
<1>1. TypeOK /\ req[r].at \in {"sweep", "revoke"} /\ Quiet
  BY DEF Inv, SweepRows, SweepFactors, Quiet, At
<1>2. req[r] \in RequestState /\ req[r].answer = "none"
  BY <1>1, OnItsWay
<1>3. /\ req[r].user \in users /\ req[r].holds = req[r].user
      /\ req[r].locked \subseteq accounts /\ req[r].counted \subseteq req[r].locked
      /\ At(r, "revoke") => AccountsOf(req[r].user) \subseteq req[r].locked
  BY <1>1 DEF Inv, Shape, Progress, Locked, References, HoldsUser, At
<1>4. CASE SweepRows(r)
  <2> DEFINE rows == AccountsOf(req[r].user)
             next == [req[r] EXCEPT !.at = "revoke", !.locked = rows]
  <2>1. rows \in SUBSET Account /\ rows \subseteq accounts /\ MayLock(r, rows)
    BY <1>1, <1>4 DEF TypeOK, AccountsOf, SweepRows
  <2>2. Becomes(r, next) /\ rows = AccountsOf(req[r].user)
    BY <1>4 DEF SweepRows
  <2>3. req[r].counted = {}
    BY <1>4, <1>3 DEF SweepRows, At, Inv, Shape, Locked, Progress
  <2> HIDE DEF rows
  <2>4. next \in RequestState
    BY <1>2, <2>1 DEF RequestState, Step
  <2>5. /\ next.at = "revoke" /\ next.answer = "none" /\ next.user = req[r].user
        /\ next.holds = req[r].holds /\ next.locked = rows /\ next.counted = {}
    BY <1>2, <2>3 DEF RequestState
  <2> HIDE DEF next
  <2>6. MayGoOnTo(r, next)
    BY <1>3, <2>1, <2>2, <2>5 DEF MayGoOnTo
  <2> QED BY <1>1, <2>2, <2>4, <2>6, OnwardKeeps
<1>5. CASE SweepFactors(r)
  <2> DEFINE keys == PasskeysOf(req[r].user)
             next == [req[r] EXCEPT !.at = "sweepEnd", !.drops = keys]
  <2>1. keys \in SUBSET Passkey /\ At(r, "revoke")
    BY <1>1, <1>5 DEF TypeOK, PasskeysOf, SweepFactors
  <2>2. Becomes(r, next) /\ keys = PasskeysOf(req[r].user)
    BY <1>5 DEF SweepFactors
  <2> HIDE DEF keys
  <2>3. next \in RequestState
    BY <1>2, <2>1 DEF RequestState, Step
  <2>4. /\ next.at = "sweepEnd" /\ next.answer = "none" /\ next.user = req[r].user
        /\ next.holds = req[r].holds /\ next.locked = req[r].locked
        /\ next.counted = req[r].counted /\ next.drops = keys
    BY <1>2 DEF RequestState
  <2> HIDE DEF next
  <2>5. MayGoOnTo(r, next)
    BY <1>3, <2>1, <2>2, <2>4 DEF MayGoOnTo
  <2> QED BY <1>1, <2>2, <2>3, <2>5, OnwardKeeps
<1> QED BY <1>1, <1>4, <1>5

LEMMA AbandonKeeps ==
    ASSUME Inv, NEW r \in Request, Abandon(r)
    PROVE  Quiet /\ Keeps(r)
BY EndKeeps DEF Abandon, Quiet, Answer

-----------------------------------------------------------------------------
(* Steps that others see *)

\* Whoever is left without a lock is apart from everybody.
LEMMA ApartKept ==
    ASSUME Inv, NEW r \in Request, \A q \in Request \ {r} : req'[q] = req[q],
           req'[r].holds = NoUser, req'[r].locked = {}, req'[r].at # "commit"
    PROVE  \A p, q \in Request : p # q => Apart(p, q)'
<1> SUFFICES ASSUME NEW p \in Request, NEW q \in Request, p # q PROVE Apart(p, q)'
  OBVIOUS
<1>1. Apart(p, q)
  BY DEF Inv
<1>2. CASE p # r /\ q # r
  <2>1. req'[p] = req[p] /\ req'[q] = req[q]
    BY <1>2
  <2> QED BY <1>1, <2>1 DEF Apart, At
<1>3. CASE p = r
  BY <1>3 DEF Apart, At
<1>4. CASE q = r
  BY <1>4 DEF Apart, At
<1> QED BY <1>2, <1>3, <1>4

LEMMA CommitKeeps ==
    ASSUME Inv, NEW r \in Request, Commit(r)
    PROVE  Inv'
<1> DEFINE new == Insert(r)
<1>1. TypeOK /\ At(r, "commit") /\ Shape(r) /\ req[r] \in RequestState
  BY DEF Inv, Commit, TypeOK
<1>2. /\ r \notin users /\ ~Taken(req[r].key)
      /\ req[r].user # r => req[r].user \in users /\ req[r].holds = req[r].user
  BY <1>1 DEF Shape, Progress, References, HoldsUser, At
<1>3. req[r].user \in UserId /\ req[r].key \in Key
  BY <1>1, <1>2 DEF TypeOK, UserId, RequestState
<1>4. /\ new \in Account
      /\ new.key = req[r].key /\ new.owner = req[r].user /\ new.by = r
  BY <1>3 DEF Insert, Account, Writer
<1>5. /\ accounts' = accounts \cup {new} /\ stored' = stored \cup {new}
      /\ UNCHANGED <<passkeys, announced, removed>>
  BY DEF Commit
<1>6. /\ users \subseteq users' /\ req[r].user \in users' /\ users' \subseteq UserId
      /\ users' \subseteq users \cup {r}
      /\ holder' \in users' \cup {NoUser} /\ verified' \subseteq users'
  BY <1>1, <1>2 DEF Commit, CreatesUser, TypeOK, UserId, At
<1>7. /\ req' \in [Request -> RequestState]
      /\ \A q \in Request \ {r} : req'[q] = req[q]
      /\ req'[r].at = "announce"
      /\ req'[r].key = req[r].key /\ req'[r].user = req[r].user
      /\ req'[r].holds = NoUser /\ req'[r].locked = {} /\ req'[r].counted = {}
  BY <1>1, <1>3, SignsInTo DEF Commit, Step
<1> HIDE DEF new
<1>8. TypeOK'
  BY <1>1, <1>4, <1>5, <1>6, <1>7 DEF TypeOK, InTransaction
<1>9. Shape(r)'
  BY <1>4, <1>5, <1>7
     DEF Shape, Progress, Locked, Answered, References, HoldsUser, At, SignedInBy
<1>10. ASSUME NEW q \in Request, q # r PROVE Shape(q)'
  <2>1. Shape(q) /\ req'[q] = req[q] /\ Apart(r, q) /\ Apart(q, r)
    BY <1>7, <1>10 DEF Inv
  <2>2. Progress(q)'
    <3>1. q \in users' => q \in users
      BY <1>6, <1>10
    <3>2. At(q, "commit") => ~Taken(req[q].key)'
      BY <1>1, <1>4, <1>5, <2>1 DEF Shape, Progress, Taken, Apart, At
    <3> QED BY <1>6, <2>1, <3>1, <3>2 DEF Shape, Progress, References, HoldsUser, At, Taken
  <2>3. Locked(q)'
    <3>1. req[q].at \in {"factors", "delete"} => Target(q)' \subseteq req[q].locked
      <4>1. SUFFICES ASSUME req[q].at \in {"factors", "delete"} PROVE Target(q)' \subseteq req[q].locked
        OBVIOUS
      <4>2. PICK a \in req[q].locked : a.key = req[q].key
        BY <2>1, <4>1 DEF Shape, Locked
      <4>3. a \in accounts
        BY <2>1 DEF Shape, Locked
      <4>4. new.key # req[q].key
        BY <1>2, <1>4, <4>2, <4>3 DEF Taken
      <4>5. Target(q)' = Target(q)
        BY <1>5, <2>1, <4>4 DEF Target, AccountsOf
      <4> QED BY <2>1, <4>1, <4>5 DEF Shape, Locked
    <3>2. req[q].at \in {"revoke", "sweepEnd"} => AccountsOf(req[q].user)' \subseteq req[q].locked
      <4>1. SUFFICES ASSUME req[q].at \in {"revoke", "sweepEnd"}
                     PROVE  AccountsOf(req[q].user)' \subseteq req[q].locked
        OBVIOUS
      <4>2. req[q].user \in users /\ req[q].holds = req[q].user
        BY <2>1, <4>1 DEF Shape, Progress, References, HoldsUser
      <4>3. req[q].user # NoUser
        BY <1>1, <4>2, NamesAreDistinct DEF TypeOK
      <4>4. new.owner # req[q].user
        BY <1>2, <1>4, <2>1, <4>2, <4>3 DEF Apart
      <4>5. AccountsOf(req[q].user)' = AccountsOf(req[q].user)
        BY <1>5, <2>1, <4>4 DEF AccountsOf
      <4> QED BY <2>1, <4>1, <4>5 DEF Shape, Locked
    <3> QED BY <1>5, <2>1, <3>1, <3>2 DEF Shape, Locked, At, PasskeysOf
  <2>4. Answered(q)'
    BY <1>5, <2>1 DEF Shape, Answered, SignedInBy, At
  <2> QED BY <2>2, <2>3, <2>4 DEF Shape
<1>11. \A p, q \in Request : p # q => Apart(p, q)'
  BY <1>7, ApartKept
<1>12. OneOwner'
  <2>1. \A a \in accounts : a.key # new.key
    BY <1>2, <1>4 DEF Taken
  <2> QED BY <1>4, <1>5, <1>6, <2>1 DEF Inv, OneOwner
<1>13. AnnouncedWasStored' /\ History'
  BY <1>5 DEF Inv, AnnouncedWasStored, History
<1> QED BY <1>8, <1>9, <1>10, <1>11, <1>12, <1>13 DEF Inv

LEMMA AnnounceKeeps ==
    ASSUME Inv, NEW r \in Request, Announce(r)
    PROVE  Inv'
<1>1. TypeOK /\ At(r, "announce") /\ Shape(r) /\ req[r] \in RequestState
  BY DEF Inv, Announce, TypeOK
<1>2. /\ announced' = announced \cup {[key |-> req[r].key, by |-> r]}
      /\ UNCHANGED <<users, holder, verified, accounts, passkeys, stored, removed>>
  BY DEF Announce
<1>3. /\ req' \in [Request -> RequestState]
      /\ \A q \in Request \ {r} : req'[q] = req[q]
      /\ req'[r].at = "done" /\ req'[r].op = req[r].op /\ req'[r].answer = req[r].answer
      /\ req'[r].key = req[r].key /\ req'[r].user = req[r].user
      /\ req'[r].holds = NoUser /\ req'[r].locked = {} /\ req'[r].counted = {}
  BY <1>1, MovesTo DEF Announce, Step, TypeOK, InTransaction, At, Shape, Locked
<1>4. TypeOK'
  <2>1. [key |-> req[r].key, by |-> r] \in [key: Key, by: Request]
    BY <1>1 DEF RequestState
  <2> QED BY <1>1, <1>2, <1>3, <2>1 DEF TypeOK, InTransaction
<1>5. Shape(r)'
  BY <1>1, <1>2, <1>3
     DEF Shape, Progress, Locked, Answered, References, HoldsUser, At, SignedInBy
<1>6. ASSUME NEW q \in Request, q # r PROVE Shape(q)'
  BY <1>2, <1>3, <1>6, ShapeKept DEF Inv
<1>7. \A p, q \in Request : p # q => Apart(p, q)'
  BY <1>3, ApartKept
<1>8. OneOwner' /\ History'
  BY <1>2 DEF Inv, OneOwner, History
<1>9. AnnouncedWasStored'
  BY <1>1, <1>2 DEF Inv, AnnouncedWasStored, Shape, Answered
<1> QED BY <1>4, <1>5, <1>6, <1>7, <1>8, <1>9 DEF Inv

\* What is removed was locked by whoever removes it.
LEMMA RemovalKeeps ==
    ASSUME Inv, NEW r \in Request, NEW q \in Request, q # r, req'[q] = req[q],
           accounts' \subseteq accounts, passkeys' \subseteq passkeys,
           accounts \ accounts' \subseteq req[r].locked,
           UNCHANGED <<users, stored>>
    PROVE  Shape(q)'
<1>1. Shape(q) /\ Apart(r, q)
  BY DEF Inv
<1>2. Progress(q)'
  BY <1>1 DEF Shape, Progress, References, HoldsUser, At, Taken
<1>3. req[q].locked \subseteq accounts'
  BY <1>1 DEF Shape, Locked, Apart
<1>4. Locked(q)'
  BY <1>1, <1>3 DEF Shape, Locked, At, Target, AccountsOf, PasskeysOf
<1>5. Answered(q)'
  BY <1>1 DEF Shape, Answered, SignedInBy, At
<1> QED BY <1>2, <1>4, <1>5 DEF Shape

\* Whoever ends without a sign-in is in good shape.
LEMMA EndShape ==
    ASSUME Inv, NEW r \in Request, NEW answer \in Answer \ {"signedIn"}, Ends(r, answer)
    PROVE  /\ req' \in [Request -> RequestState]
           /\ \A q \in Request \ {r} : req'[q] = req[q]
           /\ req'[r].holds = NoUser /\ req'[r].locked = {} /\ ~(req'[r].at = "commit")
           /\ Shape(r)'
<1>1. /\ req' \in [Request -> RequestState]
      /\ \A q \in Request \ {r} : req'[q] = req[q]
      /\ req'[r].at = "done" /\ req'[r].answer = answer
      /\ req'[r].holds = NoUser /\ req'[r].locked = {} /\ req'[r].counted = {}
  BY EndsTo DEF Inv
<1>2. Shape(r)'
  BY <1>1 DEF Shape, Progress, Locked, Answered, References, HoldsUser, At, SignedInBy
<1> QED BY <1>1, <1>2

LEMMA DeleteAccountKeeps ==
    ASSUME Inv, NEW r \in Request, DeleteAccount(r)
    PROVE  Inv'
<1>1. TypeOK /\ At(r, "delete") /\ Shape(r) /\ req[r] \in RequestState
  BY DEF Inv, DeleteAccount, TypeOK
<1>2. /\ accounts' = accounts \ Target(r) /\ removed' = removed \cup {req[r].key}
      /\ UNCHANGED <<users, holder, verified, passkeys, announced, stored>>
  BY DEF DeleteAccount
<1>3. /\ req' \in [Request -> RequestState]
      /\ \A q \in Request \ {r} : req'[q] = req[q]
      /\ req'[r].holds = NoUser /\ req'[r].locked = {} /\ ~(req'[r].at = "commit")
      /\ Shape(r)'
  BY EndShape DEF DeleteAccount, Answer
<1>4. TypeOK'
  <2>1. req[r].key \in Key
    BY <1>1 DEF RequestState
  <2> QED BY <1>1, <1>2, <1>3, <2>1 DEF TypeOK, InTransaction
<1>5. ASSUME NEW q \in Request, q # r PROVE Shape(q)'
  <2>1. Target(r) \subseteq req[r].locked
    BY <1>1 DEF Shape, Locked, At
  <2> QED BY <1>2, <1>3, <1>5, <2>1, RemovalKeeps
<1>6. \A p, q \in Request : p # q => Apart(p, q)'
  BY <1>3, ApartKept
<1>7. OneOwner' /\ AnnouncedWasStored' /\ History'
  BY <1>2 DEF Inv, OneOwner, AnnouncedWasStored, History, Target
<1> QED BY <1>3, <1>4, <1>5, <1>6, <1>7 DEF Inv

LEMMA CommitSweepKeeps ==
    ASSUME Inv, NEW r \in Request, CommitSweep(r)
    PROVE  Inv'
<1>1. TypeOK /\ At(r, "sweepEnd") /\ Shape(r) /\ req[r] \in RequestState
  BY DEF Inv, CommitSweep, TypeOK
<1>2. /\ accounts' = accounts \ req[r].locked /\ passkeys' = passkeys \ req[r].drops
      /\ verified' = verified \cup {req[r].user}
      /\ removed' = removed \cup {a.key : a \in req[r].locked}
      /\ UNCHANGED <<users, holder, announced, stored>>
  BY DEF CommitSweep
<1>3. /\ req' \in [Request -> RequestState]
      /\ \A q \in Request \ {r} : req'[q] = req[q]
      /\ req'[r].holds = NoUser /\ req'[r].locked = {} /\ ~(req'[r].at = "commit")
      /\ Shape(r)'
  BY EndShape DEF CommitSweep, Answer
<1>4. TypeOK'
  <2>1. req[r].user \in users
    BY <1>1 DEF Shape, Progress, References, At
  <2>2. {a.key : a \in req[r].locked} \subseteq Key
    BY <1>1 DEF RequestState, Account
  <2> QED BY <1>1, <1>2, <1>3, <2>1, <2>2 DEF TypeOK, InTransaction
<1>5. ASSUME NEW q \in Request, q # r PROVE Shape(q)'
  BY <1>2, <1>3, <1>5, RemovalKeeps
<1>6. \A p, q \in Request : p # q => Apart(p, q)'
  BY <1>3, ApartKept
<1>7. OneOwner' /\ AnnouncedWasStored' /\ History'
  BY <1>2 DEF Inv, OneOwner, AnnouncedWasStored, History
<1> QED BY <1>3, <1>4, <1>5, <1>6, <1>7 DEF Inv

LEMMA DropPasskeyKeeps ==
    ASSUME Inv, NEW r \in Request, DropPasskey(r)
    PROVE  Inv'
<1>1. /\ passkeys' = passkeys \ {req[r].passkey}
      /\ UNCHANGED <<users, holder, verified, accounts, announced, stored, removed>>
  BY DEF DropPasskey
<1>2. /\ req' \in [Request -> RequestState]
      /\ \A q \in Request \ {r} : req'[q] = req[q]
      /\ req'[r].holds = NoUser /\ req'[r].locked = {} /\ ~(req'[r].at = "commit")
      /\ Shape(r)'
  BY EndShape DEF DropPasskey, Answer
<1>3. TypeOK'
  BY <1>1, <1>2 DEF Inv, TypeOK, InTransaction
<1>4. ASSUME NEW q \in Request, q # r PROVE Shape(q)'
  BY <1>1, <1>2, <1>4, RemovalKeeps
<1>5. \A p, q \in Request : p # q => Apart(p, q)'
  BY <1>2, ApartKept
<1>6. OneOwner' /\ AnnouncedWasStored' /\ History'
  BY <1>1 DEF Inv, OneOwner, AnnouncedWasStored, History
<1> QED BY <1>2, <1>3, <1>4, <1>5, <1>6 DEF Inv

LEMMA CreatePasskeyKeeps ==
    ASSUME Inv, NEW r \in Request, CreatePasskey(r)
    PROVE  Inv'
<1> DEFINE new == [owner |-> req[r].user, by |-> r]
<1>1. TypeOK /\ At(r, "register") /\ Shape(r) /\ MayReference(r, req[r].user)
  BY DEF Inv, CreatePasskey
<1>2. /\ passkeys' = passkeys \cup {new}
      /\ UNCHANGED <<users, holder, verified, accounts, announced, stored, removed>>
  BY DEF CreatePasskey
<1>3. /\ req' \in [Request -> RequestState]
      /\ \A q \in Request \ {r} : req'[q] = req[q]
      /\ req'[r].holds = NoUser /\ req'[r].locked = {} /\ ~(req'[r].at = "commit")
      /\ Shape(r)'
  BY EndShape DEF CreatePasskey, Answer
<1>4. new \in Passkey /\ new.owner = req[r].user
  BY <1>1 DEF TypeOK, Passkey, Writer, Shape, Progress, References, At
<1> HIDE DEF new
<1>5. TypeOK'
  BY <1>1, <1>2, <1>3, <1>4 DEF TypeOK, InTransaction
<1>6. ASSUME NEW q \in Request, q # r PROVE Shape(q)'
  <2>1. Shape(q) /\ req'[q] = req[q]
    BY <1>3, <1>6 DEF Inv
  <2>2. At(q, "sweepEnd") => new.owner # req[q].user
    BY <1>1, <1>4, <1>6, <2>1
       DEF Shape, Progress, HoldsUser, At, MayReference, MayLockUser
  <2>3. At(q, "sweepEnd") => PasskeysOf(req[q].user)' = PasskeysOf(req[q].user)
    BY <1>2, <2>1, <2>2 DEF PasskeysOf
  <2>4. Locked(q)'
    BY <1>2, <2>1, <2>3 DEF Shape, Locked, At, Target, AccountsOf
  <2>5. Progress(q)' /\ Answered(q)'
    BY <1>2, <2>1 DEF Shape, Progress, References, HoldsUser, At, Taken, Answered, SignedInBy
  <2> QED BY <2>4, <2>5 DEF Shape
<1>7. \A p, q \in Request : p # q => Apart(p, q)'
  BY <1>3, ApartKept
<1>8. OneOwner' /\ AnnouncedWasStored' /\ History'
  BY <1>2 DEF Inv, OneOwner, AnnouncedWasStored, History
<1> QED BY <1>3, <1>5, <1>6, <1>7, <1>8 DEF Inv

-----------------------------------------------------------------------------
(* Theorems *)

LEMMA InitInv == Init => Inv
<1> SUFFICES ASSUME Init PROVE Inv
  OBVIOUS
<1>1. \A r \in Request : req[r] = NoRequest /\ NoRequest \in RequestState
  BY NoRequestIsTyped DEF Init
<1>2. /\ NoRequest.at = "idle" /\ NoRequest.answer = "none" /\ NoRequest.op = "none"
      /\ NoRequest.holds = NoUser /\ NoRequest.locked = {} /\ NoRequest.counted = {}
  BY DEF NoRequest
<1>3. accounts \subseteq Account /\ passkeys \subseteq Passkey
  BY DEF Init, Account, Passkey, Key, UserId, Writer
<1>4. TypeOK
  BY <1>1, <1>2, <1>3 DEF Init, TypeOK, UserId
<1>5. ASSUME NEW r \in Request PROVE Shape(r)
  <2>1. r \notin users
    BY NamesAreDistinct DEF Init
  <2> QED BY <1>1, <1>2, <2>1
          DEF Shape, Progress, Locked, Answered, References, HoldsUser, At, SignedInBy
<1>6. \A p, q \in Request : p # q => Apart(p, q)
  BY <1>1, <1>2 DEF Apart, At
<1>7. OneOwner
  BY DEF Init, OneOwner
<1>8. AnnouncedWasStored /\ History
  BY DEF Init, AnnouncedWasStored, History
<1> QED BY <1>4, <1>5, <1>6, <1>7, <1>8 DEF Inv

LEMMA StepInv == Inv /\ [Next]_vars => Inv'
<1> SUFFICES ASSUME Inv, [Next]_vars PROVE Inv'
  OBVIOUS
<1>1. CASE UNCHANGED vars
  BY <1>1 DEF vars, Inv, TypeOK, InTransaction, Shape, Progress, Locked, Answered, References,
     HoldsUser, At, Taken, Target, AccountsOf, PasskeysOf, SignedInBy, Apart, OneOwner,
     AnnouncedWasStored, History
<1>2. ASSUME NEW r \in Request, Start(r) PROVE Inv'
  BY <1>2, StartKeeps, QuietKeeps
<1>3. ASSUME NEW r \in Request, Continue(r) PROVE Inv'
  <2>1. CASE \/ FindIdentity(r) \/ FindByAddress(r) \/ CreateUser(r) \/ LockUserRow(r)
             \/ InsertAccount(r)
    BY <2>1, FindIdentityKeeps, FindByAddressKeeps, CreateUserKeeps, LockUserRowKeeps,
       InsertAccountKeeps, QuietKeeps
  <2>2. CASE \/ LockRows(r) \/ CountFactors(r) \/ AnotherAccount(r) \/ AnotherPasskey(r)
             \/ SweepRows(r) \/ SweepFactors(r)
    BY <2>2, LockRowsKeeps, CountFactorsKeeps, AnotherWayKeeps, SweepKeeps, QuietKeeps
  <2>3. CASE \/ Commit(r) \/ Announce(r) \/ DeleteAccount(r) \/ CommitSweep(r)
             \/ DropPasskey(r) \/ CreatePasskey(r)
    BY <2>3, CommitKeeps, AnnounceKeeps, DeleteAccountKeeps, CommitSweepKeeps,
       DropPasskeyKeeps, CreatePasskeyKeeps
  <2> QED BY <1>3, <2>1, <2>2, <2>3 DEF Continue
<1>4. ASSUME NEW r \in Request, Abandon(r) PROVE Inv'
  BY <1>4, AbandonKeeps, QuietKeeps
<1> QED BY <1>1, <1>2, <1>3, <1>4 DEF Next

LEMMA InvAlways == Spec => []Inv
BY InitInv, StepInv, PTL DEF Spec

\* Type correctness, and no lock outlives its transaction.
THEOREM TypeCorrect == Spec => []TypeOK
<1>1. Inv => TypeOK
  BY DEF Inv
<1> QED BY <1>1, InvAlways, PTL

\* Racing callbacks, links and sign-ups leave every identity with one owner.
THEOREM OneOwnerEach == Spec => []OneOwner
<1>1. Inv => OneOwner
  BY DEF Inv
<1> QED BY <1>1, InvAlways, PTL

\* Whoever is answered for one identity is answered as one person.
THEOREM OnePersonEach == Spec => []OneIdentityOnePerson
<1>1. Inv => OneIdentityOnePerson
  <2> SUFFICES ASSUME Inv, NEW q \in Request, NEW r \in Request, SignedInBy(q), SignedInBy(r),
                      req[q].key = req[r].key, req[q].key \notin removed
               PROVE  req[q].user = req[r].user
    BY DEF OneIdentityOnePerson
  <2>1. PICK a \in stored : a.key = req[q].key /\ a.owner = req[q].user
    BY DEF Inv, Shape, Answered
  <2>2. PICK b \in stored : b.key = req[r].key /\ b.owner = req[r].user
    BY DEF Inv, Shape, Answered
  <2>3. a \in accounts /\ b \in accounts
    BY <2>1, <2>2 DEF Inv, History
  <2> QED BY <2>1, <2>2, <2>3 DEF Inv, OneOwner
<1> QED BY <1>1, InvAlways, PTL

\* What is announced was committed.
THEOREM AnnouncedIsTrue == Spec => []AnnouncedWasStored
<1>1. Inv => AnnouncedWasStored
  BY DEF Inv
<1> QED BY <1>1, InvAlways, PTL

\* No two unlinks count on each other's account.
THEOREM CountedStays == Spec => []CountedAccountStays
<1>1. Inv => CountedAccountStays
  BY DEF Inv, Shape, Locked, CountedAccountStays
<1> QED BY <1>1, InvAlways, PTL

\* Every step is of one request and leaves the others alone.
LEMMA OneAtATime ==
    ASSUME TypeOK, NEW q \in Request, Start(q) \/ Continue(q) \/ Abandon(q)
    PROVE  \A r \in Request \ {q} : req'[r] = req[r]
<1>1. \A state : Becomes(q, state) => \A r \in Request \ {q} : req'[r] = req[r]
  BY DEF TypeOK, Becomes
<1>2. CASE Start(q)
  BY <1>1, <1>2 DEF Start, Begins, Callback, Link, Unlink, Register, Sweep, Remove, SignUp
<1>3. CASE Continue(q)
  <2>1. CASE \/ FindIdentity(q) \/ FindByAddress(q) \/ CreateUser(q) \/ LockUserRow(q)
             \/ InsertAccount(q) \/ Commit(q) \/ Announce(q)
    BY <1>1, <2>1 DEF FindIdentity, FindByAddress, CreateUser, LockUserRow, InsertAccount,
       Commit, Announce, SignsIn, Ends, Refused
  <2>2. CASE ~(\/ FindIdentity(q) \/ FindByAddress(q) \/ CreateUser(q) \/ LockUserRow(q)
               \/ InsertAccount(q) \/ Commit(q) \/ Announce(q))
    BY <1>1, <1>3, <2>2 DEF Continue, LockRows, CountFactors, DeleteAccount, CreatePasskey,
       AnotherAccount, AnotherPasskey, DropPasskey, SweepRows, SweepFactors, CommitSweep, Ends
  <2> QED BY <2>1, <2>2
<1>4. CASE Abandon(q)
  BY <1>1, <1>4 DEF Abandon, Ends
<1> QED BY <1>2, <1>3, <1>4

\* A user is created with a way in, or not at all.
THEOREM ProvisionedWithAWayIn == Spec => ProvisionedWhole
<1> DEFINE Whole == \A u \in users' \ users : \E a \in accounts' : a.owner = u /\ a.signsIn
<1>1. [Next]_vars => [Whole]_vars
  <2> SUFFICES ASSUME Next PROVE users' = users \/ Whole
    BY DEF vars
  <2>1. PICK r \in Request : Start(r) \/ Continue(r) \/ Abandon(r)
    BY DEF Next
  <2>2. CASE Commit(r)
    <3>1. users' \ users \subseteq {r} /\ Insert(r) \in accounts'
      BY <2>2 DEF Commit
    <3>2. CASE CreatesUser(r)
      BY <3>1, <3>2 DEF CreatesUser, Insert
    <3>3. CASE ~CreatesUser(r)
      BY <2>2, <3>3 DEF Commit
    <3> QED BY <3>2, <3>3
  <2>3. CASE ~Commit(r)
    BY <2>1, <2>3 DEF Start, Callback, Link, Unlink, Register, Sweep, Remove, SignUp, Continue,
       FindIdentity, FindByAddress, CreateUser, LockUserRow, InsertAccount, Announce,
       LockRows, CountFactors, DeleteAccount, CreatePasskey, AnotherAccount, AnotherPasskey,
       DropPasskey, SweepRows, SweepFactors, CommitSweep, Abandon
  <2> QED BY <2>2, <2>3
<1> QED BY <1>1, PTL DEF Spec, ProvisionedWhole

\* The sweep of an unproven account leaves nothing of it, whatever was being attached.
THEOREM SweepIsComplete == Spec => SweepMissesNothing
<1> DEFINE Complete ==
        \A r \in Request :
            Reclaims(r) => \A m \in accounts' \cup passkeys' : m.owner # req[r].user
<1>1. Inv /\ [Next]_vars => [Complete]_vars
  <2> SUFFICES ASSUME Inv, Next, NEW r \in Request, Reclaims(r)
               PROVE  \A m \in accounts' \cup passkeys' : m.owner # req[r].user
    BY DEF vars
  <2>1. PICK q \in Request : Start(q) \/ Continue(q) \/ Abandon(q)
    BY DEF Next
  <2>2. /\ TypeOK /\ Shape(r)
        /\ At(r, "sweepEnd") /\ req'[r].answer = "removed" /\ req[r].answer = "none"
    BY DEF Inv, Reclaims, Shape, Progress, At
  <2>3. q = r
    BY <2>1, <2>2, OneAtATime
  <2>4. ~Start(r)
    BY <2>2 DEF Start, Begins, Callback, Link, Unlink, Register, Sweep, Remove, SignUp, At
  <2>5. ~Abandon(r)
    BY <2>2, EndsTo DEF Abandon, Answer
  <2>6. CommitSweep(r)
    BY <2>1, <2>2, <2>3, <2>4, <2>5 DEF Continue, FindIdentity, FindByAddress, CreateUser,
       LockUserRow, InsertAccount, Commit, Announce, LockRows, CountFactors, DeleteAccount,
       CreatePasskey, AnotherAccount, AnotherPasskey, DropPasskey, SweepRows, SweepFactors, At
  <2>7. accounts' = accounts \ req[r].locked /\ passkeys' = passkeys \ req[r].drops
    BY <2>6 DEF CommitSweep
  <2>8. AccountsOf(req[r].user) \subseteq req[r].locked /\ PasskeysOf(req[r].user) \subseteq req[r].drops
    BY <2>2 DEF Shape, Locked, At
  <2> QED BY <2>7, <2>8 DEF AccountsOf, PasskeysOf
<1> QED BY <1>1, InvAlways, PTL DEF Spec, SweepMissesNothing
=============================================================================
