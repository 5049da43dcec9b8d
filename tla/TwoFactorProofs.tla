--------------------------- MODULE TwoFactorProofs --------------------------
(***************************************************************************)
(* What TLAPS proves of TwoFactor, for any number of requests, any window  *)
(* of steps, any size of a set of recovery codes and any lifetimes.        *)
(*                                                                         *)
(* What a request makes is named after it, so the invariant says of each   *)
(* name where it is: a pending sign-in in its row, in one request that     *)
(* claimed it or in one session; a device token in one device or spent; a  *)
(* recovery code in the set or spent.  And it says that whoever made       *)
(* something is past making it.                                            *)
(***************************************************************************)
EXTENDS TwoFactor, TLAPS

-----------------------------------------------------------------------------
(* The invariant *)

\* What a request is about at each of its steps.
Fits(q) ==
    /\ q.at \in {"enrolment", "device", "issue"} => q.op = "signIn"
    /\ q.at = "mint" => q.op \in {"signIn", "verify"}
    /\ q.at \in {"claim", "reissue", "rewrite"} => q.op = "verify"
    /\ q.at \in {"check", "consume", "remember"} => q.op \in {"verify", "stepUp"}
    /\ q.at \in {"consume", "activate", "remember"} => q.code.kind = "totp"
    /\ q.op = "verify" /\ q.at # "done" => q.handle \in Writer
    /\ q.op # "verify" => q.handle = Nobody
    /\ q.at # "done" => q.answer = "none"

\* A request that has claimed the pending sign-in of its handle.
HoldsClaim(q) ==
    q.op = "verify" /\ q.at \in {"check", "consume", "mint", "reissue", "rewrite"}

\* What follows says something of a name: of the request f[w] that bears it.
Over(f, w) == w = Initial \/ (w \in Request /\ f[w].at = "done")

RowsApart(rows) == \A v, w \in rows : v.secret = w.secret => v = w
RowsOver(rows, f) == \A v \in rows : Over(f, v.secret)
ClaimsOver(f) == \A r \in Request : HoldsClaim(f[r]) => Over(f, f[r].handle)
ClaimsApart(f) ==
    \A q, r \in Request :
        HoldsClaim(f[q]) /\ HoldsClaim(f[r]) /\ f[q].handle = f[r].handle => q = r
ClaimedOrRow(rows, f) ==
    \A r \in Request : HoldsClaim(f[r]) => \A v \in rows : v.secret # f[r].handle
Finished(rows, f, made) ==
    \A s \in made : s.finishes # Nobody =>
        /\ Over(f, s.finishes)
        /\ \A v \in rows : v.secret # s.finishes
        /\ \A r \in Request : HoldsClaim(f[r]) => f[r].handle # s.finishes

\* A pending sign-in is a row, or claimed by one request, or one session; and
\* whoever issued it is done.
Handles ==
    /\ RowsApart(pending) /\ RowsOver(pending, req)
    /\ ClaimsOver(req) /\ ClaimsApart(req) /\ ClaimedOrRow(pending, req)
    /\ Finished(pending, req, sessions)
    /\ OneSessionPerSignIn

\* Whoever made a token: a request that remembered a browser is done, and one that
\* used a device goes on to its session.
HasToken(f, w) ==
    Over(f, w) \/ (w \in Request /\ f[w].op = "signIn" /\ f[w].at = "mint")

Devices ==
    /\ \A d, e \in devices : d.token = e.token \/ d.since = e.since => d = e
    /\ \A d \in devices : HasToken(req, d.token) /\ Over(req, d.since)
    /\ \A s \in skips : HasToken(req, s.token) /\ \A d \in devices : d.token # s.token
    /\ DeviceTokenOnce

\* A recovery code is in the set or was spent, and whoever made its set is past it.
HasSet(f, w) == w = Initial \/ (w \in Request /\ f[w].at \in {"forget", "done"})

Recovery ==
    /\ \A c \in codes : c.kind = "recovery" /\ HasSet(req, c.of)
    /\ \A p \in proofs : p.code.kind = "recovery" => HasSet(req, p.code.of) /\ p.code \notin codes

\* A code of the app that proved something is used up, or its enrolment is gone.
UsedUp(code) ==
    \/ code.of \in gone
    \/ totp.active /\ code.of = totp.secret /\ code.n <= totp.last

Steps ==
    /\ \A p \in proofs : p.code.kind = "totp" => UsedUp(p.code)
    /\ \A r \in Request : req[r].at \in {"consume", "activate"} =>
         req[r].code.of = totp.secret \/ req[r].code.of \in gone

\* Whoever had a browser remembered, that another request found, is done.
Secured ==
    /\ \A r \in Request : \A w \in before[r] : Over(req, w)
    /\ SecuredForgets

IInv ==
    /\ TypeOK
    /\ \A r \in Request : Fits(req[r])
    /\ Handles
    /\ Devices
    /\ Recovery
    /\ Steps
    /\ OneProofPerCode
    /\ Secured

-----------------------------------------------------------------------------
(* What a step of a request does *)

\* It has secured the account.
Secures(s) ==
    /\ s.answer = "done"
    /\ s.op \in Forgetful \/ (s.op \in {"verify", "stepUp"} /\ s.code.kind = "recovery")

\* How request r goes on as s.
Course(r, s) ==
    /\ req' = [req EXCEPT ![r] = s]
    /\ Fits(s)
    /\ req[r].at # "done"
    /\ HoldsClaim(s) => \/ Claim(r)
                        \/ /\ HoldsClaim(req[r])
                           /\ s.handle = req[r].handle /\ s.until = req[r].until
    /\ req[r].at \in {"mint", "rewrite"} => ~HoldsClaim(s)
    /\ s.at = "rewrite" => s.left = s.until - now
    /\ req[r].op = "signIn" /\ req[r].at = "mint" => s.at = "done"
    /\ req[r].at = "forget" => s.at = "done"
    /\ s.at \in {"consume", "activate"} => s.code.of = totp.secret /\ totp' = totp
    /\ Secures(s) => devices' = {}
    /\ \/ before' = before
       \/ before' = [before EXCEPT ![r] = {d.since : d \in devices}]

\* Which steps change what.
Changes(r) ==
    /\ now' = now
    /\ pending' = pending \/ IssuePending(r) \/ Claim(r) \/ Reissue(r)
    /\ sessions' = sessions \/ Mint(r)
    /\ devices' \subseteq devices \/ UseDevice(r) \/ Remember(r)
    /\ skips' = skips \/ UseDevice(r)
    /\ codes' \subseteq codes \/ ReplaceCodes(r)
    /\ proofs' = proofs \/ ConsumeStep(r) \/ ConsumeRecoveryCode(r) \/ Activate(r)
    /\ \/ totp' = totp /\ gone' = gone
       \/ ConsumeStep(r) \/ Activate(r)
       \/ /\ gone' = gone \cup {totp.secret}
          /\ totp' \in {NoEnrolment, [secret |-> r, active |-> FALSE, last |-> Never]}

LEMMA NamesAreWriters ==
  /\ Request \subseteq Writer /\ Initial \in Writer /\ Made \subseteq Writer
  /\ Nobody \notin Writer
  BY NamesAreDistinct, Zenon DEF Writer, Made

Answers == {"none", "refused", "challenged", "done"}

LEMMA Resting == NoRequest \in RequestState
<1> NoCode \in Code
  BY DEF NoCode, Code, Writer
<1> QED
  BY DEF RequestState, NoRequest, At, Op

\* What becomes of a request that goes to a step, and of one that ends.
LEMMA Going ==
  ASSUME req \in [Request -> RequestState], NEW r \in Request, NEW step \in At, Goes(r, step)
  PROVE  /\ req' = [req EXCEPT ![r] = req'[r]]
         /\ req'[r] \in RequestState
         /\ req'[r].at = step
         /\ req'[r].op = req[r].op /\ req'[r].code = req[r].code
         /\ req'[r].handle = req[r].handle /\ req'[r].until = req[r].until
         /\ req'[r].answer = req[r].answer
<1>1. req[r] \in RequestState
  OBVIOUS
<1>2. req' = [req EXCEPT ![r] = [req[r] EXCEPT !.at = step]]
  BY DEF Goes, Becomes
<1> QED
  BY <1>1, <1>2 DEF RequestState

LEMMA Ending ==
  ASSUME req \in [Request -> RequestState], NEW r \in Request, NEW a \in Answers, Ends(r, a)
  PROVE  /\ req' = [req EXCEPT ![r] = req'[r]]
         /\ req'[r] \in RequestState
         /\ req'[r].at = "done"
         /\ req'[r].op = req[r].op /\ req'[r].code = req[r].code
         /\ req'[r].handle = Nobody /\ req'[r].answer = a
<1>1. req[r].op \in Op \cup {"none"} /\ req[r].code \in Code /\ "done" \in At
  BY DEF RequestState, At
<1>2. req' = [req EXCEPT ![r] = [NoRequest EXCEPT !.op = req[r].op, !.code = req[r].code,
                                                  !.at = "done", !.answer = a]]
  BY DEF Ends, Becomes
<1>3. NoRequest.handle = Nobody
  BY DEF NoRequest
<1> QED
  BY <1>1, <1>2, <1>3, Resting DEF RequestState, Answers

\* Of a request that goes on.
LEMMA Continues ==
  ASSUME TypeOK, NEW r \in Request, Fits(req[r]), Continue(r)
  PROVE  Changes(r) /\ req'[r] \in RequestState /\ Course(r, req'[r])
<1> USE DEF TypeOK
<1>1. CASE FindEnrolment(r)
  <2>1. Changes(r)
    BY <1>1 DEF FindEnrolment, Changes
  <2>2. req'[r] \in RequestState /\ Course(r, req'[r])
    BY <1>1, Going, Ending, NamesAreWriters
       DEF FindEnrolment, At, Answers, Course,
           Fits, HoldsClaim, Secures, Forgetful
  <2> QED BY <2>1, <2>2
<1>2. CASE UseDevice(r)
  <2>1. Changes(r)
    BY <1>2 DEF UseDevice, Changes
  <2>2. req'[r] \in RequestState /\ Course(r, req'[r])
    BY <1>2, Going, Ending, NamesAreWriters
       DEF UseDevice, At, Answers, Course,
           Fits, HoldsClaim, Secures, Forgetful
  <2> QED BY <2>1, <2>2
<1>3. CASE NoDevice(r)
  <2>1. Changes(r)
    BY <1>3 DEF NoDevice, Changes
  <2>2. req'[r] \in RequestState /\ Course(r, req'[r])
    BY <1>3, Going, Ending, NamesAreWriters
       DEF NoDevice, At, Answers, Course,
           Fits, HoldsClaim, Secures, Forgetful
  <2> QED BY <2>1, <2>2
<1>4. CASE IssuePending(r)
  <2>1. Changes(r)
    BY <1>4 DEF IssuePending, Changes
  <2>2. req'[r] \in RequestState /\ Course(r, req'[r])
    BY <1>4, Going, Ending, NamesAreWriters
       DEF IssuePending, At, Answers, Course,
           Fits, HoldsClaim, Secures, Forgetful
  <2> QED BY <2>1, <2>2
<1>5. CASE Mint(r)
  <2>1. Changes(r)
    BY <1>5 DEF Mint, Changes
  <2>2. req[r].code.kind \in {"totp", "recovery"}
    BY DEF RequestState, Code
  <2>3. req'[r] \in RequestState /\ Course(r, req'[r])
    BY <1>5, <2>2, Going, Ending, NamesAreWriters
       DEF Mint, Settles, Recovering, At, Answers, Course,
           Fits, HoldsClaim, Secures, Forgetful
  <2> QED BY <2>1, <2>3
<1>6. CASE Claim(r)
  <2>1. Changes(r)
    BY <1>6 DEF Claim, Changes
  <2>2. PICK v \in pending :
          req' = [req EXCEPT ![r] = [req[r] EXCEPT !.at = "check", !.until = v.expiresAt]]
    BY <1>6 DEF Claim, Claimable, Becomes
  <2>3. v.expiresAt \in Int /\ "check" \in At /\ req[r] \in RequestState
    BY DEF Pending, At
  <2>4. req'[r] \in RequestState
    BY <2>2, <2>3 DEF RequestState
  <2>5. Course(r, req'[r])
    BY <1>6, <2>2, <2>3 DEF Claim, Course, Fits, HoldsClaim, Secures, RequestState
  <2> QED BY <2>1, <2>4, <2>5
<1>7. CASE ClaimNothing(r)
  <2>1. Changes(r)
    BY <1>7 DEF ClaimNothing, Changes
  <2>2. req'[r] \in RequestState /\ Course(r, req'[r])
    BY <1>7, Going, Ending, NamesAreWriters
       DEF ClaimNothing, At, Answers, Course,
           Fits, HoldsClaim, Secures, Forgetful
  <2> QED BY <2>1, <2>2
<1>8. CASE RateLimited(r)
  <2>1. Changes(r)
    BY <1>8 DEF RateLimited, Changes
  <2>2. req'[r] \in RequestState /\ Course(r, req'[r])
    BY <1>8, Going, Ending, NamesAreWriters
       DEF RateLimited, Fails, Recovering, At, Answers, Course,
           Fits, HoldsClaim, Secures, Forgetful
  <2> QED BY <2>1, <2>2
<1>9. CASE CheckTotp(r)
  <2>1. Changes(r)
    BY <1>9 DEF CheckTotp, Changes
  <2>2. req'[r] \in RequestState /\ Course(r, req'[r])
    BY <1>9, Going, Ending, NamesAreWriters
       DEF CheckTotp, Fails, Recovering, Matches, Active, At, Answers, Course,
           Fits, HoldsClaim, Secures, Forgetful
  <2> QED BY <2>1, <2>2
<1>10. CASE ConsumeStep(r)
  <2>1. Changes(r)
    BY <1>10 DEF ConsumeStep, Changes
  <2>2. req'[r] \in RequestState /\ Course(r, req'[r])
    BY <1>10, Going, Ending, NamesAreWriters
       DEF ConsumeStep, Settles, Recovering, Proven, Fails, At, Answers, Course,
           Fits, HoldsClaim, Secures, Forgetful
  <2> QED BY <2>1, <2>2
<1>11. CASE ConsumeRecoveryCode(r)
  <2>1. Changes(r)
    BY <1>11 DEF ConsumeRecoveryCode, Changes
  <2>2. req'[r] \in RequestState /\ Course(r, req'[r])
    BY <1>11, Going, Ending, NamesAreWriters
       DEF ConsumeRecoveryCode, Settles, Recovering, Proven, Fails, At, Answers, Course,
           Fits, HoldsClaim, Secures, Forgetful
  <2> QED BY <2>1, <2>2
<1>12. CASE FindLeft(r)
  <2>1. Changes(r)
    BY <1>12 DEF FindLeft, Changes
  <2>2. CASE req[r].until > now
    <3>1. req' = [req EXCEPT ![r] = [req[r] EXCEPT !.at = "rewrite", !.left = req[r].until - now]]
      BY <1>12, <2>2 DEF FindLeft, Becomes
    <3>2. "rewrite" \in At /\ req[r] \in RequestState /\ req[r].until - now \in Nat
      BY <2>2 DEF At, RequestState
    <3>3. req'[r] \in RequestState
      BY <3>1, <3>2 DEF RequestState
    <3>4. Course(r, req'[r])
      BY <1>12, <3>1, <3>2 DEF FindLeft, Course, Fits, HoldsClaim, Secures, RequestState
    <3> QED BY <2>1, <3>3, <3>4
  <2>3. CASE ~(req[r].until > now)
    BY <1>12, <2>1, <2>3, Ending, NamesAreWriters
       DEF FindLeft, At, Answers, Course, Fits, HoldsClaim, Secures, Forgetful
  <2> QED BY <2>2, <2>3
<1>13. CASE Reissue(r)
  <2>1. Changes(r)
    BY <1>13 DEF Reissue, Changes
  <2>2. req'[r] \in RequestState /\ Course(r, req'[r])
    BY <1>13, Going, Ending, NamesAreWriters
       DEF Reissue, At, Answers, Course,
           Fits, HoldsClaim, Secures, Forgetful
  <2> QED BY <2>1, <2>2
<1>14. CASE Remember(r)
  <2>1. Changes(r)
    BY <1>14 DEF Remember, Changes
  <2>2. req'[r] \in RequestState /\ Course(r, req'[r])
    BY <1>14, Going, Ending, NamesAreWriters
       DEF Remember, At, Answers, Course,
           Fits, HoldsClaim, Secures, Forgetful
  <2> QED BY <2>1, <2>2
<1>15. CASE FindPending(r)
  <2>1. Changes(r)
    BY <1>15 DEF FindPending, Changes
  <2>2. req'[r] \in RequestState /\ Course(r, req'[r])
    BY <1>15, Going, Ending, NamesAreWriters
       DEF FindPending, Matches, At, Answers, Course,
           Fits, HoldsClaim, Secures, Forgetful
  <2> QED BY <2>1, <2>2
<1>16. CASE Activate(r)
  <2>1. Changes(r)
    BY <1>16 DEF Activate, Changes
  <2>2. req'[r] \in RequestState /\ Course(r, req'[r])
    BY <1>16, Going, Ending, NamesAreWriters
       DEF Activate, At, Answers, Course,
           Fits, HoldsClaim, Secures, Forgetful
  <2> QED BY <2>1, <2>2
<1>17. CASE FindActive(r)
  <2>1. Changes(r)
    BY <1>17 DEF FindActive, Changes
  <2>2. req'[r] \in RequestState /\ Course(r, req'[r])
    BY <1>17, Going, Ending, NamesAreWriters
       DEF FindActive, At, Answers, Course,
           Fits, HoldsClaim, Secures, Forgetful
  <2> QED BY <2>1, <2>2
<1>18. CASE ReadCodes(r)
  <2>1. Changes(r)
    BY <1>18 DEF ReadCodes, Changes
  <2>2. req' = [req EXCEPT ![r] = [req[r] EXCEPT !.at = "insert", !.held = codes]]
    BY <1>18 DEF ReadCodes, Becomes
  <2>3. "insert" \in At /\ req[r] \in RequestState
    BY DEF At
  <2>4. req'[r] \in RequestState
    BY <2>2, <2>3 DEF RequestState
  <2>5. Course(r, req'[r])
    BY <1>18, <2>2, <2>3 DEF ReadCodes, Course, Fits, HoldsClaim, Secures, RequestState
  <2> QED BY <2>1, <2>4, <2>5
<1>19. CASE ReplaceCodes(r)
  <2>1. Changes(r)
    BY <1>19 DEF ReplaceCodes, Changes
  <2>2. req' = [req EXCEPT ![r] = [req[r] EXCEPT !.at = "forget", !.held = {}]]
    BY <1>19 DEF ReplaceCodes, Becomes
  <2>3. "forget" \in At /\ req[r] \in RequestState
    BY DEF At
  <2>4. req'[r] \in RequestState
    BY <2>2, <2>3 DEF RequestState
  <2>5. Course(r, req'[r])
    BY <1>19, <2>2, <2>3 DEF ReplaceCodes, Course, Fits, HoldsClaim, Secures, RequestState
  <2> QED BY <2>1, <2>4, <2>5
<1>20. CASE DropCodes(r)
  <2>1. Changes(r)
    BY <1>20 DEF DropCodes, Changes
  <2>2. req'[r] \in RequestState /\ Course(r, req'[r])
    BY <1>20, Going, Ending, NamesAreWriters
       DEF DropCodes, At, Answers, Course,
           Fits, HoldsClaim, Secures, Forgetful
  <2> QED BY <2>1, <2>2
<1>21. CASE Forget(r)
  <2>1. Changes(r)
    BY <1>21 DEF Forget, Changes
  <2>2. req'[r] \in RequestState /\ Course(r, req'[r])
    BY <1>21, Going, Ending, NamesAreWriters
       DEF Forget, At, Answers, Course,
           Fits, HoldsClaim, Secures, Forgetful
  <2> QED BY <2>1, <2>2
<1> QED
  BY <1>1, <1>2, <1>3, <1>4, <1>5, <1>6, <1>7, <1>8, <1>9, <1>10, <1>11, <1>12,
     <1>13, <1>14, <1>15, <1>16, <1>17, <1>18, <1>19, <1>20, <1>21, Zenon DEF Continue

LEMMA PresentedIsCode == Presented \subseteq Code
<1>1. 0..(MaxTime + Window) \subseteq Nat /\ 1..SetSize \subseteq Nat
  BY SizesAreNumbers
<1> QED
  BY <1>1, NamesAreWriters DEF Presented, Code

LEMMA OpsAndSteps ==
  /\ {"signIn", "verify", "stepUp", "start", "confirm", "regenerate", "disable",
       "sweep", "revoke", "revokeOne"} \subseteq Op
  /\ {"mint", "enrolment", "claim", "check", "pending", "regenerate", "dropCodes",
       "forget", "done"} \subseteq At
  BY DEF Op, At

\* Of a request that begins.
LEMMA Starts ==
  ASSUME TypeOK, NEW r \in Request, Fits(req[r]), Start(r)
  PROVE  Changes(r) /\ req'[r] \in RequestState /\ Course(r, req'[r])
<1> USE DEF TypeOK
<1>1. ASSUME NEW strong \in BOOLEAN, NEW token \in Made \cup {Nobody}, SignIn(r, strong, token)
      PROVE  Changes(r) /\ req'[r] \in RequestState /\ Course(r, req'[r])
  <2>1. Changes(r)
    BY <1>1 DEF SignIn, Changes
  <2>a. token \in Writer \cup {Nobody} /\ (IF strong THEN "mint" ELSE "enrolment") \in At
    BY NamesAreWriters, OpsAndSteps
  <2>2. req'[r] \in RequestState
    BY <1>1, Resting, NamesAreWriters, PresentedIsCode, OpsAndSteps, <2>a
       DEF SignIn, Begins, Becomes, RequestState, Answers
  <2>3. Course(r, req'[r])
    BY <1>1, NamesAreWriters
       DEF SignIn, Begins, Becomes, NoRequest, Course, Fits, HoldsClaim, Secures, Forgetful
  <2> QED BY <2>1, <2>2, <2>3
<1>2. ASSUME NEW code \in Presented, NEW trusts \in BOOLEAN, StepUp(r, code, trusts)
      PROVE  Changes(r) /\ req'[r] \in RequestState /\ Course(r, req'[r])
  <2>1. Changes(r)
    BY <1>2 DEF StepUp, Changes
  <2>2. req'[r] \in RequestState
    BY <1>2, Resting, NamesAreWriters, PresentedIsCode, OpsAndSteps
       DEF StepUp, Begins, Becomes, RequestState, Answers
  <2>3. Course(r, req'[r])
    BY <1>2, NamesAreWriters
       DEF StepUp, Begins, Becomes, NoRequest, Course, Fits, HoldsClaim, Secures, Forgetful
  <2> QED BY <2>1, <2>2, <2>3
<1>3. ASSUME NEW code \in Presented, NEW trusts \in BOOLEAN, NEW h \in Made,
             Verify(r, h, code, trusts)
      PROVE  Changes(r) /\ req'[r] \in RequestState /\ Course(r, req'[r])
  <2>1. Changes(r)
    BY <1>3 DEF Verify, Changes
  <2>2. req'[r] \in RequestState
    BY <1>3, Resting, NamesAreWriters, PresentedIsCode, OpsAndSteps
       DEF Verify, Begins, Becomes, RequestState, Answers
  <2>3. Course(r, req'[r])
    BY <1>3, NamesAreWriters
       DEF Verify, Begins, Becomes, NoRequest, Course, Fits, HoldsClaim, Secures, Forgetful
  <2> QED BY <2>1, <2>2, <2>3
<1>4. ASSUME StartEnrolment(r)
      PROVE  Changes(r) /\ req'[r] \in RequestState /\ Course(r, req'[r])
  <2>1. Changes(r)
    BY <1>4 DEF StartEnrolment, Active, Changes
  <2>2. req'[r] \in RequestState
    BY <1>4, Resting, NamesAreWriters, PresentedIsCode, OpsAndSteps
       DEF StartEnrolment, Begins, Becomes, RequestState, Answers
  <2>3. Course(r, req'[r])
    BY <1>4, NamesAreWriters
       DEF StartEnrolment, Begins, Becomes, NoRequest, Course, Fits, HoldsClaim, Secures, Forgetful
  <2> QED BY <2>1, <2>2, <2>3
<1>5. ASSUME NEW code \in Presented, Confirm(r, code)
      PROVE  Changes(r) /\ req'[r] \in RequestState /\ Course(r, req'[r])
  <2>1. Changes(r)
    BY <1>5 DEF Confirm, Changes
  <2>2. req'[r] \in RequestState
    BY <1>5, Resting, NamesAreWriters, PresentedIsCode, OpsAndSteps
       DEF Confirm, Begins, Becomes, RequestState, Answers
  <2>3. Course(r, req'[r])
    BY <1>5, NamesAreWriters
       DEF Confirm, Begins, Becomes, NoRequest, Course, Fits, HoldsClaim, Secures, Forgetful
  <2> QED BY <2>1, <2>2, <2>3
<1>6. ASSUME Regenerate(r)
      PROVE  Changes(r) /\ req'[r] \in RequestState /\ Course(r, req'[r])
  <2>1. Changes(r)
    BY <1>6 DEF Regenerate, Changes
  <2>2. req'[r] \in RequestState
    BY <1>6, Resting, NamesAreWriters, PresentedIsCode, OpsAndSteps
       DEF Regenerate, Begins, Becomes, RequestState, Answers
  <2>3. Course(r, req'[r])
    BY <1>6, NamesAreWriters
       DEF Regenerate, Begins, Becomes, NoRequest, Course, Fits, HoldsClaim, Secures, Forgetful
  <2> QED BY <2>1, <2>2, <2>3
<1>7. ASSUME Disable(r)
      PROVE  Changes(r) /\ req'[r] \in RequestState /\ Course(r, req'[r])
  <2>1. Changes(r)
    BY <1>7 DEF Disable, Changes
  <2>2. req'[r] \in RequestState
    BY <1>7, Resting, NamesAreWriters, PresentedIsCode, OpsAndSteps
       DEF Disable, Begins, Becomes, RequestState, Answers
  <2>3. Course(r, req'[r])
    BY <1>7, NamesAreWriters
       DEF Disable, Begins, Becomes, NoRequest, Course, Fits, HoldsClaim, Secures, Forgetful
  <2> QED BY <2>1, <2>2, <2>3
<1>8. ASSUME Sweep(r)
      PROVE  Changes(r) /\ req'[r] \in RequestState /\ Course(r, req'[r])
  <2>1. Changes(r)
    BY <1>8 DEF Sweep, Changes
  <2>2. req'[r] \in RequestState
    BY <1>8, Resting, NamesAreWriters, PresentedIsCode, OpsAndSteps
       DEF Sweep, Begins, Becomes, RequestState, Answers
  <2>3. Course(r, req'[r])
    BY <1>8, NamesAreWriters
       DEF Sweep, Begins, Becomes, NoRequest, Course, Fits, HoldsClaim, Secures, Forgetful
  <2> QED BY <2>1, <2>2, <2>3
<1>9. ASSUME RevokeDevices(r)
      PROVE  Changes(r) /\ req'[r] \in RequestState /\ Course(r, req'[r])
  <2>1. Changes(r)
    BY <1>9 DEF RevokeDevices, Changes
  <2>2. req'[r] \in RequestState
    BY <1>9, Resting, NamesAreWriters, PresentedIsCode, OpsAndSteps
       DEF RevokeDevices, Begins, Becomes, RequestState, Answers
  <2>3. Course(r, req'[r])
    BY <1>9, NamesAreWriters
       DEF RevokeDevices, Begins, Becomes, NoRequest, Course, Fits, HoldsClaim, Secures, Forgetful
  <2> QED BY <2>1, <2>2, <2>3
<1>10. ASSUME NEW d \in devices, RevokeDevice(r, d)
      PROVE  Changes(r) /\ req'[r] \in RequestState /\ Course(r, req'[r])
  <2>1. Changes(r)
    BY <1>10 DEF RevokeDevice, Changes
  <2>2. req'[r] \in RequestState
    BY <1>10, Resting, NamesAreWriters, PresentedIsCode, OpsAndSteps
       DEF RevokeDevice, Begins, Becomes, RequestState, Answers
  <2>3. Course(r, req'[r])
    BY <1>10, NamesAreWriters
       DEF RevokeDevice, Begins, Becomes, NoRequest, Course, Fits, HoldsClaim, Secures, Forgetful
  <2> QED BY <2>1, <2>2, <2>3
<1> QED BY <1>1, <1>2, <1>3, <1>4, <1>5, <1>6, <1>7, <1>8, <1>9, <1>10, Zenon DEF Start

LEMMA Abandons ==
  ASSUME TypeOK, NEW r \in Request, Fits(req[r]), Abandon(r)
  PROVE  Changes(r) /\ req'[r] \in RequestState /\ Course(r, req'[r])
<1> USE DEF TypeOK
<1>1. Changes(r)
  BY DEF Abandon, Changes
<1>2. req'[r] \in RequestState /\ Course(r, req'[r])
  BY Ending, NamesAreWriters DEF Abandon, Answers, Course, Fits, HoldsClaim, Secures
<1> QED BY <1>1, <1>2

LEMMA StepsOfRequests ==
  ASSUME TypeOK, \A q \in Request : Fits(req[q]), Next
  PROVE  \/ \E r \in Request : Changes(r) /\ req'[r] \in RequestState /\ Course(r, req'[r])
         \/ DeleteExpired
         \/ Tick
<1>1. ASSUME NEW r \in Request, Start(r) \/ Continue(r) \/ Abandon(r)
      PROVE  Changes(r) /\ req'[r] \in RequestState /\ Course(r, req'[r])
  BY <1>1, Starts, Continues, Abandons
<1> QED
  BY <1>1, Zenon DEF Next

-----------------------------------------------------------------------------
(* Types *)

LEMMA SetsAreCodes ==
  \A w \in Writer : SetOf(w) \subseteq Code /\ \A c \in SetOf(w) : c.kind = "recovery" /\ c.of = w
<1>1. 1..SetSize \subseteq Nat
  BY SizesAreNumbers
<1> QED BY <1>1 DEF SetOf, Code

LEMMA TypesKept ==
  ASSUME TypeOK, NEW r \in Request, Fits(req[r]),
         Changes(r), NEW s \in RequestState, Course(r, s)
  PROVE  TypeOK'
<1> USE DEF TypeOK
<1>1. now' \in Nat
  BY DEF Changes
<1>2. totp' \in Enrolment \cup {NoEnrolment} /\ gone' \subseteq Writer \cup {Nobody}
  <2>1. NoEnrolment.secret = Nobody /\ \A e \in Enrolment : e.secret \in Writer
    BY DEF NoEnrolment, Enrolment
  <2>2. [secret |-> r, active |-> FALSE, last |-> Never] \in Enrolment
    BY NamesAreWriters DEF Enrolment
  <2>3. CASE ConsumeStep(r) \/ Activate(r)
    <3>1. req[r].code.n \in Nat /\ NoEnrolment.active = FALSE
      BY DEF RequestState, Code, NoEnrolment
    <3>2. \/ totp' = totp
          \/ \E e \in Enrolment : \/ e.active /\ totp' = [e EXCEPT !.last = req[r].code.n]
                                  \/ totp' = [e EXCEPT !.active = TRUE, !.last = req[r].code.n]
      BY <2>3, <3>1 DEF ConsumeStep, Activate, Active, Pendant
    <3>3. gone' = gone
      BY <2>3 DEF ConsumeStep, Activate
    <3> QED BY <3>1, <3>2, <3>3 DEF Enrolment
  <2> QED BY <2>1, <2>2, <2>3 DEF Changes
<1>3. codes' \subseteq Code
  <2>1. SetOf(r) \subseteq Code
    BY SetsAreCodes, NamesAreWriters
  <2> QED BY <2>1 DEF Changes, ReplaceCodes
<1>4. devices' \subseteq Device
  <2>1. CASE UseDevice(r)
    BY <2>1, NamesAreWriters DEF UseDevice, Usable, Device
  <2>2. CASE Remember(r)
    BY <2>2, NamesAreWriters, SizesAreNumbers DEF Remember, Device
  <2> QED BY <2>1, <2>2 DEF Changes
<1>5. pending' \subseteq Pending
  <2>1. CASE IssuePending(r)
    BY <2>1, NamesAreWriters, SizesAreNumbers DEF IssuePending, Issued, Row, Pending
  <2>2. CASE Claim(r)
    BY <2>2 DEF Claim
  <2>3. CASE Reissue(r)
    <3>1. req[r].handle \in Writer /\ req[r].left \in Nat
      BY <2>3 DEF Reissue, Fits, RequestState
    <3> QED BY <2>3, <3>1 DEF Reissue, Issued, Row, Pending
  <2> QED BY <2>1, <2>2, <2>3 DEF Changes
<1>6. req' \in [Request -> RequestState]
  BY DEF Course
<1>7. proofs' \subseteq [code: Code, by: Request]
  <2>1. req[r].code \in Code
    BY DEF RequestState
  <2> QED BY <2>1 DEF Changes, ConsumeStep, ConsumeRecoveryCode, Activate
<1>8. sessions' \subseteq [by: Request, finishes: Writer \cup {Nobody}]
  <2>1. req[r].handle \in Writer \cup {Nobody}
    BY DEF RequestState
  <2> QED BY <2>1 DEF Changes, Mint
<1>9. skips' \subseteq [token: Writer, by: Request]
  <2>1. ASSUME NEW d \in Usable(req[r].token)
        PROVE  req[r].token \in Writer
    BY DEF Usable, Device
  <2> QED BY <2>1 DEF Changes, UseDevice
<1>10. before' \in [Request -> SUBSET Writer]
  BY DEF Course, Device
<1> QED
  BY <1>1, <1>2, <1>3, <1>4, <1>5, <1>6, <1>7, <1>8, <1>9, <1>10

-----------------------------------------------------------------------------
(* Pending sign-ins *)

\* What a step leaves as it was: the other requests, and whatever was over.
LEMMA OthersStay ==
  ASSUME TypeOK, NEW r \in Request, NEW s \in RequestState, Course(r, s)
  PROVE  /\ req'[r] = s
         /\ \A q \in Request : q # r => req'[q] = req[q]
         /\ ~Over(req, r)
         /\ \A w : Over(req, w) => Over(req', w)
         /\ \A w : HasToken(req, w) => HasToken(req', w)
         /\ \A w : HasSet(req, w) => HasSet(req', w)
<1>1. req \in [Request -> RequestState] /\ r # Initial
  BY NamesAreDistinct DEF TypeOK
<1>2. req' = [req EXCEPT ![r] = s] /\ req[r].at # "done"
  BY DEF Course
<1>3. req[r].op = "signIn" /\ req[r].at = "mint" => s.at = "done"
  BY DEF Course
<1>4. req[r].at = "forget" => s.at = "done"
  BY DEF Course
<1> QED
  BY <1>1, <1>2, <1>3, <1>4 DEF Over, HasToken, HasSet

LEMMA HandlesKept ==
  ASSUME TypeOK, TypeOK', Handles, NEW r \in Request, Fits(req[r]),
         Changes(r), NEW s \in RequestState, Course(r, s)
  PROVE  Handles'
<1>1. /\ req'[r] = s /\ \A q \in Request : q # r => req'[q] = req[q]
      /\ ~Over(req, r) /\ \A w : Over(req, w) => Over(req', w)
  BY OthersStay
<1>2. \A w : Over(req, w) => w # r /\ w \in Writer
  BY <1>1, NamesAreWriters DEF Over
<1>3. ASSUME ~Claim(r)
      PROVE  /\ ClaimsOver(req') /\ ClaimsApart(req')
             /\ \A q \in Request : HoldsClaim(req'[q]) =>
                  HoldsClaim(req[q]) /\ req'[q].handle = req[q].handle
  <2>1. \A q \in Request : HoldsClaim(req'[q]) =>
          HoldsClaim(req[q]) /\ req'[q].handle = req[q].handle
    BY <1>1, <1>3 DEF Course
  <2>2. ClaimsOver(req')
    BY <2>1, <1>1, <1>2 DEF Handles, ClaimsOver
  <2>3. ClaimsApart(req')
    BY <2>1 DEF Handles, ClaimsApart
  <2> QED BY <2>1, <2>2, <2>3
<1>4. CASE IssuePending(r)
  <2>1. ~HoldsClaim(s) /\ s.at = "done"
    BY <1>1, <1>4, Ending DEF IssuePending, TypeOK, Answers, HoldsClaim
  <2>2. PICK v : v.secret = r /\ pending' = pending \cup {v}
    BY <1>4 DEF IssuePending, Issued, Row
  <2>3. ~Claim(r) /\ sessions' = sessions /\ Over(req', r)
    BY <1>1, <1>4, <2>1 DEF IssuePending, Claim, Over
  <2>4. RowsApart(pending')
    BY <2>2, <1>2 DEF Handles, RowsApart, RowsOver
  <2>5. RowsOver(pending', req')
    BY <2>2, <2>3, <1>1, <1>2 DEF Handles, RowsOver
  <2>6. ClaimedOrRow(pending', req')
    BY <2>2, <2>3, <1>2, <1>3 DEF Handles, ClaimsOver, ClaimedOrRow
  <2>7. Finished(pending', req', sessions') /\ OneSessionPerSignIn'
    BY <2>2, <2>3, <1>1, <1>2, <1>3 DEF Handles, Finished, OneSessionPerSignIn
  <2> QED BY <2>3, <2>4, <2>5, <2>6, <2>7, <1>3 DEF Handles
<1>5. CASE Claim(r)
  <2>1. PICK v \in pending : /\ v.secret = req[r].handle /\ pending' = pending \ {v}
                             /\ s.handle = req[r].handle
    <3>1. PICK v \in Claimable(pending, Id, req[r].handle, now) :
            /\ pending' = pending \ {v}
            /\ Becomes(r, [req[r] EXCEPT !.at = "check", !.until = v.expiresAt])
      BY <1>5 DEF Claim
    <3>2. v \in pending /\ v.secret = req[r].handle
      BY <3>1 DEF Claimable
    <3>3. s.handle = req[r].handle
      BY <3>1, <1>1 DEF Becomes, TypeOK, RequestState
    <3> QED BY <3>1, <3>2, <3>3
  <2>2. sessions' = sessions /\ pending' \subseteq pending
    BY <1>5 DEF Claim
  <2>3. RowsApart(pending') /\ RowsOver(pending', req')
    BY <2>2, <1>1 DEF Handles, RowsApart, RowsOver
  <2>4. \A w \in pending' : w.secret # s.handle
    BY <2>1 DEF Handles, RowsApart
  <2>5. ClaimsOver(req')
    BY <2>1, <2>2, <1>1 DEF Handles, RowsOver, ClaimsOver
  <2>6. ClaimsApart(req')
    BY <2>1, <1>1 DEF Handles, ClaimsApart, ClaimedOrRow
  <2>7. ClaimedOrRow(pending', req')
    BY <2>2, <2>4, <1>1 DEF Handles, ClaimedOrRow
  <2>8. Finished(pending', req', sessions') /\ OneSessionPerSignIn'
    BY <2>1, <2>2, <1>1 DEF Handles, Finished, OneSessionPerSignIn
  <2> QED BY <2>3, <2>5, <2>6, <2>7, <2>8 DEF Handles
<1>6. CASE Reissue(r)
  <2>1. HoldsClaim(req[r]) /\ ~HoldsClaim(s) /\ ~Claim(r) /\ sessions' = sessions
    BY <1>6 DEF Reissue, Fits, HoldsClaim, Course, Claim
  <2>2. pending' = pending \cup {Row(Id, req[r].handle, "firstFactor", now + req[r].left)}
    BY <1>6 DEF Reissue, Issued
  <2>3. \A v \in pending' : v \in pending \/ v.secret = req[r].handle
    BY <2>2 DEF Row
  <2>4. RowsApart(pending')
    BY <2>1, <2>2 DEF Handles, RowsApart, ClaimedOrRow, Row
  <2>5. RowsOver(pending', req')
    BY <2>1, <2>3, <1>1 DEF Handles, RowsOver, ClaimsOver
  <2>6. ClaimedOrRow(pending', req')
    BY <2>1, <2>3, <1>1, <1>3 DEF Handles, ClaimsApart, ClaimedOrRow
  <2>7. Finished(pending', req', sessions') /\ OneSessionPerSignIn'
    BY <2>1, <2>3, <1>1, <1>3 DEF Handles, Finished, OneSessionPerSignIn
  <2> QED BY <2>1, <2>4, <2>5, <2>6, <2>7, <1>3 DEF Handles
<1>7. CASE Mint(r)
  <2>1. /\ req[r].handle # Nobody => HoldsClaim(req[r])
        /\ ~HoldsClaim(s) /\ ~Claim(r) /\ pending' = pending
        /\ sessions' = sessions \cup {[by |-> r, finishes |-> req[r].handle]}
    BY <1>7 DEF Mint, Fits, HoldsClaim, Course, Claim
  <2>2. RowsApart(pending') /\ RowsOver(pending', req')
    BY <2>1, <1>1 DEF Handles, RowsApart, RowsOver
  <2>3. ClaimedOrRow(pending', req')
    BY <2>1, <1>3 DEF Handles, ClaimedOrRow
  <2>4. Finished(pending', req', sessions')
    <3>1. \A q \in Request : HoldsClaim(req'[q]) => q # r
      BY <2>1, <1>1
    <3> QED BY <2>1, <3>1, <1>1, <1>3 DEF Handles, Finished, ClaimsOver, ClaimsApart, ClaimedOrRow
  <2>5. OneSessionPerSignIn'
    BY <2>1 DEF Handles, Finished, OneSessionPerSignIn
  <2> QED BY <2>1, <2>2, <2>3, <2>4, <2>5, <1>3 DEF Handles
<1>8. CASE pending' = pending /\ sessions' = sessions /\ ~Claim(r)
  <2>1. RowsApart(pending') /\ RowsOver(pending', req')
    BY <1>8, <1>1, <1>2 DEF Handles, RowsApart, RowsOver
  <2>2. ClaimedOrRow(pending', req') /\ Finished(pending', req', sessions') /\ OneSessionPerSignIn'
    BY <1>8, <1>1, <1>3 DEF Handles, ClaimedOrRow, Finished, OneSessionPerSignIn
  <2> QED BY <1>3, <1>8, <2>1, <2>2 DEF Handles
<1> QED
  BY <1>4, <1>5, <1>6, <1>7, <1>8 DEF Changes

-----------------------------------------------------------------------------
(* Devices *)

LEMMA DevicesKept ==
  ASSUME TypeOK, TypeOK', Devices, NEW r \in Request, Fits(req[r]),
         Changes(r), NEW s \in RequestState, Course(r, s)
  PROVE  Devices'
<1>1. /\ req'[r] = s /\ ~Over(req, r)
      /\ \A w : Over(req, w) => Over(req', w)
      /\ \A w : HasToken(req, w) => HasToken(req', w)
  BY OthersStay
<1>2. \A w : Over(req, w) => w # r /\ w \in Writer
  BY <1>1, NamesAreWriters DEF Over
<1>3. CASE UseDevice(r)
  <2>1. PICK d \in devices : /\ d.token = req[r].token
                             /\ devices' = (devices \ {d}) \cup {[d EXCEPT !.token = r]}
    BY <1>3 DEF UseDevice, Usable
  <2>2. /\ skips' = skips \cup {[token |-> req[r].token, by |-> r]}
        /\ req[r].at = "device"
    BY <1>3 DEF UseDevice
  <2>3. req[r].op = "signIn" /\ s.at = "mint" /\ s.op = "signIn"
    BY <2>2, <1>1, <1>3, Going DEF UseDevice, Fits, TypeOK, At
  <2>4. ~HasToken(req, r) /\ HasToken(req', r) /\ HasToken(req, req[r].token)
    BY <1>1, <2>1, <2>2, <2>3 DEF HasToken, Devices
  <2>5. PICK e : /\ e.token = r /\ e.since = d.since
                 /\ \A x \in devices' : x = e \/ (x \in devices /\ x # d)
    <3> DEFINE e == [d EXCEPT !.token = r]
    <3>1. e.token = r /\ e.since = d.since
      BY DEF TypeOK, Device
    <3>2. \A x \in devices' : x = e \/ (x \in devices /\ x # d)
      BY <2>1
    <3> QED BY <3>1, <3>2, Zenon
  <2>6. /\ d \in devices /\ d.token = req[r].token
        /\ \A x \in devices : x.token = d.token \/ x.since = d.since => x = d
    BY <2>1 DEF Devices
  <2>7. \A x \in devices : x.token # r
    BY <2>4 DEF Devices
  <2>8. \A x, y \in devices' : x.token = y.token \/ x.since = y.since => x = y
    BY <2>5, <2>6, <2>7 DEF Devices
  <2>9. \A x \in devices' :
          HasToken(req', x.token) /\ Over(req', x.since)
    BY <1>1, <2>2, <2>4, <2>5, <2>6 DEF Devices
  <2>10. \A t \in skips' : HasToken(req', t.token) /\ \A x \in devices' : x.token # t.token
    BY <1>1, <2>2, <2>4, <2>5, <2>6 DEF Devices
  <2>11. DeviceTokenOnce'
    BY <2>1, <2>2 DEF Devices, DeviceTokenOnce
  <2> QED BY <2>8, <2>9, <2>10, <2>11 DEF Devices
<1>4. CASE Remember(r)
  <2>1. s.at = "done" /\ Over(req', r)
    BY <1>1, <1>4, Ending DEF Remember, TypeOK, Answers, Over
  <2>2. PICK e : e.token = r /\ e.since = r /\ devices' = devices \cup {e}
    BY <1>4 DEF Remember
  <2>3. skips' = skips
    BY <1>4 DEF Remember
  <2>4. ~HasToken(req, r) /\ HasToken(req', r)
    BY <1>1, <1>4, <2>1 DEF HasToken, Remember
  <2>5. \A x \in devices : x.token # r /\ x.since # r
    BY <2>4, <1>2 DEF Devices
  <2>6. \A x, y \in devices' : x.token = y.token \/ x.since = y.since => x = y
    BY <2>2, <2>5 DEF Devices
  <2>7. \A x \in devices' :
          HasToken(req', x.token) /\ Over(req', x.since)
    BY <1>1, <1>2, <2>1, <2>2, <2>4 DEF Devices
  <2>8. \A t \in skips' : HasToken(req', t.token) /\ \A x \in devices' : x.token # t.token
    BY <1>1, <2>2, <2>3, <2>4 DEF Devices
  <2> QED BY <2>3, <2>6, <2>7, <2>8 DEF Devices, DeviceTokenOnce
<1>5. CASE devices' \subseteq devices /\ skips' = skips
  <2>1. \A x \in devices' :
          HasToken(req', x.token) /\ Over(req', x.since)
    BY <1>1, <1>2, <1>5 DEF Devices
  <2> QED BY <1>1, <1>5, <2>1 DEF Devices, DeviceTokenOnce
<1> QED
  BY <1>3, <1>4, <1>5 DEF Changes

-----------------------------------------------------------------------------
(* Codes *)

LEMMA RecoveryKept ==
  ASSUME TypeOK, Recovery, NEW r \in Request, Fits(req[r]),
         Changes(r), NEW s \in RequestState, Course(r, s)
  PROVE  Recovery'
<1>1. req'[r] = s /\ \A w : HasSet(req, w) => HasSet(req', w)
  BY OthersStay
<1>2. CASE ReplaceCodes(r)
  <2>1. req[r].at = "insert" /\ proofs' = proofs /\ codes' \subseteq codes \cup SetOf(r)
    BY <1>2 DEF ReplaceCodes
  <2>2. ~HasSet(req, r)
    BY <2>1, NamesAreDistinct DEF HasSet
  <2>3. s.at = "forget"
    BY <1>1, <1>2 DEF ReplaceCodes, Becomes, TypeOK, RequestState
  <2>4. HasSet(req', r)
    BY <1>1, <2>3 DEF HasSet
  <2>5. \A c \in SetOf(r) : c.kind = "recovery" /\ c.of = r
    BY SetsAreCodes, NamesAreWriters
  <2> QED BY <1>1, <2>1, <2>2, <2>4, <2>5 DEF Recovery
<1>3. CASE ConsumeRecoveryCode(r)
  <2>1. /\ codes' \subseteq codes
        /\ \/ proofs' = proofs
           \/ /\ req[r].code \in codes /\ req[r].code \notin codes'
              /\ proofs' = proofs \cup {[code |-> req[r].code, by |-> r]}
    BY <1>3 DEF ConsumeRecoveryCode
  <2> QED BY <1>1, <2>1 DEF Recovery
<1>4. CASE ConsumeStep(r) \/ Activate(r)
  <2>1. /\ codes' = codes
        /\ proofs' \subseteq proofs \cup {[code |-> req[r].code, by |-> r]}
        /\ req[r].code.kind = "totp"
    BY <1>4 DEF ConsumeStep, Activate, Fits
  <2> QED BY <1>1, <2>1 DEF Recovery
<1>5. CASE codes' \subseteq codes /\ proofs' = proofs
  BY <1>1, <1>5 DEF Recovery
<1> QED
  BY <1>2, <1>3, <1>4, <1>5 DEF Changes

\* Of a code of the app that request r has accepted.
LEMMA AcceptingUsesUp ==
  ASSUME TypeOK, Steps, NEW r \in Request, Fits(req[r]), ConsumeStep(r) \/ Activate(r)
  PROVE  \/ proofs' = proofs /\ totp' = totp /\ gone' = gone
         \/ /\ proofs' = proofs \cup {[code |-> req[r].code, by |-> r]} /\ gone' = gone
            /\ req[r].code.kind = "totp"
            /\ totp'.active /\ totp'.secret = totp.secret /\ totp'.last = req[r].code.n
            /\ req[r].code.of = totp.secret \/ req[r].code.of \in gone
            /\ req[r].code.n \in Nat
            /\ totp.active => totp.last \in Nat /\ totp.last < req[r].code.n
<1>1. req[r].code.n \in Nat /\ req[r].code.kind = "totp"
  BY DEF ConsumeStep, Activate, Fits, TypeOK, RequestState, Code
<1>2. req[r].code.of = totp.secret \/ req[r].code.of \in gone
  BY DEF ConsumeStep, Activate, Steps
<1>3. totp.active => totp \in Enrolment /\ totp.last \in Nat
  <2>1. NoEnrolment.active = FALSE
    BY DEF NoEnrolment
  <2>2. ASSUME NEW e \in Enrolment, e.active
        PROVE  e.last \in Nat
    <3>1. \A x \in [secret: Writer, active: {FALSE}, last: {Never}] : x.active = FALSE
      OBVIOUS
    <3>2. \A x \in [secret: Writer, active: {TRUE}, last: Nat] : x.last \in Nat
      OBVIOUS
    <3> QED BY <2>2, <3>1, <3>2 DEF Enrolment
  <2> QED BY <2>1, <2>2 DEF TypeOK
<1>4. Pendant => totp \in Enrolment /\ ~totp.active
  BY DEF TypeOK, Pendant
<1>5. CASE ConsumeStep(r)
  <2>1. CASE Active /\ totp.last < req[r].code.n
    <3>1. /\ totp' = [totp EXCEPT !.last = req[r].code.n] /\ gone' = gone
          /\ proofs' = proofs \cup {[code |-> req[r].code, by |-> r]}
      BY <1>5, <2>1 DEF ConsumeStep
    <3>2. totp \in Enrolment /\ totp.active
      BY <1>3, <2>1 DEF Active
    <3>3. totp'.active /\ totp'.secret = totp.secret /\ totp'.last = req[r].code.n
      BY <3>1, <3>2 DEF Enrolment
    <3> QED BY <1>1, <1>2, <1>3, <2>1, <3>1, <3>3
  <2>2. CASE ~(Active /\ totp.last < req[r].code.n)
    BY <1>5, <2>2 DEF ConsumeStep
  <2> QED BY <2>1, <2>2
<1>6. CASE Activate(r)
  <2>1. CASE Pendant
    <3>1. /\ totp' = [totp EXCEPT !.active = TRUE, !.last = req[r].code.n] /\ gone' = gone
          /\ proofs' = proofs \cup {[code |-> req[r].code, by |-> r]}
      BY <1>6, <2>1 DEF Activate
    <3>2. totp'.active /\ totp'.secret = totp.secret /\ totp'.last = req[r].code.n
      BY <1>4, <2>1, <3>1 DEF Enrolment
    <3> QED BY <1>1, <1>2, <1>4, <2>1, <3>1, <3>2
  <2>2. CASE ~Pendant
    BY <1>6, <2>2 DEF Activate
  <2> QED BY <2>1, <2>2
<1> QED BY <1>5, <1>6

LEMMA StepsKept ==
  ASSUME TypeOK, Steps, NEW r \in Request, Fits(req[r]),
         Changes(r), NEW s \in RequestState, Course(r, s)
  PROVE  Steps'
<1>1. req'[r] = s /\ \A q \in Request : q # r => req'[q] = req[q]
  BY OthersStay
<1>2. CASE ConsumeStep(r) \/ Activate(r)
  <2>1. totp'.secret = totp.secret /\ gone' = gone
    BY <1>2, AcceptingUsesUp
  <2>2. \A q \in Request : req'[q].at \in {"consume", "activate"} =>
          req'[q].code.of = totp'.secret \/ req'[q].code.of \in gone'
    BY <1>1, <2>1 DEF Course, Steps
  <2>3. \A p \in proofs : p.code.kind = "totp" => p.code.n \in Nat
    BY DEF TypeOK, Code
  <2>4. \A p \in proofs' : p.code.kind = "totp" => UsedUp(p.code)'
    BY <1>2, <2>3, AcceptingUsesUp DEF Steps, UsedUp
  <2> QED BY <2>2, <2>4 DEF Steps
<1>3. CASE ~(ConsumeStep(r) \/ Activate(r))
  <2>1. proofs' = proofs \/ ConsumeRecoveryCode(r)
    BY <1>3 DEF Changes
  <2>2. \A p \in proofs' : p \in proofs \/ p.code.kind # "totp"
    <3>1. CASE ConsumeRecoveryCode(r)
      BY <3>1 DEF ConsumeRecoveryCode, Recovering
    <3> QED BY <2>1, <3>1
  <2>3. \/ totp' = totp /\ gone' = gone
        \/ gone' = gone \cup {totp.secret}
    BY <1>3 DEF Changes
  <2>4. \A code : UsedUp(code) => UsedUp(code)'
    BY <2>3 DEF UsedUp
  <2>5. \A q \in Request : req'[q].at \in {"consume", "activate"} =>
          req'[q].code.of = totp'.secret \/ req'[q].code.of \in gone'
    BY <1>1, <2>3 DEF Course, Steps
  <2> QED BY <2>2, <2>4, <2>5 DEF Steps
<1> QED BY <1>2, <1>3

LEMMA ProofsKept ==
  ASSUME TypeOK, Recovery, Steps, OneProofPerCode, NEW r \in Request, Fits(req[r]),
         Changes(r)
  PROVE  OneProofPerCode'
<1>1. gone \subseteq gone'
  BY AcceptingUsesUp DEF Changes
<1>2. CASE ConsumeStep(r) \/ Activate(r)
  <2>1. ASSUME NEW p \in proofs, p.code = req[r].code, req[r].code.kind = "totp",
               totp.active => totp.last \in Nat /\ totp.last < req[r].code.n
        PROVE  p.code.of \in gone
    <3>1. p.code.n \in Nat
      BY DEF TypeOK, Code
    <3> QED BY <2>1, <3>1 DEF Steps, UsedUp
  <2> QED BY <1>1, <1>2, <2>1, AcceptingUsesUp DEF OneProofPerCode
<1>3. CASE ConsumeRecoveryCode(r)
  <2>1. \A p \in proofs : req[r].code \in codes => p.code # req[r].code
    BY DEF Recovery
  <2> QED BY <1>1, <1>3, <2>1 DEF ConsumeRecoveryCode, OneProofPerCode
<1>4. CASE proofs' = proofs
  BY <1>1, <1>4 DEF OneProofPerCode
<1> QED
  BY <1>2, <1>3, <1>4 DEF Changes

-----------------------------------------------------------------------------
(* Forgetting *)

LEMMA SecuredKept ==
  ASSUME TypeOK, Devices, Secured, NEW r \in Request, Fits(req[r]),
         Changes(r), NEW s \in RequestState, Course(r, s)
  PROVE  Secured'
<1>1. /\ req'[r] = s /\ \A q \in Request : q # r => req'[q] = req[q]
      /\ ~Over(req, r) /\ \A w : Over(req, w) => Over(req', w)
  BY OthersStay
<1>2. \A w \in {d.since : d \in devices} : Over(req, w)
  BY DEF Devices
<1>3. \A q \in Request : before'[q] \subseteq before[q] \cup {d.since : d \in devices}
  BY DEF Course, TypeOK
<1>4. \A q \in Request : q # r => before'[q] = before[q]
  BY DEF Course, TypeOK
<1>5. \A q \in Request : \A w \in before'[q] : Over(req', w)
  BY <1>1, <1>2, <1>3 DEF Secured
<1>6. \A d \in devices' : (\E e \in devices : e.since = d.since) \/ d.since = r
  <2>1. CASE UseDevice(r)
    BY <2>1 DEF UseDevice, Usable, TypeOK, Device
  <2>2. CASE Remember(r)
    BY <2>2 DEF Remember
  <2> QED BY <2>1, <2>2 DEF Changes
<1>7. ASSUME NEW q \in Request, Secures(req'[q])
      PROVE  \A d \in devices' : d.since \notin before'[q]
  <2>1. CASE q = r
    BY <1>1, <1>7, <2>1 DEF Course
  <2>2. CASE q # r
    <3>1. \A d \in devices : d.since \notin before[q]
      BY <1>1, <1>7, <2>2 DEF Secured, SecuredForgets, Secures, Recovering
    <3>2. r \notin before[q]
      BY <1>1 DEF Secured
    <3> QED BY <1>4, <1>6, <2>2, <3>1, <3>2
  <2> QED BY <2>1, <2>2
<1>8. SecuredForgets'
  BY <1>7 DEF SecuredForgets, Secures, Recovering
<1> QED
  BY <1>5, <1>8 DEF Secured

-----------------------------------------------------------------------------
(* The invariant holds *)

LEMMA InvInit == Init => IInv
<1> SUFFICES ASSUME Init PROVE IInv
  OBVIOUS
<1>0. codes = {} \/ codes = SetOf(Initial)
  BY DEF Init
<1>1. TypeOK
  <2>1. /\ now \in Nat /\ gone \subseteq Writer \cup {Nobody}
        /\ proofs \subseteq [code: Code, by: Request]
        /\ sessions \subseteq [by: Request, finishes: Writer \cup {Nobody}]
        /\ skips \subseteq [token: Writer, by: Request]
    BY DEF Init
  <2>2. totp \in Enrolment \cup {NoEnrolment}
    <3>1. [secret |-> Initial, active |-> FALSE, last |-> Never] \in Enrolment
      BY NamesAreWriters DEF Enrolment
    <3>2. [secret |-> Initial, active |-> TRUE, last |-> 0] \in Enrolment
      BY NamesAreWriters DEF Enrolment
    <3> QED BY <3>1, <3>2 DEF Init
  <2>3. codes \subseteq Code
    BY <1>0, SetsAreCodes, NamesAreWriters
  <2>4. devices \subseteq Device
    BY NamesAreWriters, SizesAreNumbers DEF Init, Device
  <2>5. pending \subseteq Pending
    BY NamesAreWriters, SizesAreNumbers DEF Init, Issued, Row, Pending
  <2>6. req \in [Request -> RequestState] /\ before \in [Request -> SUBSET Writer]
    BY Resting DEF Init
  <2> QED BY <2>1, <2>2, <2>3, <2>4, <2>5, <2>6 DEF TypeOK
<1>2. \A r \in Request : req[r].at = "idle" /\ req[r].op = "none" /\ req[r].answer = "none"
                         /\ req[r].handle = Nobody /\ before[r] = {}
  BY DEF Init, NoRequest
<1>3. \A r \in Request : Fits(req[r]) /\ ~HoldsClaim(req[r])
  BY <1>2 DEF Fits, HoldsClaim
<1>4. proofs = {} /\ sessions = {} /\ skips = {}
  BY DEF Init
<1>5. Handles
  <2>1. pending \subseteq {Row(Id, Initial, "firstFactor", 0 + PendingTtl)}
    BY DEF Init, Issued
  <2> QED
    BY <1>3, <1>4, <2>1 DEF Handles, RowsApart, RowsOver, ClaimsOver, ClaimsApart,
       ClaimedOrRow, Finished, OneSessionPerSignIn, Over, Row
<1>6. Devices
  <2>1. \A d \in devices : d = [since |-> Initial, token |-> Initial, until |-> DeviceTtl]
    BY DEF Init
  <2> QED BY <1>4, <2>1 DEF Devices, DeviceTokenOnce, HasToken, Over
<1>7. Recovery
  <2>1. \A c \in codes : c.kind = "recovery" /\ c.of = Initial
    BY <1>0, SetsAreCodes, NamesAreWriters
  <2> QED BY <1>4, <2>1 DEF Recovery, HasSet
<1>8. Steps /\ OneProofPerCode
  BY <1>2, <1>4 DEF Steps, OneProofPerCode
<1>9. Secured
  BY <1>2 DEF Secured, SecuredForgets
<1> QED
  BY <1>1, <1>3, <1>5, <1>6, <1>7, <1>8, <1>9 DEF IInv

LEMMA InvNext == IInv /\ [Next]_vars => IInv'
<1> SUFFICES ASSUME IInv, [Next]_vars PROVE IInv'
  OBVIOUS
<1> USE DEF IInv
<1>1. ASSUME NEW r \in Request, Changes(r), req'[r] \in RequestState, Course(r, req'[r])
      PROVE  IInv'
  <2>1. PICK s \in RequestState : Course(r, s)
    BY <1>1
  <2>2. TypeOK'
    BY <1>1, <2>1, TypesKept
  <2>3. \A q \in Request : Fits(req'[q])
    BY <2>1, OthersStay DEF Course
  <2>4. Handles' /\ Devices'
    BY <1>1, <2>1, <2>2, HandlesKept, DevicesKept
  <2>5. Recovery' /\ Steps' /\ OneProofPerCode'
    BY <1>1, <2>1, RecoveryKept, StepsKept, ProofsKept
  <2>6. Secured'
    BY <1>1, <2>1, SecuredKept
  <2> QED BY <2>2, <2>3, <2>4, <2>5, <2>6
<1>2. ASSUME UNCHANGED <<totp, codes, devices, req, proofs, sessions, skips, gone, before>>,
             pending' \subseteq pending, now' \in Nat
      PROVE  IInv'
  <2>1. TypeOK'
    BY <1>2 DEF TypeOK
  <2>2. Handles'
    BY <1>2 DEF Handles, RowsApart, RowsOver, ClaimedOrRow, Finished, OneSessionPerSignIn
  <2>3. Devices' /\ Recovery' /\ Steps' /\ OneProofPerCode' /\ Secured'
    BY <1>2 DEF Devices, DeviceTokenOnce, Recovery, Steps, UsedUp, OneProofPerCode,
       Secured, SecuredForgets, Recovering
  <2> QED BY <1>2, <2>1, <2>2, <2>3
<1>3. CASE DeleteExpired
  BY <1>2, <1>3 DEF DeleteExpired, Swept, TypeOK
<1>4. CASE Tick
  BY <1>2, <1>4 DEF Tick, TypeOK
<1>5. CASE UNCHANGED vars
  BY <1>2, <1>5 DEF vars, TypeOK
<1> QED
  BY <1>1, <1>3, <1>4, <1>5, StepsOfRequests

LEMMA InvHolds == Spec => []IInv
  BY InvInit, InvNext, PTL DEF Spec

-----------------------------------------------------------------------------
(* Time *)

\* What TimeOnlyRunsOut says of one step.
PendingLessens ==
    \A w \in Writer : ~Issuing(w) => \A t \in LeftOf(w)' : \E left \in LeftOf(w) : t <= left
DevicesLast == \A d \in devices, e \in devices' : e.since = d.since => e.until = d.until

\* Request q guesses at a pending sign-in, and how much it has left of it.
Guesses(q) == q.at \in {"check", "consume", "reissue", "rewrite"}
LeftFor(q, t) == IF q.at = "rewrite" THEN q.left ELSE q.until - t

LEMMA WhatIsLeft ==
  ASSUME NEW w
  PROVE  /\ \A v \in pending : v.secret = w => v.expiresAt - now \in LeftOf(w)
         /\ \A q \in Request : Guesses(req[q]) /\ req[q].handle = w =>
              LeftFor(req[q], now) \in LeftOf(w)
         /\ \A t \in LeftOf(w)' :
              \/ \E v \in pending' : v.secret = w /\ t = v.expiresAt - now'
              \/ \E q \in Request : /\ Guesses(req'[q]) /\ req'[q].handle = w
                                    /\ t = LeftFor(req'[q], now')
<1>1. \A v \in pending : v.secret = w => v.expiresAt - now \in LeftOf(w)
  BY DEF LeftOf, RowsOf
<1>2. \A q \in Request : Guesses(req[q]) /\ req[q].handle = w =>
        LeftFor(req[q], now) \in LeftOf(w)
  BY DEF LeftOf, Guessing, Guesses, LeftFor
<1>3. ASSUME NEW t \in LeftOf(w)'
      PROVE  \/ \E v \in pending' : v.secret = w /\ t = v.expiresAt - now'
             \/ \E q \in Request : /\ Guesses(req'[q]) /\ req'[q].handle = w
                                   /\ t = LeftFor(req'[q], now')
  BY <1>3 DEF LeftOf, RowsOf, Guessing, Guesses, LeftFor
<1> QED BY <1>1, <1>2, <1>3

\* Of a step of a request.
LEMMA RequestsLessen ==
  ASSUME IInv, NEW r \in Request, Changes(r), NEW s \in RequestState, Course(r, s)
  PROVE  PendingLessens /\ DevicesLast
<1> USE DEF IInv
<1>1. req'[r] = s /\ (\A q \in Request : q # r => req'[q] = req[q]) /\ now' = now
  BY OthersStay DEF Changes
<1>2. now \in Nat /\ \A v \in pending : v.expiresAt \in Int
  BY DEF TypeOK, Pending
<1>3. \A q \in Request : LeftFor(req[q], now) \in Int
  BY <1>2 DEF TypeOK, RequestState, LeftFor
<1>4. ASSUME NEW w \in Writer, ~Issuing(w), NEW v \in pending', v.secret = w
      PROVE  \E left \in LeftOf(w) : v.expiresAt - now' <= left
  <2>1. CASE v \in pending
    <3>1. v.expiresAt - now <= v.expiresAt - now
      BY <1>2, <2>1
    <3> QED BY <1>1, <1>4, <2>1, <3>1, WhatIsLeft
  <2>2. CASE v \notin pending /\ IssuePending(r)
    <3>1. v.secret = r
      BY <1>4, <2>2 DEF IssuePending, Issued, Row
    <3> QED BY <1>4, <2>2, <3>1 DEF IssuePending, Issuing
  <2>3. CASE v \notin pending /\ Claim(r)
    BY <2>3, <1>4 DEF Claim
  <2>4. CASE v \notin pending /\ Reissue(r)
    <3>1. v = Row(Id, req[r].handle, "firstFactor", now + req[r].left) /\ req[r].at = "rewrite"
      BY <1>4, <2>4 DEF Reissue, Issued
    <3>2. req[r].left \in Nat
      BY DEF TypeOK, RequestState
    <3>3. v.expiresAt - now = req[r].left /\ req[r].handle = w
      BY <1>2, <1>4, <3>1, <3>2 DEF Row
    <3>4. Guesses(req[r]) /\ LeftFor(req[r], now) = req[r].left
      BY <3>1 DEF Guesses, LeftFor
    <3>5. req[r].left \in LeftOf(w) /\ req[r].left <= req[r].left
      BY <3>2, <3>3, <3>4, WhatIsLeft
    <3> QED BY <1>1, <3>3, <3>5
  <2> QED BY <1>4, <2>1, <2>2, <2>3, <2>4 DEF Changes
<1>5. ASSUME NEW w \in Writer, NEW q \in Request, Guesses(req'[q]), req'[q].handle = w
      PROVE  \E left \in LeftOf(w) : LeftFor(req'[q], now') <= left
  <2>1. CASE q # r
    <3>1. req'[q] = req[q] /\ LeftFor(req[q], now) <= LeftFor(req[q], now)
      BY <1>1, <1>3, <2>1
    <3> QED BY <1>1, <1>5, <3>1, WhatIsLeft
  <2>2. CASE q = r
    <3>1. Guesses(s) /\ s.handle = w /\ w # Nobody
      BY <1>1, <1>5, <2>2, NamesAreWriters
    <3>2. HoldsClaim(s)
      BY <3>1 DEF Course, Fits, Guesses, HoldsClaim
    <3>3. s.until \in Int /\ LeftFor(s, now) = s.until - now
      BY DEF Course, RequestState, LeftFor
    <3>4. CASE Claim(r)
      <4>1. PICK v \in Claimable(pending, Id, req[r].handle, now) :
              Becomes(r, [req[r] EXCEPT !.at = "check", !.until = v.expiresAt])
        BY <3>4 DEF Claim
      <4>2. s.until = v.expiresAt /\ s.handle = req[r].handle
        BY <1>1, <4>1 DEF Becomes, TypeOK, RequestState
      <4>3. v \in pending /\ v.secret = w
        BY <3>1, <4>1, <4>2 DEF Claimable
      <4>4. v.expiresAt - now \in LeftOf(w) /\ v.expiresAt - now <= v.expiresAt - now
        BY <1>2, <4>3, WhatIsLeft
      <4> QED BY <1>1, <2>2, <3>3, <4>2, <4>4
    <3>5. CASE ~Claim(r)
      <4>1. /\ HoldsClaim(req[r]) /\ s.handle = req[r].handle /\ s.until = req[r].until
            /\ req[r].at \notin {"mint", "rewrite"}
        BY <3>2, <3>5 DEF Course
      <4>2. Guesses(req[r]) /\ req[r].handle = w /\ LeftFor(req[r], now) = s.until - now
        BY <3>1, <4>1 DEF HoldsClaim, Guesses, LeftFor
      <4>3. s.until - now \in LeftOf(w) /\ s.until - now <= s.until - now
        BY <1>2, <3>3, <4>2, WhatIsLeft
      <4> QED BY <1>1, <2>2, <3>3, <4>3
    <3> QED BY <3>4, <3>5
  <2> QED BY <2>1, <2>2
<1>6. PendingLessens
  <2> SUFFICES ASSUME NEW w \in Writer, ~Issuing(w), NEW t \in LeftOf(w)'
               PROVE  \E left \in LeftOf(w) : t <= left
    BY DEF PendingLessens
  <2> QED BY <1>4, <1>5, WhatIsLeft
<1>7. DevicesLast
  <2>1. CASE UseDevice(r)
    <3>1. PICK d \in devices : devices' = (devices \ {d}) \cup {[d EXCEPT !.token = r]}
      BY <2>1 DEF UseDevice, Usable
    <3>2. \A e \in devices' : e \in devices \/ (e.since = d.since /\ e.until = d.until)
      BY <3>1 DEF TypeOK, Device
    <3> QED BY <3>2 DEF Devices, DevicesLast
  <2>2. CASE Remember(r)
    <3>1. \A e \in devices' : e \in devices \/ e.since = r
      BY <2>2 DEF Remember
    <3>2. \A d \in devices : d.since # r
      BY OthersStay DEF Devices
    <3> QED BY <3>1, <3>2 DEF Devices, DevicesLast
  <2>3. CASE devices' \subseteq devices
    BY <2>3 DEF Devices, DevicesLast
  <2> QED BY <2>1, <2>2, <2>3 DEF Changes
<1> QED BY <1>6, <1>7

\* Of a step in which no request moves: rows go, or time does.
LEMMA OthersLessen ==
  ASSUME IInv, UNCHANGED <<req, devices>>, pending' \subseteq pending,
         now' \in Nat, now <= now'
  PROVE  PendingLessens /\ DevicesLast
<1> USE DEF IInv
<1>1. now \in Nat /\ \A v \in pending : v.expiresAt \in Int
  BY DEF TypeOK, Pending
<1>2. \A q \in Request : req[q].until \in Int /\ req[q].left \in Nat
  BY DEF TypeOK, RequestState
<1>3. \A v \in pending : v.expiresAt - now' <= v.expiresAt - now
  BY <1>1
<1>4. \A q \in Request : LeftFor(req[q], now') <= LeftFor(req[q], now)
  BY <1>1, <1>2 DEF LeftFor
<1>5. PendingLessens
  <2> SUFFICES ASSUME NEW w \in Writer, NEW t \in LeftOf(w)'
               PROVE  \E left \in LeftOf(w) : t <= left
    BY DEF PendingLessens
  <2>1. ASSUME NEW v \in pending', v.secret = w, t = v.expiresAt - now'
        PROVE  \E left \in LeftOf(w) : t <= left
    BY <2>1, <1>3, WhatIsLeft
  <2>2. ASSUME NEW q \in Request, Guesses(req'[q]), req'[q].handle = w, t = LeftFor(req'[q], now')
        PROVE  \E left \in LeftOf(w) : t <= left
    BY <2>2, <1>4, WhatIsLeft
  <2> QED BY <2>1, <2>2, WhatIsLeft
<1>6. DevicesLast
  BY DEF Devices, DevicesLast
<1> QED BY <1>5, <1>6

LEMMA StepsLessen == IInv /\ [Next]_vars => [PendingLessens /\ DevicesLast]_vars
<1> SUFFICES ASSUME IInv, Next PROVE PendingLessens /\ DevicesLast
  OBVIOUS
<1>1. ASSUME NEW r \in Request, Changes(r), req'[r] \in RequestState, Course(r, req'[r])
      PROVE  PendingLessens /\ DevicesLast
  BY <1>1, RequestsLessen
<1>2. CASE DeleteExpired
  BY <1>2, OthersLessen DEF DeleteExpired, Swept, IInv, TypeOK
<1>3. CASE Tick
  BY <1>3, OthersLessen DEF Tick, IInv, TypeOK
<1> QED
  BY <1>1, <1>2, <1>3, StepsOfRequests DEF IInv

-----------------------------------------------------------------------------
(* The theorems *)

\* Every variable has its type, for any number of requests.
THEOREM TypeCorrect == Spec => []TypeOK
<1>1. IInv => TypeOK
  BY DEF IInv
<1> QED
  BY <1>1, InvHolds, PTL

\* Whoever races with it and whatever it is presented for, a code of the app or of
\* a set of recovery codes is accepted once: a recovery code ever, a code of the
\* app while its enrolment stands.
THEOREM CodesProveOnce == Spec => []OneProofPerCode
<1>1. IInv => OneProofPerCode
  BY DEF IInv
<1> QED
  BY <1>1, InvHolds, PTL

\* A pending sign-in becomes one session at most, however often its handle is
\* presented at once and whatever was guessed wrong before.
THEOREM SignInsFinishOnce == Spec => []OneSessionPerSignIn
<1>1. IInv => OneSessionPerSignIn
  BY DEF IInv, Handles
<1> QED
  BY <1>1, InvHolds, PTL

\* What a pending sign-in has left only becomes less, also while requests guess at
\* it and wait between reading the clock and writing its row again; and a
\* remembered browser ends when it was to end, however often its token is rotated.
THEOREM TimeRunsOut == Spec => TimeOnlyRunsOut
BY InvHolds, StepsLessen, PTL DEF Spec, TimeOnlyRunsOut, PendingLessens, DevicesLast

\* Of any copies of a device token one skips the prompt.
THEOREM TokensSkipOnce == Spec => []DeviceTokenOnce
<1>1. IInv => DeviceTokenOnce
  BY DEF IInv, Devices
<1> QED
  BY <1>1, InvHolds, PTL

\* Whoever secured the account has every browser forgotten that was remembered when
\* they began, also one whose token was being rotated.
THEOREM SecuringForgets == Spec => []SecuredForgets
<1>1. IInv => SecuredForgets
  BY DEF IInv, Secured
<1> QED
  BY <1>1, InvHolds, PTL
=============================================================================
