----------------------------- MODULE TwoFactor -----------------------------
(***************************************************************************)
(* The second factor of one person: two-factor/TwoFactor.ts over           *)
(* two-factor/Store.ts, where it interposes in domain/SignIn.ts, and the   *)
(* pending sign-ins it keeps in the table of Verifications.                *)
(*                                                                         *)
(* What a request makes (a secret, a set of recovery codes, a pending      *)
(* sign-in, a device token) is named after the request, because a request  *)
(* makes at most one of each.  Requests interleave statement by statement. *)
(***************************************************************************)
EXTENDS Verifications, FiniteSets

CONSTANTS
    Request,
    Initial,        \* made whatever was there before the requests
    Nobody,
    Window,         \* how many steps either side of now a code is accepted
    SetSize,        \* how many recovery codes a set has
    PendingTtl,     \* in steps
    DeviceTtl,      \* in steps
    MaxTime         \* bound: the clock stops here

ASSUME NamesAreDistinct == Initial \notin Request /\ Nobody \notin Request \cup {Initial}
ASSUME SizesAreNumbers ==
    /\ Window \in Nat /\ SetSize \in Nat /\ MaxTime \in Nat
    /\ PendingTtl \in Nat \ {0} /\ DeviceTtl \in Nat \ {0}

Writer == Request \cup {Initial}

\* Of an authenticator app, for a step; or one of a set of recovery codes.
Code == [kind: {"totp", "recovery"}, of: Writer, n: Nat]

Never == -1
\* The step that proved an enrolment is the first that is used up.
Enrolment == [secret: Writer, active: {FALSE}, last: {Never}]
             \cup [secret: Writer, active: {TRUE}, last: Nat]
NoEnrolment == [secret |-> Nobody, active |-> FALSE, last |-> Never]

\* since: who had the browser remembered.  The token rotates.
Device == [since: Writer, token: Writer, until: Nat]

Id == IdentifierOf("pending-auth", "user")
Pending == [identifier: {Id}, secret: Writer, payload: {"firstFactor"}, expiresAt: Int]

VARIABLES
    now,        \* in steps of the authenticator app
    totp,       \* the enrolment
    codes,      \* the recovery codes that are not spent
    devices,    \* the browsers that are remembered
    pending,    \* the pending sign-ins, as rows of Verifications
    req,
    proofs,     \* history: the codes that were accepted, and from whom
    sessions,   \* history: the sessions that were minted, and which sign-in they finish
    skips,      \* history: the device tokens that were spent, and by whom
    gone,       \* history: the secrets that were removed or replaced
    before      \* history: the devices that were there when a request began

vars == <<now, totp, codes, devices, pending, req,
          proofs, sessions, skips, gone, before>>

Op == {"signIn", "verify", "stepUp", "start", "confirm", "regenerate", "disable",
       "sweep", "revoke", "revokeOne"}
At == {"idle", "enrolment", "device", "issue", "mint", "claim", "check", "consume",
       "reissue", "rewrite", "pending", "activate", "regenerate", "replace", "insert",
       "dropCodes", "forget", "remember", "done"}

\* handle: the pending sign-in that is being finished.  until: when it ends.  left:
\* what was left of it when the clock was read.  held: the codes to replace.
RequestState ==
    [op: Op \cup {"none"}, at: At, code: Code, handle: Writer \cup {Nobody},
     until: Int, left: Nat, token: Writer \cup {Nobody}, held: SUBSET Code,
     trusts: BOOLEAN, answer: {"none", "refused", "challenged", "done"}]

NoCode == [kind |-> "recovery", of |-> Initial, n |-> 0]
NoRequest ==
    [op |-> "none", at |-> "idle", code |-> NoCode, handle |-> Nobody, until |-> 0, left |-> 0,
     token |-> Nobody, held |-> {}, trusts |-> FALSE, answer |-> "none"]

SetOf(w) == [kind: {"recovery"}, of: {w}, n: 1..SetSize]

Init ==
    /\ now = 0
    /\ \/ totp = NoEnrolment /\ codes = {} /\ devices = {}
       \/ /\ totp = [secret |-> Initial, active |-> FALSE, last |-> Never]
          /\ codes = {} /\ devices = {}
       \/ /\ totp = [secret |-> Initial, active |-> TRUE, last |-> 0]
          /\ codes = SetOf(Initial)
          /\ devices \in SUBSET [since: {Initial}, token: {Initial}, until: {DeviceTtl}]
    /\ pending \in {{}, Issued({}, Id, Initial, "firstFactor", PendingTtl, 0)}
    /\ req = [r \in Request |-> NoRequest]
    /\ proofs = {} /\ sessions = {} /\ skips = {} /\ gone = {}
    /\ before = [r \in Request |-> {}]

-----------------------------------------------------------------------------

Becomes(r, state) == req' = [req EXCEPT ![r] = state]
Goes(r, step) == Becomes(r, [req[r] EXCEPT !.at = step])
Ends(r, answer) == Becomes(r, [NoRequest EXCEPT !.op = req[r].op, !.code = req[r].code,
                                                !.at = "done", !.answer = answer])

Begins(r, state) ==
    /\ req[r].at = "idle"
    /\ Becomes(r, state)
    /\ before' = [before EXCEPT ![r] = {d.since : d \in devices}]

Active == totp.active
Pendant == totp # NoEnrolment /\ ~totp.active

\* Totp.verify: the steps of the window that are not used up.
Matches(enrolment, code) ==
    /\ code.kind = "totp"
    /\ code.of = enrolment.secret
    /\ code.n \in (now - Window)..(now + Window)
    /\ code.n > enrolment.last

Recovering(r) == req[r].code.kind = "recovery"

\* What follows an accepted factor: a recovery code costs every device, and
\* only the other kind may have the browser remembered.
Settles(r) ==
    IF Recovering(r) THEN Goes(r, "forget")
    ELSE IF req[r].trusts THEN Goes(r, "remember") ELSE Ends(r, "done")

-----------------------------------------------------------------------------
(* The first half of a sign-in: complete, with this plugin's decider *)

\* strong: the ceremony itself reached two factors.
SignIn(r, strong, token) ==
    /\ Begins(r, [NoRequest EXCEPT !.op = "signIn", !.token = token,
                                   !.at = IF strong THEN "mint" ELSE "enrolment"])
    /\ UNCHANGED <<now, totp, codes, devices, pending, proofs, sessions, skips, gone>>

\* decide: without an enrolment that was confirmed there is nothing to ask for.
FindEnrolment(r) ==
    /\ req[r].at = "enrolment"
    /\ Goes(r, IF ~Active THEN "mint" ELSE IF req[r].token = Nobody THEN "issue" ELSE "device")
    /\ UNCHANGED <<now, totp, codes, devices, pending, proofs, sessions, skips, gone, before>>

Usable(token) == {d \in devices : d.token = token /\ d.until > now}

\* Mutant: the token stays.
UseDeviceUnrotated(r) ==
    /\ req[r].at = "device"
    /\ Usable(req[r].token) # {}
    /\ skips' = skips \cup {[token |-> req[r].token, by |-> r]}
    /\ Goes(r, "mint")
    /\ UNCHANGED <<now, totp, codes, devices, pending, proofs, sessions, gone, before>>

\* useDevice: one guarded update spends the token and writes its successor.
UseDevice(r) ==
    /\ req[r].at = "device"
    /\ \E d \in Usable(req[r].token) :
          devices' = (devices \ {d}) \cup {[d EXCEPT !.token = r]}
    /\ skips' = skips \cup {[token |-> req[r].token, by |-> r]}
    /\ Goes(r, "mint")
    /\ UNCHANGED <<now, totp, codes, pending, proofs, sessions, gone, before>>

NoDevice(r) ==
    /\ req[r].at = "device"
    /\ Usable(req[r].token) = {}
    /\ Goes(r, "issue")
    /\ UNCHANGED <<now, totp, codes, devices, pending, proofs, sessions, skips, gone, before>>

\* The challenge: nothing is minted, and its token goes to the browser.
IssuePending(r) ==
    /\ req[r].at = "issue"
    /\ pending' = Issued(pending, Id, r, "firstFactor", PendingTtl, now)
    /\ Ends(r, "challenged")
    /\ UNCHANGED <<now, totp, codes, devices, proofs, sessions, skips, gone, before>>

\* createUnchecked.  A sign-in that carries a code is not asked for another.
Mint(r) ==
    /\ req[r].at = "mint"
    /\ sessions' = sessions \cup {[by |-> r, finishes |-> req[r].handle]}
    /\ IF req[r].op = "verify" THEN Settles(r) ELSE Ends(r, "done")
    /\ UNCHANGED <<now, totp, codes, devices, pending, proofs, skips, gone, before>>

-----------------------------------------------------------------------------
(* The second half, and the step-up of a session: verify and settle *)

Verify(r, handle, code, trusts) ==
    /\ Begins(r, [NoRequest EXCEPT !.op = "verify", !.at = "claim", !.handle = handle,
                                   !.code = code, !.trusts = trusts])
    /\ UNCHANGED <<now, totp, codes, devices, pending, proofs, sessions, skips, gone>>

StepUp(r, code, trusts) ==
    /\ Begins(r, [NoRequest EXCEPT !.op = "stepUp", !.at = "check",
                                   !.code = code, !.trusts = trusts])
    /\ UNCHANGED <<now, totp, codes, devices, pending, proofs, sessions, skips, gone>>

\* Mutant: the row is read and stays.
ClaimReads(r) ==
    /\ req[r].at = "claim"
    /\ \E v \in Claimable(pending, Id, req[r].handle, now) :
          Becomes(r, [req[r] EXCEPT !.at = "check", !.until = v.expiresAt])
    /\ UNCHANGED <<now, totp, codes, devices, pending, proofs, sessions, skips, gone, before>>

\* The row is claimed before the code is looked at.
Claim(r) ==
    /\ req[r].at = "claim"
    /\ \E v \in Claimable(pending, Id, req[r].handle, now) :
          /\ pending' = pending \ {v}
          /\ Becomes(r, [req[r] EXCEPT !.at = "check", !.until = v.expiresAt])
    /\ UNCHANGED <<now, totp, codes, devices, proofs, sessions, skips, gone, before>>

ClaimNothing(r) ==
    /\ req[r].at = "claim"
    /\ Claimable(pending, Id, req[r].handle, now) = {}
    /\ Ends(r, "refused")
    /\ UNCHANGED <<now, totp, codes, devices, pending, proofs, sessions, skips, gone, before>>

\* The code was wrong, or the account's attempts are used up.
Fails(r) == IF req[r].op = "verify" THEN Goes(r, "reissue") ELSE Ends(r, "refused")

Proven(r) == IF req[r].op = "verify" THEN Goes(r, "mint") ELSE Settles(r)

RateLimited(r) ==
    /\ req[r].at = "check"
    /\ Fails(r)
    /\ UNCHANGED <<now, totp, codes, devices, pending, proofs, sessions, skips, gone, before>>

\* checkFactor reads the enrolment and compares the code with it ...
CheckTotp(r) ==
    /\ req[r].at = "check"
    /\ ~Recovering(r)
    /\ IF Active /\ Matches(totp, req[r].code) THEN Goes(r, "consume") ELSE Fails(r)
    /\ UNCHANGED <<now, totp, codes, devices, pending, proofs, sessions, skips, gone, before>>

\* Mutant: the replay rule is left to the comparison.
ConsumeStepUnguarded(r) ==
    /\ req[r].at = "consume"
    /\ IF Active
       THEN /\ totp' = [totp EXCEPT !.last = req[r].code.n]
            /\ proofs' = proofs \cup {[code |-> req[r].code, by |-> r]}
            /\ Proven(r)
       ELSE Fails(r) /\ UNCHANGED <<totp, proofs>>
    /\ UNCHANGED <<now, codes, devices, pending, sessions, skips, gone, before>>

\* ... and consumeTotpStep spends the step of whatever enrolment is there by then.
ConsumeStep(r) ==
    /\ req[r].at = "consume"
    /\ IF Active /\ totp.last < req[r].code.n
       THEN /\ totp' = [totp EXCEPT !.last = req[r].code.n]
            /\ proofs' = proofs \cup {[code |-> req[r].code, by |-> r]}
            /\ Proven(r)
       ELSE Fails(r) /\ UNCHANGED <<totp, proofs>>
    /\ UNCHANGED <<now, codes, devices, pending, sessions, skips, gone, before>>

ConsumeRecoveryCode(r) ==
    /\ req[r].at = "check"
    /\ Recovering(r)
    /\ IF req[r].code \in codes
       THEN /\ codes' = codes \ {req[r].code}
            /\ proofs' = proofs \cup {[code |-> req[r].code, by |-> r]}
            /\ Proven(r)
       ELSE Fails(r) /\ UNCHANGED <<codes, proofs>>
    /\ UNCHANGED <<now, totp, devices, pending, sessions, skips, gone, before>>

\* reissuePending reads off the clock what is left of the window ...
FindLeft(r) ==
    /\ req[r].at = "reissue"
    /\ IF req[r].until > now
       THEN Becomes(r, [req[r] EXCEPT !.at = "rewrite", !.left = req[r].until - now])
       ELSE Ends(r, "refused")
    /\ UNCHANGED <<now, totp, codes, devices, pending, proofs, sessions, skips, gone, before>>

\* Mutant: the window starts anew.
ReissueAnew(r) ==
    /\ req[r].at = "rewrite"
    /\ pending' = Issued(pending, Id, req[r].handle, "firstFactor", PendingTtl, now)
    /\ Ends(r, "refused")
    /\ UNCHANGED <<now, totp, codes, devices, proofs, sessions, skips, gone, before>>

\* ... and issue counts it again from the clock as it stands when the row is
\* written, under the same handle.
Reissue(r) ==
    /\ req[r].at = "rewrite"
    /\ pending' = Issued(pending, Id, req[r].handle, "firstFactor", req[r].left, now)
    /\ Ends(r, "refused")
    /\ UNCHANGED <<now, totp, codes, devices, proofs, sessions, skips, gone, before>>

Remember(r) ==
    /\ req[r].at = "remember"
    /\ devices' = devices \cup {[since |-> r, token |-> r, until |-> now + DeviceTtl]}
    /\ Ends(r, "done")
    /\ UNCHANGED <<now, totp, codes, pending, proofs, sessions, skips, gone, before>>

-----------------------------------------------------------------------------
(* Enrolment, recovery codes and devices *)

\* startEnrolment: one upsert, which an active enrolment refuses.
StartEnrolment(r) ==
    /\ Begins(r, [NoRequest EXCEPT !.op = "start", !.at = "done",
                                   !.answer = IF Active THEN "refused" ELSE "done"])
    /\ IF Active
       THEN UNCHANGED <<totp, gone>>
       ELSE /\ totp' = [secret |-> r, active |-> FALSE, last |-> Never]
            /\ gone' = gone \cup {totp.secret}
    /\ UNCHANGED <<now, codes, devices, pending, proofs, sessions, skips>>

Confirm(r, code) ==
    /\ Begins(r, [NoRequest EXCEPT !.op = "confirm", !.at = "pending", !.code = code])
    /\ UNCHANGED <<now, totp, codes, devices, pending, proofs, sessions, skips, gone>>

\* A pending enrolment that is too old, and attempts that are used up: see Abandon.
FindPending(r) ==
    /\ req[r].at = "pending"
    /\ IF Pendant /\ Matches(totp, req[r].code) THEN Goes(r, "activate") ELSE Ends(r, "refused")
    /\ UNCHANGED <<now, totp, codes, devices, pending, proofs, sessions, skips, gone, before>>

\* confirmTotp makes whatever enrolment is pending by then the factor.
Activate(r) ==
    /\ req[r].at = "activate"
    /\ IF Pendant
       THEN /\ totp' = [totp EXCEPT !.active = TRUE, !.last = req[r].code.n]
            /\ proofs' = proofs \cup {[code |-> req[r].code, by |-> r]}
            /\ Goes(r, "replace")
       ELSE Ends(r, "refused") /\ UNCHANGED <<totp, proofs>>
    /\ UNCHANGED <<now, codes, devices, pending, sessions, skips, gone, before>>

Regenerate(r) ==
    /\ Begins(r, [NoRequest EXCEPT !.op = "regenerate", !.at = "regenerate"])
    /\ UNCHANGED <<now, totp, codes, devices, pending, proofs, sessions, skips, gone>>

FindActive(r) ==
    /\ req[r].at = "regenerate"
    /\ IF Active THEN Goes(r, "replace") ELSE Ends(r, "refused")
    /\ UNCHANGED <<now, totp, codes, devices, pending, proofs, sessions, skips, gone, before>>

\* replaceRecoveryCodes reads the set plainly ...
ReadCodes(r) ==
    /\ req[r].at = "replace"
    /\ Becomes(r, [req[r] EXCEPT !.at = "insert", !.held = codes])
    /\ UNCHANGED <<now, totp, codes, devices, pending, proofs, sessions, skips, gone, before>>

\* Mutant: a new set leaves the browsers remembered.
ReplaceCodesOnly(r) ==
    /\ req[r].at = "insert"
    /\ codes' = (codes \ req[r].held) \cup SetOf(r)
    /\ Ends(r, "done")
    /\ UNCHANGED <<now, totp, devices, pending, proofs, sessions, skips, gone, before>>

\* ... and deletes what it read, by key.
ReplaceCodes(r) ==
    /\ req[r].at = "insert"
    /\ codes' = (codes \ req[r].held) \cup SetOf(r)
    /\ Becomes(r, [req[r] EXCEPT !.at = "forget", !.held = {}])
    /\ UNCHANGED <<now, totp, devices, pending, proofs, sessions, skips, gone, before>>

\* disable: deleteTotp, deleteRecoveryCodes and deleteDevices, one by one.
Disable(r) ==
    /\ Begins(r, [NoRequest EXCEPT !.op = "disable",
                                   !.at = IF totp = NoEnrolment THEN "done" ELSE "dropCodes",
                                   !.answer = IF totp = NoEnrolment THEN "refused" ELSE "none"])
    /\ totp' = NoEnrolment
    /\ gone' = gone \cup {totp.secret}
    /\ UNCHANGED <<now, codes, devices, pending, proofs, sessions, skips>>

DropCodes(r) ==
    /\ req[r].at = "dropCodes"
    /\ codes' = {}
    /\ Goes(r, "forget")
    /\ UNCHANGED <<now, totp, devices, pending, proofs, sessions, skips, gone, before>>

\* deleteDevices.
Forget(r) ==
    /\ req[r].at = "forget"
    /\ devices' = {}
    /\ Ends(r, "done")
    /\ UNCHANGED <<now, totp, codes, pending, proofs, sessions, skips, gone, before>>

\* revokeDevices, also when an event says that the account was re-secured.
RevokeDevices(r) ==
    /\ Begins(r, [NoRequest EXCEPT !.op = "revoke", !.at = "forget"])
    /\ UNCHANGED <<now, totp, codes, devices, pending, proofs, sessions, skips, gone>>

RevokeDevice(r, d) ==
    /\ Begins(r, [NoRequest EXCEPT !.op = "revokeOne", !.at = "done"])
    /\ devices' = {e \in devices : e.since # d.since}
    /\ UNCHANGED <<now, totp, codes, pending, proofs, sessions, skips, gone>>

\* revokeAll, in the transaction that sweeps an unproven account.
Sweep(r) ==
    /\ Begins(r, [NoRequest EXCEPT !.op = "sweep", !.at = "done", !.answer = "done"])
    /\ totp' = NoEnrolment
    /\ gone' = gone \cup {totp.secret}
    /\ codes' = {}
    /\ devices' = {}
    /\ UNCHANGED <<now, pending, proofs, sessions, skips>>

-----------------------------------------------------------------------------

\* Refused by a hook or a limit, failed or crashed between two statements.
Abandon(r) ==
    /\ req[r].at \notin {"idle", "done"}
    /\ Ends(r, "none")
    /\ UNCHANGED <<now, totp, codes, devices, pending, proofs, sessions, skips, gone, before>>

DeleteExpired ==
    /\ pending # Swept(pending, now)
    /\ pending' = Swept(pending, now)
    /\ UNCHANGED <<now, totp, codes, devices, req, proofs, sessions, skips, gone, before>>

Tick ==
    /\ now < MaxTime
    /\ now' = now + 1
    /\ UNCHANGED <<totp, codes, devices, pending, req, proofs, sessions, skips, gone, before>>

\* What there may be for a browser to present.
Made == {Initial} \cup {r \in Request : req[r].at # "idle"}
Presented == [kind: {"totp"}, of: Made, n: 0..(MaxTime + Window)]
             \cup [kind: {"recovery"}, of: Made, n: 1..SetSize]

Start(r) ==
    \/ \E strong \in BOOLEAN, token \in Made \cup {Nobody} : SignIn(r, strong, token)
    \/ \E code \in Presented, trusts \in BOOLEAN :
          StepUp(r, code, trusts) \/ \E h \in Made : Verify(r, h, code, trusts)
    \/ StartEnrolment(r)
    \/ \E code \in Presented : Confirm(r, code)
    \/ Regenerate(r) \/ Disable(r) \/ Sweep(r) \/ RevokeDevices(r)
    \/ \E d \in devices : RevokeDevice(r, d)

Continue(r) ==
    \/ FindEnrolment(r) \/ UseDevice(r) \/ NoDevice(r) \/ IssuePending(r) \/ Mint(r)
    \/ Claim(r) \/ ClaimNothing(r) \/ RateLimited(r) \/ CheckTotp(r) \/ ConsumeStep(r)
    \/ ConsumeRecoveryCode(r) \/ FindLeft(r) \/ Reissue(r) \/ Remember(r)
    \/ FindPending(r) \/ Activate(r) \/ FindActive(r)
    \/ ReadCodes(r) \/ ReplaceCodes(r) \/ DropCodes(r) \/ Forget(r)

Next ==
    \/ \E r \in Request : Start(r) \/ Continue(r) \/ Abandon(r)
    \/ DeleteExpired
    \/ Tick

Spec == Init /\ [][Next]_vars

-----------------------------------------------------------------------------
(* Properties *)

\* Every variable has its type.
TypeOK ==
    /\ now \in Nat
    /\ totp \in Enrolment \cup {NoEnrolment}
    /\ codes \subseteq Code
    /\ devices \subseteq Device
    /\ pending \subseteq Pending
    /\ req \in [Request -> RequestState]
    /\ proofs \subseteq [code: Code, by: Request]
    /\ sessions \subseteq [by: Request, finishes: Writer \cup {Nobody}]
    /\ skips \subseteq [token: Writer, by: Request]
    /\ gone \subseteq Writer \cup {Nobody}
    /\ before \in [Request -> SUBSET Writer]

\* Whoever races with it, and whatever it is presented for (a confirmation, a
\* sign-in, a step-up), a code proves something once: a recovery code ever, a code
\* of the app while the enrolment it belongs to stands.
OneProofPerCode ==
    \A p, q \in proofs :
        p.code = q.code => p = q \/ (p.code.kind = "totp" /\ p.code.of \in gone)

\* A pending sign-in becomes one session at most, however often its handle is
\* presented at once and whatever was guessed wrong before.
OneSessionPerSignIn ==
    \A s, t \in sessions : s.finishes = t.finishes /\ s.finishes # Nobody => s = t

\* Who carries pending sign-in w, and what the clock has left for it: its row, or
\* the request that claimed it, for which it stands still once it is read.
RowsOf(w) == {v \in pending : v.secret = w}
Guessing(w) == {r \in Request : /\ req[r].at \in {"check", "consume", "reissue", "rewrite"}
                               /\ req[r].handle = w}
LeftOf(w) ==
    {v.expiresAt - now : v \in RowsOf(w)}
    \cup {IF req[r].at = "rewrite" THEN req[r].left ELSE req[r].until - now : r \in Guessing(w)}

Issuing(w) == w \in Request /\ req[w].at = "issue"

\* Neither guessing nor use gives more time than was left: however many requests
\* guess at a pending sign-in, and whatever they wait for, it never has longer to
\* go than before and never comes back once it is gone; and a remembered browser
\* ends when it was to end, however often its token is rotated.
TimeOnlyRunsOut ==
    [][/\ \A w \in Writer : ~Issuing(w) =>
            \A t \in LeftOf(w)' : \E left \in LeftOf(w) : t <= left
       /\ \A d \in devices, e \in devices' : e.since = d.since => e.until = d.until]_vars

\* Of two copies of a device token one skips the prompt.
DeviceTokenOnce == \A s, t \in skips : s.token = t.token => s = t

Forgetful == {"confirm", "regenerate", "disable", "sweep", "revoke"}

\* Whoever confirmed, regenerated, disabled, swept, or recovered, has every browser
\* forgotten that was remembered when they began, also one that was being used.
SecuredForgets ==
    \A r \in Request :
        /\ req[r].answer = "done"
        /\ \/ req[r].op \in Forgetful
           \/ req[r].op \in {"verify", "stepUp"} /\ Recovering(r)
        => \A d \in devices : d.since \notin before[r]

-----------------------------------------------------------------------------
(* What the documentation says and the code does not do *)

\* verify, on a wrong code: "the row goes back [...] with the *original* expiry, so
\* guessing cannot extend the window".
EndsOf(w) == {v.expiresAt : v \in RowsOf(w)} \cup {req[r].until : r \in Guessing(w)}

OriginalExpiry == [][\A w \in Writer : ~Issuing(w) => EndsOf(w)' \subseteq EndsOf(w)]_vars

\* The module's documentation: nobody is left with a second factor and no way back
\* in.  (While nobody is at work, and no recovery code was ever spent.)
WayBackIn ==
    /\ Active
    /\ \A r \in Request : req[r].at \in {"idle", "done"}
    /\ \A p \in proofs : p.code.kind = "totp"
    => codes # {}
=============================================================================
