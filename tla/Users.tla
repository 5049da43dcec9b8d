-------------------------------- MODULE Users --------------------------------
(***************************************************************************)
(* Moving an account to another address, verifying an address and deleting *)
(* an account: domain/Users.ts, with the e-mail verification of            *)
(* domain/Passwords.ts and the change by code of email-otp/EmailOtp.ts,    *)
(* which write the same rows.                                              *)
(*                                                                         *)
(* A request is a record that steps from statement to statement.  The      *)
(* link and the code tables are one set of Verifications rows; guesses at  *)
(* a code are the module Challenges.  Nothing here expires: an expired row *)
(* answers as a missing one does, and nothing below asks for a row to be   *)
(* there.  A person is whoever reads a mailbox, and follows any mail in    *)
(* it, once or more, whenever they like.                                   *)
(***************************************************************************)
EXTENDS Verifications, FiniteSets

CONSTANTS
    User,
    Address,
    Request,
    ConfirmByEmail,     \* user.deleteUser.confirmByEmail
    Asker,              \* bound: users who ask for changes, codes and deletions
    MaxLinks,           \* bound: links and codes that are ever minted
    None

ASSUME BoundsAreBounds == ConfirmByEmail \in BOOLEAN /\ Asker \subseteq User /\ MaxLinks \in Nat
ASSUME NoneIsNoName == None \notin User \cup Address

VARIABLES
    users,      \* the users table
    links,      \* the verifications table
    minted,     \* how many secrets there have been
    req,        \* requests under way
    followed,   \* history: mails whose secret was spent
    vouched,    \* history: who was created with which address, and whether it was proven
    unwarned,   \* history: moves asked for by an account with an unproven address
    movedAt     \* history: the last secret minted before an account last moved by link, or went

vars == <<users, links, minted, req, followed, vouched, unwarned, movedAt>>

Absent == [is |-> "absent"]
Gone == [is |-> "gone"]
Live(email, verified) == [is |-> "live", email |-> email, verified |-> verified]
Person == [is : {"live"}, email : Address, verified : BOOLEAN] \cup {Absent, Gone}

IsLive(u) == users[u].is = "live"

FindByEmail(e) == {u \in User : IsLive(u) /\ users[u].email = e}
Taken(e) == FindByEmail(e) # {}

UserSubjectPurposes ==
    {"password-reset", "change-email-confirm", "change-email-verify", "delete-account"}
Purpose == UserSubjectPurposes \cup {"email-verify", "change-email-code"}

\* A row's payload, with the mailbox that its secret went to.
Payload == [newEmail : Address \cup {None}, to : Address \cup {None}]

\* What coming back with a secret shows: somebody reads that mailbox.
Mail == [purpose : Purpose, subject : User \cup Address, newEmail : Address \cup {None}, to : Address]

\* id, email and verified are what the request read of the user.
RequestState ==
    [at : {"idle", "lookup", "code lookup", "retire", "issue", "find confirmer", "second lookup",
           "find mover", "move", "move by code", "find by address", "mark", "find deleted", "delete"},
     id : User \cup {None}, email : Address \cup {None}, verified : BOOLEAN,
     purpose : Purpose \cup {None}, subject : User \cup Address \cup {None},
     to : Address \cup {None}, newEmail : Address \cup {None}]

NoRequest ==
    [at |-> "idle", id |-> None, email |-> None, verified |-> FALSE,
     purpose |-> None, subject |-> None, to |-> None, newEmail |-> None]

Init ==
    /\ users = [u \in User |-> Absent]
    /\ links = {}
    /\ minted = 0
    /\ req = [r \in Request |-> NoRequest]
    /\ followed = {}
    /\ vouched = {}
    /\ unwarned = {}
    /\ movedAt = [u \in User |-> 0]

-----------------------------------------------------------------------------

At(r, step) == req[r].at = step
Becomes(r, state) == req' = [req EXCEPT ![r] = state]
Ends(r) == Becomes(r, NoRequest)

\* What the middleware or findById answers.
Read(r, u) ==
    [req[r] EXCEPT !.id = u, !.subject = None,
                   !.email = users[u].email, !.verified = users[u].verified]

Rows == <<users, links, minted>>
History == <<followed, vouched, unwarned, movedAt>>

\* provision: a sign-up leaves the address unproven, a provider or a code vouches for it.
Provision(u, e, proven) ==
    /\ users[u] = Absent /\ ~Taken(e)
    /\ users' = [users EXCEPT ![u] = Live(e, proven)]
    /\ vouched' = vouched \cup {[user |-> u, email |-> e, proven |-> proven]}
    /\ UNCHANGED <<links, minted, req, followed, unwarned, movedAt>>

-----------------------------------------------------------------------------
(* Minting a link *)

Hop(purpose, subject, to, newEmail) ==
    [NoRequest EXCEPT !.at = "retire", !.purpose = purpose, !.subject = subject,
                      !.to = to, !.newEmail = newEmail]

\* retire, then issue and deliver, for the purpose the request has come to.
RetireEarlier(r) ==
    /\ At(r, "retire")
    /\ links' = Retired(links, IdentifierOf(req[r].purpose, req[r].subject))
    /\ Becomes(r, [req[r] EXCEPT !.at = "issue"])
    /\ UNCHANGED <<users, minted>> /\ UNCHANGED History

\* No address: the code is minted, and nobody gets it.
IssueAndMail(r) ==
    /\ At(r, "issue") /\ minted < MaxLinks
    /\ minted' = minted + 1
    /\ links' = Issued(links, IdentifierOf(req[r].purpose, req[r].subject), minted + 1,
                       [newEmail |-> req[r].newEmail, to |-> req[r].to], 1, 0)
    /\ Ends(r)
    /\ UNCHANGED users /\ UNCHANGED History

\* Mutant: the second hop is mailed where the first one went.
VerificationHopToOld(state) ==
    Hop("change-email-verify", state.id, state.email, state.newEmail)

\* sendVerificationHop.
VerificationHop(state) ==
    Hop("change-email-verify", state.id, state.newEmail, state.newEmail)

ConfirmationHop(state) ==
    Hop("change-email-confirm", state.id, state.email, state.newEmail)

-----------------------------------------------------------------------------
(* Asking *)

\* The middleware reads the user; an unchanged address is refused.
RequestEmailChange(r, u, e) ==
    /\ At(r, "idle") /\ IsLive(u)
    /\ e # users[u].email
    /\ Becomes(r, [Read(r, u) EXCEPT !.at = "lookup", !.newEmail = e])
    /\ UNCHANGED Rows /\ UNCHANGED History

\* Mutant: everybody starts at the second hop.
FirstHopSkipped(state, taken) == IF taken THEN NoRequest ELSE VerificationHop(state)

\* An unverified address is asked nothing.  A verified one is, even for a taken address.
FirstHop(state, taken) ==
    IF state.verified THEN ConfirmationHop(state)
    ELSE IF taken THEN NoRequest
    ELSE VerificationHop(state)

LookUpAddress(r) ==
    /\ At(r, "lookup")
    /\ Becomes(r, FirstHop(req[r], Taken(req[r].newEmail)))
    /\ unwarned' = IF req[r].verified THEN unwarned
                   ELSE unwarned \cup {<<req[r].id, req[r].newEmail>>}
    /\ UNCHANGED Rows /\ UNCHANGED <<followed, vouched, movedAt>>

\* EmailOtp.requestEmailChange: one hop, and a taken address is mailed nothing.
RequestCode(r, u, e) ==
    /\ At(r, "idle") /\ IsLive(u)
    /\ e # users[u].email
    /\ Becomes(r, [Read(r, u) EXCEPT !.at = "code lookup", !.newEmail = e])
    /\ UNCHANGED Rows /\ UNCHANGED History

LookUpForCode(r) ==
    /\ At(r, "code lookup")
    /\ Becomes(r, Hop("change-email-code", req[r].id,
                      IF Taken(req[r].newEmail) THEN None ELSE req[r].newEmail, req[r].newEmail))
    /\ UNCHANGED Rows /\ UNCHANGED History

\* Passwords.requestReset.
RequestReset(r, e) ==
    /\ At(r, "idle")
    /\ \E u \in FindByEmail(e) :
          Becomes(r, [Hop("password-reset", u, e, None) EXCEPT !.at = "issue"])
    /\ UNCHANGED Rows /\ UNCHANGED History

\* Passwords.sendVerificationEmail: its subject is the address.
SendVerificationEmail(r, e) ==
    /\ At(r, "idle")
    /\ \E u \in FindByEmail(e) :
          /\ ~users[u].verified
          /\ Becomes(r, [Hop("email-verify", e, e, None) EXCEPT !.at = "issue"])
    /\ UNCHANGED Rows /\ UNCHANGED History

\* Freshness and password are the caller's; a hook that refuses is Abandon.
RequestDeletion(r, u) ==
    /\ At(r, "idle") /\ IsLive(u)
    /\ Becomes(r, IF ConfirmByEmail
                  THEN Hop("delete-account", u, users[u].email, None)
                  ELSE [Read(r, u) EXCEPT !.at = "delete"])
    /\ UNCHANGED Rows /\ UNCHANGED History

-----------------------------------------------------------------------------
(* Following *)

\* The endpoint's purpose is part of what the row is looked up by.
IsFor(row, purpose) == row.identifier.purpose = purpose

\* claim, by whoever was mailed the secret.  A secret that nobody holds a row
\* for is InvalidToken, and changes nothing.
Claim(r, row, purpose, next) ==
    /\ At(r, "idle")
    /\ IsFor(row, purpose) /\ row.payload.to # None
    /\ links' = links \ {row}
    /\ Becomes(r, IF next = "idle" THEN NoRequest
                  ELSE [NoRequest EXCEPT !.at = next, !.subject = row.identifier.subject,
                                         !.newEmail = row.payload.newEmail])
    /\ followed' = followed \cup
            {[purpose |-> row.identifier.purpose, subject |-> row.identifier.subject,
              newEmail |-> row.payload.newEmail, to |-> row.payload.to]}
    /\ UNCHANGED <<users, minted, vouched, unwarned, movedAt>>

ConfirmEmailChange(r, row) == Claim(r, row, "change-email-confirm", "find confirmer")
VerifyEmailChange(r, row) == Claim(r, row, "change-email-verify", "find mover")
VerifyEmail(r, row) == Claim(r, row, "email-verify", "find by address")

\* The caller has to be the subject: somebody else's link is spent and refused.
ConfirmDeletion(r, u, row) ==
    /\ IsLive(u)
    /\ Claim(r, row, "delete-account", IF row.identifier.subject = u THEN "find deleted" ELSE "idle")

\* EmailOtp.verifyEmailChange: likewise the caller's own, with no lookup.
AnswerCode(r, u, row) ==
    /\ IsLive(u)
    /\ Claim(r, row, "change-email-code", IF row.identifier.subject = u THEN "move by code" ELSE "idle")

\* findById of the subject: an account that has gone ends the request.
FindSubject(r, from, next) ==
    /\ At(r, from)
    /\ IF IsLive(req[r].subject)
       THEN Becomes(r, [Read(r, req[r].subject) EXCEPT !.at = next])
       ELSE Ends(r)
    /\ UNCHANGED Rows /\ UNCHANGED History

FindConfirmer(r) == FindSubject(r, "find confirmer", "second lookup")
FindMover(r) == FindSubject(r, "find mover", "move")
FindDeleted(r) == FindSubject(r, "find deleted", "delete")

\* The second hop, unless somebody took the address meanwhile.
SecondHop(r) ==
    /\ At(r, "second lookup")
    /\ IF Taken(req[r].newEmail) THEN Ends(r) ELSE Becomes(r, VerificationHop(req[r]))
    /\ UNCHANGED Rows /\ UNCHANGED History

-----------------------------------------------------------------------------
(* Writing *)

\* The unique index on the address, and a row that is not there.
MayWrite(u, e) == IsLive(u) /\ FindByEmail(e) \subseteq {u}

\* Mutant: the reset links of the account stay.
SecuredButResets(u, e) ==
    {v \in links : /\ v.identifier \notin {IdentifierOf(p, u) : p \in UserSubjectPurposes \ {"password-reset"}}
                   /\ v.identifier # IdentifierOf("email-verify", e)}

\* retireUserSubjectTokens, and the verification links of one address.
Secured(u, e) ==
    {v \in links : /\ v.identifier \notin {IdentifierOf(p, u) : p \in UserSubjectPurposes}
                   /\ v.identifier # IdentifierOf("email-verify", e)}

\* verifyEmailChange's transaction; a unique violation leaves everything as it was.
Move(r) ==
    /\ At(r, "move")
    /\ IF MayWrite(req[r].id, req[r].newEmail)
       THEN /\ users' = [users EXCEPT ![req[r].id] = Live(req[r].newEmail, TRUE)]
            /\ links' = Secured(req[r].id, req[r].email)
            /\ movedAt' = [movedAt EXCEPT ![req[r].id] = minted]
       ELSE UNCHANGED <<users, links, movedAt>>
    /\ Ends(r)
    /\ UNCHANGED <<minted, followed, vouched, unwarned>>

\* The code's move is a single update, and retires nothing.
MoveByCode(r) ==
    /\ At(r, "move by code")
    /\ users' = IF MayWrite(req[r].subject, req[r].newEmail)
                THEN [users EXCEPT ![req[r].subject] = Live(req[r].newEmail, TRUE)] ELSE users
    /\ Ends(r)
    /\ UNCHANGED <<links, minted>> /\ UNCHANGED History

\* verifyEmail looks for the address, then writes by id.
FindAddress(r) ==
    /\ At(r, "find by address")
    /\ IF Taken(req[r].subject)
       THEN \E u \in FindByEmail(req[r].subject) : Becomes(r, [Read(r, u) EXCEPT !.at = "mark"])
       ELSE Ends(r)
    /\ UNCHANGED Rows /\ UNCHANGED History

MarkVerified(r) ==
    /\ At(r, "mark")
    /\ users' = IF IsLive(req[r].id) THEN [users EXCEPT ![req[r].id].verified = TRUE] ELSE users
    /\ Ends(r)
    /\ UNCHANGED <<links, minted>> /\ UNCHANGED History

\* deleteUser's transaction.
Delete(r) ==
    /\ At(r, "delete")
    /\ users' = [users EXCEPT ![req[r].id] = Gone]
    /\ links' = Secured(req[r].id, req[r].email)
    /\ movedAt' = [movedAt EXCEPT ![req[r].id] = minted]
    /\ Ends(r)
    /\ UNCHANGED <<minted, followed, vouched, unwarned>>

\* A hook refuses, a statement fails, the process stops.
Abandon(r) ==
    /\ ~At(r, "idle")
    /\ Ends(r)
    /\ UNCHANGED Rows /\ UNCHANGED History

-----------------------------------------------------------------------------

Asks(r) ==
    \/ \E u \in Asker, e \in Address : RequestEmailChange(r, u, e) \/ RequestCode(r, u, e)
    \/ \E e \in Address : RequestReset(r, e) \/ SendVerificationEmail(r, e)
    \/ \E u \in Asker : RequestDeletion(r, u)

Follows(r) ==
    \E row \in links :
        \/ ConfirmEmailChange(r, row)
        \/ VerifyEmailChange(r, row)
        \/ VerifyEmail(r, row)
        \/ \E u \in User : ConfirmDeletion(r, u, row) \/ AnswerCode(r, u, row)

Continues(r) ==
    \/ LookUpAddress(r) \/ LookUpForCode(r) \/ RetireEarlier(r) \/ IssueAndMail(r)
    \/ FindConfirmer(r) \/ FindMover(r) \/ FindDeleted(r) \/ SecondHop(r)
    \/ Move(r) \/ MoveByCode(r) \/ FindAddress(r) \/ MarkVerified(r) \/ Delete(r)
    \/ Abandon(r)

Next ==
    \/ \E u \in User, e \in Address, proven \in BOOLEAN : Provision(u, e, proven)
    \/ \E r \in Request : Asks(r) \/ Follows(r) \/ Continues(r)

Spec == Init /\ [][Next]_vars

-----------------------------------------------------------------------------
(* Properties *)

\* Users.ts:8-19.  The address an account has is the one it was created with,
\* or somebody answered the code mailed there, or followed the link mailed
\* there; and in the last case somebody had followed the link that warned an
\* earlier address of this very account of this very move, unless the account
\* asked for it while its address was unproven.
AskedByCode(u, e) ==
    \E m \in followed : m.purpose = "change-email-code" /\ m.subject = u /\ m.to = e
AskedByLink(u, e) ==
    /\ \E m \in followed : m.purpose = "change-email-verify" /\ m.subject = u /\ m.to = e
    /\ \/ <<u, e>> \in unwarned
       \/ \E m \in followed :
             m.purpose = "change-email-confirm" /\ m.subject = u /\ m.newEmail = e /\ m.to # e
MovesAreAgreed ==
    \A u \in User : IsLive(u) =>
        \/ \E v \in vouched : v.user = u /\ v.email = users[u].email
        \/ AskedByCode(u, users[u].email)
        \/ AskedByLink(u, users[u].email)

\* Users.ts:742, Passwords.ts:1075.  A verified address was vouched for when
\* its account was created, or a secret that was mailed to it came back:
\* whichever requests read the account before it moved and write it after.
VerifiedMeansProven ==
    \A u \in User : (IsLive(u) /\ users[u].verified) =>
        \/ \E v \in vouched : v.user = u /\ v.email = users[u].email /\ v.proven
        \/ \E m \in followed : m.to = users[u].email

\* Users.ts:745-760.  A link of an account that is still good was minted after
\* the account last moved by link, and none is good for an account that went,
\* save one that a request under way minted since.
NoLinkOutlivesTheMove ==
    \A v \in links : \A u \in User :
        (v.identifier.purpose \in UserSubjectPurposes /\ v.identifier.subject = u)
            => v.secret > movedAt[u]

TypeOK ==
    /\ users \in [User -> Person]
    /\ minted \in Nat
    /\ \A v \in links : /\ v.identifier \in [purpose : Purpose, subject : User \cup Address]
                        /\ v.payload \in Payload
                        /\ v.secret \in Nat
    /\ req \in [Request -> RequestState]
    /\ followed \subseteq Mail
    /\ vouched \subseteq [user : User, email : Address, proven : BOOLEAN]
    /\ unwarned \subseteq User \X Address
    /\ movedAt \in [User -> Nat]
=============================================================================
