----------------------------- MODULE UsersProofs -----------------------------
(***************************************************************************)
(* What holds of Users for any number of people, addresses, requests and   *)
(* links.                                                                  *)
(*                                                                         *)
(* The inductive invariant says of every row, and of every request on its  *)
(* way to a row or from one, what must have happened for it to be there:   *)
(* who was asked, and which secret came back.  The histories only grow, so *)
(* what a request relies on stays true while it is under way.              *)
(***************************************************************************)
EXTENDS Users, TLAPS

UserPurpose == Purpose \ {"email-verify"}

\* The account was warned at an earlier address, or had none to warn.
Warned(u, e) ==
    \/ <<u, e>> \in unwarned
    \/ \E m \in followed :
          m.purpose = "change-email-confirm" /\ m.subject = u /\ m.newEmail = e /\ m.to # e

Answers(e) == \E m \in followed : m.to = e

\* What a link of a purpose is minted for, and where it is mailed.
Minted(purpose, subject, to, newEmail) ==
    /\ purpose \in UserPurpose => subject \in User
    /\ purpose = "email-verify" => subject \in Address /\ to = subject
    /\ purpose = "change-email-confirm" => newEmail \in Address /\ to # newEmail
    /\ purpose = "change-email-verify" =>
          newEmail \in Address /\ to = newEmail /\ Warned(subject, newEmail)
    /\ purpose = "change-email-code" => newEmail \in Address /\ to \in {None, newEmail}

RowMinted(v) ==
    Minted(v.identifier.purpose, v.identifier.subject, v.payload.to, v.payload.newEmail)

Confirmed(u, e) ==
    /\ u \in User /\ e \in Address
    /\ \E m \in followed :
          m.purpose = "change-email-confirm" /\ m.subject = u /\ m.newEmail = e /\ m.to # e

MayMove(u, e) == u \in User /\ e \in Address /\ AskedByLink(u, e)

Reads(q) == q.id \in User /\ users[q.id].is # "absent"

Backed(q) ==
    /\ q.at \in {"retire", "issue"} =>
          /\ q.purpose \in Purpose
          /\ Minted(q.purpose, q.subject, q.to, q.newEmail)
    /\ q.at \in {"lookup", "code lookup"} =>
          /\ q.id \in User /\ q.newEmail \in Address /\ q.email \in Address
          /\ q.email # q.newEmail
    /\ q.at = "find confirmer" => Confirmed(q.subject, q.newEmail)
    /\ q.at = "second lookup" => Confirmed(q.id, q.newEmail)
    /\ q.at = "find mover" => MayMove(q.subject, q.newEmail)
    /\ q.at = "move" => MayMove(q.id, q.newEmail)
    /\ q.at = "move by code" =>
          q.subject \in User /\ q.newEmail \in Address /\ AskedByCode(q.subject, q.newEmail)
    /\ q.at = "find by address" => q.subject \in Address /\ Answers(q.subject)
    /\ q.at = "mark" => Reads(q) /\ (IsLive(q.id) => Answers(users[q.id].email))
    /\ q.at = "find deleted" => q.subject \in User
    /\ q.at = "delete" => q.id \in User

Bounded == \A u \in User : movedAt[u] <= minted

IInv ==
    /\ TypeOK
    /\ \A v \in links : RowMinted(v)
    /\ \A r \in Request : Backed(req[r])
    /\ Bounded
    /\ MovesAreAgreed
    /\ VerifiedMeansProven
    /\ NoLinkOutlivesTheMove

-----------------------------------------------------------------------------
(* What every step does to what the requests rely on *)

Grows == followed \subseteq followed' /\ unwarned \subseteq unwarned' /\ vouched \subseteq vouched'

\* An account that exists goes, or keeps its address, or has one that answered.
People ==
    \A u \in User : users[u].is # "absent" =>
        /\ users'[u].is # "absent"
        /\ users'[u].is = "live" =>
              \/ users[u].is = "live" /\ users'[u].email = users[u].email
              \/ \E m \in followed' : m.to = users'[u].email

\* Any request's step.
Acts(r) == Asks(r) \/ Follows(r) \/ Continues(r)

LEMMA Alive ==
    ASSUME TypeOK, NEW u \in User, IsLive(u)
    PROVE  users[u] \in [is : {"live"}, email : Address, verified : BOOLEAN]
  BY DEF TypeOK, IsLive, Person, Absent, Gone

\* Whoever reads a live account has a record of the right shape.
LEMMA ReadFits ==
    ASSUME TypeOK, NEW r \in Request, NEW u \in User, IsLive(u)
    PROVE  /\ Read(r, u) \in RequestState
           /\ Read(r, u).id = u /\ Read(r, u).email = users[u].email
           /\ Read(r, u).newEmail = req[r].newEmail
           /\ Read(r, u).verified = users[u].verified
  <1>1. users[u].email \in Address /\ users[u].verified \in BOOLEAN
    BY Alive
  <1>2. req[r] \in RequestState
    BY DEF TypeOK
  <1> QED BY <1>1, <1>2 DEF Read, RequestState

LEMMA IdleIsBacked == NoRequest \in RequestState /\ Backed(NoRequest)'
  BY DEF NoRequest, RequestState, Backed

LEMMA HopFits ==
    ASSUME NEW purpose \in Purpose, NEW subject \in User \cup Address,
           NEW to \in Address \cup {None}, NEW newEmail \in Address \cup {None}
    PROVE  /\ Hop(purpose, subject, to, newEmail) \in RequestState
           /\ Hop(purpose, subject, to, newEmail).at = "retire"
           /\ Hop(purpose, subject, to, newEmail).purpose = purpose
           /\ Hop(purpose, subject, to, newEmail).subject = subject
           /\ Hop(purpose, subject, to, newEmail).to = to
           /\ Hop(purpose, subject, to, newEmail).newEmail = newEmail
  BY DEF Hop, NoRequest, RequestState

LEMMA HopIsBacked ==
    ASSUME NEW purpose \in Purpose, NEW subject \in User \cup Address,
           NEW to \in Address \cup {None}, NEW newEmail \in Address \cup {None},
           Minted(purpose, subject, to, newEmail)'
    PROVE  Backed(Hop(purpose, subject, to, newEmail))'
  <1> DEFINE q == Hop(purpose, subject, to, newEmail)
  <1>1. /\ q.at = "retire" /\ q.purpose = purpose /\ q.subject = subject
        /\ q.to = to /\ q.newEmail = newEmail
    BY HopFits
  <1> HIDE DEF q
  <1>2. Backed(q)'
    BY <1>1 DEF Backed
  <1> QED BY <1>2 DEF q

\* The histories only grow, so whatever was shown stays shown.
LEMMA ShownStays ==
    ASSUME Grows
    PROVE  /\ \A u, e : Warned(u, e) => Warned(u, e)'
           /\ \A u, e : Confirmed(u, e) => Confirmed(u, e)'
           /\ \A u, e : AskedByLink(u, e) => AskedByLink(u, e)'
           /\ \A u, e : AskedByCode(u, e) => AskedByCode(u, e)'
           /\ \A e : Answers(e) => Answers(e)'
           /\ \A p, s, t, e : Minted(p, s, t, e) => Minted(p, s, t, e)'
  <1>1. \A u, e : Warned(u, e) => Warned(u, e)'
    BY DEF Grows, Warned
  <1>2. \A u, e : Confirmed(u, e) => Confirmed(u, e)'
    BY DEF Grows, Confirmed
  <1>3. \A u, e : AskedByLink(u, e) => AskedByLink(u, e)'
    BY DEF Grows, AskedByLink
  <1>4. \A u, e : AskedByCode(u, e) => AskedByCode(u, e)'
    BY DEF Grows, AskedByCode
  <1>5. \A e : Answers(e) => Answers(e)'
    BY DEF Grows, Answers
  <1>6. \A p, s, t, e : Minted(p, s, t, e) => Minted(p, s, t, e)'
    BY <1>1 DEF Minted
  <1> QED BY <1>1, <1>2, <1>3, <1>4, <1>5, <1>6

LEMMA BackedStays ==
    ASSUME Grows, People, NEW q, Backed(q)
    PROVE  Backed(q)'
  <1>1. \A u, e : MayMove(u, e) => MayMove(u, e)'
    BY ShownStays DEF MayMove
  <1>2. q.at = "mark" => Reads(q)' /\ (IsLive(q.id)' => Answers(users[q.id].email)')
    <2> SUFFICES ASSUME q.at = "mark" PROVE Reads(q)' /\ (IsLive(q.id)' => Answers(users[q.id].email)')
      OBVIOUS
    <2>1. q.id \in User /\ users[q.id].is # "absent" /\ (IsLive(q.id) => Answers(users[q.id].email))
      BY DEF Backed, Reads
    <2>2. Reads(q)'
      BY <2>1 DEF People, Reads
    <2>3. ASSUME IsLive(q.id)' PROVE Answers(users[q.id].email)'
      <3>1. \/ users[q.id].is = "live" /\ users'[q.id].email = users[q.id].email
            \/ \E m \in followed' : m.to = users'[q.id].email
        BY <2>1, <2>3 DEF People, IsLive
      <3>2. CASE users[q.id].is = "live" /\ users'[q.id].email = users[q.id].email
        BY <3>2, <2>1 DEF IsLive, Answers, Grows
      <3>3. CASE \E m \in followed' : m.to = users'[q.id].email
        BY <3>3 DEF Answers
      <3> QED BY <3>1, <3>2, <3>3
    <2> QED BY <2>2, <2>3
  <1>3. /\ q.at \in {"retire", "issue"} =>
              q.purpose \in Purpose /\ Minted(q.purpose, q.subject, q.to, q.newEmail)'
        /\ q.at = "find confirmer" => Confirmed(q.subject, q.newEmail)'
        /\ q.at = "second lookup" => Confirmed(q.id, q.newEmail)'
        /\ q.at = "move by code" =>
              q.subject \in User /\ q.newEmail \in Address /\ AskedByCode(q.subject, q.newEmail)'
        /\ q.at = "find by address" => q.subject \in Address /\ Answers(q.subject)'
    BY ShownStays DEF Backed
  <1>4. /\ q.at = "find mover" => MayMove(q.subject, q.newEmail)'
        /\ q.at = "move" => MayMove(q.id, q.newEmail)'
    BY <1>1 DEF Backed
  <1>5. /\ q.at \in {"lookup", "code lookup"} =>
              /\ q.id \in User /\ q.newEmail \in Address /\ q.email \in Address
              /\ q.email # q.newEmail
        /\ q.at = "find deleted" => q.subject \in User
        /\ q.at = "delete" => q.id \in User
    BY DEF Backed
  <1> QED BY <1>2, <1>3, <1>4, <1>5 DEF Backed

\* Every step adds to the histories, or leaves them alone.
LEMMA HistoriesGrow ==
    ASSUME [Next]_vars PROVE Grows
  <1>1. ASSUME NEW u \in User, NEW e \in Address, NEW proven \in BOOLEAN, Provision(u, e, proven)
        PROVE  Grows
    BY <1>1 DEF Provision, Grows
  <1>2. ASSUME NEW r \in Request, Asks(r) PROVE Grows
    BY <1>2 DEF Asks, RequestEmailChange, RequestCode, RequestReset, SendVerificationEmail,
                RequestDeletion, History, Grows
  <1>3. ASSUME NEW r \in Request, Follows(r) PROVE Grows
    BY <1>3 DEF Follows, ConfirmEmailChange, VerifyEmailChange, VerifyEmail, ConfirmDeletion,
                AnswerCode, Claim, Grows
  <1>4. ASSUME NEW r \in Request, Continues(r) PROVE Grows
    BY <1>4 DEF Continues, LookUpAddress, LookUpForCode, RetireEarlier, IssueAndMail, FindConfirmer,
                FindMover, FindDeleted, FindSubject, SecondHop, Move, MoveByCode, FindAddress,
                MarkVerified, Delete, Abandon, History, Grows
  <1>5. CASE UNCHANGED vars
    BY <1>5 DEF vars, Grows
  <1> QED BY <1>1, <1>2, <1>3, <1>4, <1>5 DEF Next

-----------------------------------------------------------------------------
(* What happens to the users table *)

Moved(u, e) ==
    /\ IsLive(u)
    /\ users' = [users EXCEPT ![u] = Live(e, TRUE)]
    /\ AskedByLink(u, e) \/ AskedByCode(u, e)

Marked(u) ==
    /\ IsLive(u)
    /\ users' = [users EXCEPT ![u].verified = TRUE]
    /\ Answers(users[u].email)

Changed ==
    \/ users' = users
    \/ \E u \in User, e \in Address, proven \in BOOLEAN : Provision(u, e, proven)
    \/ \E u \in User, e \in Address : Moved(u, e)
    \/ \E u \in User : Marked(u)
    \/ \E u \in User : users' = [users EXCEPT ![u] = Gone]

LEMMA ContinuesChanges ==
    ASSUME TypeOK, NEW r \in Request, Backed(req[r]), Continues(r)
    PROVE  Changed
  <1>1. CASE Move(r)
    <2>1. MayMove(req[r].id, req[r].newEmail)
      BY <1>1 DEF Move, At, Backed
    <2>2. CASE MayWrite(req[r].id, req[r].newEmail)
      <3>1. Moved(req[r].id, req[r].newEmail)
        BY <1>1, <2>1, <2>2 DEF Move, MayWrite, MayMove, Moved
      <3> QED BY <3>1, <2>1 DEF MayMove, Changed
    <2>3. CASE ~MayWrite(req[r].id, req[r].newEmail)
      BY <1>1, <2>3 DEF Move, Changed
    <2> QED BY <2>2, <2>3
  <1>2. CASE MoveByCode(r)
    <2>1. /\ req[r].subject \in User /\ req[r].newEmail \in Address
          /\ AskedByCode(req[r].subject, req[r].newEmail)
      BY <1>2 DEF MoveByCode, At, Backed
    <2>2. CASE MayWrite(req[r].subject, req[r].newEmail)
      <3>1. Moved(req[r].subject, req[r].newEmail)
        BY <1>2, <2>1, <2>2 DEF MoveByCode, MayWrite, Moved
      <3> QED BY <3>1, <2>1 DEF Changed
    <2>3. CASE ~MayWrite(req[r].subject, req[r].newEmail)
      BY <1>2, <2>3 DEF MoveByCode, Changed
    <2> QED BY <2>2, <2>3
  <1>3. CASE MarkVerified(r)
    <2>1. req[r].id \in User /\ (IsLive(req[r].id) => Answers(users[req[r].id].email))
      BY <1>3 DEF MarkVerified, At, Backed, Reads
    <2>2. CASE IsLive(req[r].id)
      <3>1. Marked(req[r].id)
        BY <1>3, <2>1, <2>2 DEF MarkVerified, Marked
      <3> QED BY <3>1, <2>1 DEF Changed
    <2>3. CASE ~IsLive(req[r].id)
      BY <1>3, <2>3 DEF MarkVerified, Changed
    <2> QED BY <2>2, <2>3
  <1>4. CASE Delete(r)
    <2>1. req[r].id \in User
      BY <1>4 DEF Delete, At, Backed
    <2>2. users' = [users EXCEPT ![req[r].id] = Gone]
      BY <1>4 DEF Delete
    <2> QED BY <2>1, <2>2 DEF Changed
  <1>5. CASE LookUpAddress(r) \/ LookUpForCode(r) \/ RetireEarlier(r) \/ IssueAndMail(r)
    BY <1>5 DEF LookUpAddress, LookUpForCode, RetireEarlier, IssueAndMail, Rows, Changed
  <1>6. CASE FindConfirmer(r) \/ FindMover(r) \/ FindDeleted(r) \/ SecondHop(r) \/ FindAddress(r)
             \/ Abandon(r)
    BY <1>6 DEF FindConfirmer, FindMover, FindDeleted, FindSubject, SecondHop, FindAddress, Abandon,
                Rows, Changed
  <1> QED BY <1>1, <1>2, <1>3, <1>4, <1>5, <1>6 DEF Continues

LEMMA UsersChange ==
    ASSUME TypeOK, \A r \in Request : Backed(req[r]), [Next]_vars
    PROVE  Changed
  <1>1. ASSUME NEW r \in Request, Asks(r) PROVE Changed
    BY <1>1 DEF Asks, RequestEmailChange, RequestCode, RequestReset, SendVerificationEmail,
                RequestDeletion, Rows, Changed
  <1>2. ASSUME NEW r \in Request, Follows(r) PROVE Changed
    BY <1>2 DEF Follows, ConfirmEmailChange, VerifyEmailChange, VerifyEmail, ConfirmDeletion,
                AnswerCode, Claim, Changed
  <1>3. ASSUME NEW r \in Request, Continues(r) PROVE Changed
    BY <1>3, ContinuesChanges
  <1>4. CASE UNCHANGED vars
    BY <1>4 DEF vars, Changed
  <1>5. CASE \E u \in User, e \in Address, proven \in BOOLEAN : Provision(u, e, proven)
    BY <1>5 DEF Changed
  <1> QED BY <1>1, <1>2, <1>3, <1>4, <1>5 DEF Next

\* What one write of an account leaves the others.
LEMMA OneWritten ==
    ASSUME users \in [User -> Person], NEW u \in User, NEW v, users' = [users EXCEPT ![u] = v]
    PROVE  users'[u] = v /\ \A w \in User \ {u} : users'[w] = users[w]
  OBVIOUS

LEMMA MarkedIs ==
    ASSUME TypeOK, NEW u \in User, Marked(u)
    PROVE  /\ users'[u] = Live(users[u].email, TRUE)
           /\ \A w \in User \ {u} : users'[w] = users[w]
           /\ users' \in [User -> Person]
  <1>1. users[u] \in [is : {"live"}, email : Address, verified : BOOLEAN]
    BY Alive DEF Marked
  <1>2. users'[u] = [users[u] EXCEPT !.verified = TRUE]
    BY DEF Marked, TypeOK
  <1>3. users'[u] = Live(users[u].email, TRUE)
    BY <1>1, <1>2 DEF Live
  <1>4. \A w \in User \ {u} : users'[w] = users[w]
    BY DEF Marked, TypeOK
  <1>5. Live(users[u].email, TRUE) \in Person
    BY <1>1 DEF Live, Person
  <1>6. users' \in [User -> Person]
    BY <1>2, <1>3, <1>5 DEF Marked, TypeOK
  <1> QED BY <1>3, <1>4, <1>6

LEMMA UsersTyped ==
    ASSUME TypeOK, Changed PROVE users' \in [User -> Person]
  <1>1. \A e \in Address, v \in BOOLEAN : Live(e, v) \in Person
    BY DEF Live, Person
  <1>2. Gone \in Person
    BY DEF Person
  <1>3. ASSUME NEW u \in User, NEW e \in Address, NEW p \in BOOLEAN, Provision(u, e, p)
        PROVE  users' \in [User -> Person]
    BY <1>1, <1>3 DEF Provision, TypeOK
  <1>4. ASSUME NEW u \in User, NEW e \in Address, Moved(u, e) PROVE users' \in [User -> Person]
    BY <1>1, <1>4 DEF Moved, TypeOK
  <1>5. ASSUME NEW u \in User, Marked(u) PROVE users' \in [User -> Person]
    BY <1>5, MarkedIs
  <1>6. ASSUME NEW u \in User, users' = [users EXCEPT ![u] = Gone]
        PROVE  users' \in [User -> Person]
    BY <1>2, <1>6 DEF TypeOK
  <1>7. CASE users' = users
    BY <1>7 DEF TypeOK
  <1> QED BY <1>3, <1>4, <1>5, <1>6, <1>7 DEF Changed

LEMMA AskedAnswers ==
    ASSUME NEW u, NEW e, AskedByLink(u, e) \/ AskedByCode(u, e) PROVE Answers(e)
  BY DEF AskedByLink, AskedByCode, Answers

LEMMA PeopleStay ==
    ASSUME TypeOK, Changed, Grows PROVE People
  <1>1. ASSUME NEW u \in User, NEW e \in Address, NEW p \in BOOLEAN, Provision(u, e, p)
        PROVE  People
    <2>1. users[u] = Absent /\ users' = [users EXCEPT ![u] = Live(e, p)]
      BY <1>1 DEF Provision
    <2>2. \A w \in User \ {u} : users'[w] = users[w]
      BY <2>1, OneWritten DEF TypeOK
    <2> QED BY <2>1, <2>2 DEF People, Absent
  <1>2. ASSUME NEW u \in User, NEW e \in Address, Moved(u, e) PROVE People
    <2>1. users'[u] = Live(e, TRUE) /\ \A w \in User \ {u} : users'[w] = users[w]
      BY <1>2, OneWritten DEF Moved, TypeOK
    <2>2. \E m \in followed' : m.to = e
      BY <1>2, AskedAnswers DEF Moved, Answers, Grows
    <2> QED BY <2>1, <2>2 DEF People, Live
  <1>3. ASSUME NEW u \in User, Marked(u) PROVE People
    <2>1. users'[u] = Live(users[u].email, TRUE) /\ \A w \in User \ {u} : users'[w] = users[w]
      BY <1>3, MarkedIs
    <2> QED BY <2>1, <1>3 DEF People, Live, Marked, IsLive
  <1>4. ASSUME NEW u \in User, users' = [users EXCEPT ![u] = Gone] PROVE People
    <2>1. users'[u] = Gone /\ \A w \in User \ {u} : users'[w] = users[w]
      BY <1>4, OneWritten DEF TypeOK
    <2> QED BY <2>1 DEF People, Gone
  <1>5. CASE users' = users
    BY <1>5 DEF People
  <1> QED BY <1>1, <1>2, <1>3, <1>4, <1>5 DEF Changed

-----------------------------------------------------------------------------
(* What happens to the request that steps *)

Leads(r) == \E q \in RequestState : Becomes(r, q) /\ Backed(q)'

LEMMA EndsLeads ==
    ASSUME NEW r, Ends(r) PROVE Leads(r)
  BY IdleIsBacked DEF Ends, Leads

LEMMA HopLeads ==
    ASSUME NEW r, NEW purpose \in Purpose, NEW subject \in User \cup Address,
           NEW to \in Address \cup {None}, NEW newEmail \in Address \cup {None},
           Minted(purpose, subject, to, newEmail)',
           Becomes(r, Hop(purpose, subject, to, newEmail))
    PROVE  Leads(r)
  <1>1. Hop(purpose, subject, to, newEmail) \in RequestState
    BY HopFits
  <1>2. Backed(Hop(purpose, subject, to, newEmail))'
    BY HopIsBacked
  <1> QED BY <1>1, <1>2 DEF Leads

LEMMA MailLeads ==
    ASSUME NEW r, NEW purpose \in Purpose, NEW subject \in User \cup Address,
           NEW to \in Address, Minted(purpose, subject, to, None)',
           Becomes(r, [Hop(purpose, subject, to, None) EXCEPT !.at = "issue"])
    PROVE  Leads(r)
  <1>1. PICK h : h = Hop(purpose, subject, to, None)
    OBVIOUS
  <1>2. /\ h \in RequestState /\ h.purpose = purpose /\ h.subject = subject
        /\ h.to = to /\ h.newEmail = None
    BY <1>1, HopFits
  <1>3. PICK q : q = [h EXCEPT !.at = "issue"]
    OBVIOUS
  <1>4. Becomes(r, q)
    BY <1>1, <1>3
  <1>5. q \in RequestState
    <2>1. h \in RequestState
      BY <1>2
    <2> QED BY ONLY <2>1, <1>3 DEF RequestState
  <1>6. /\ q.at = "issue" /\ q.purpose = purpose /\ q.subject = subject
        /\ q.to = to /\ q.newEmail = None
    BY <1>2, <1>3 DEF RequestState
  <1>7. Backed(q)'
    BY <1>6 DEF Backed
  <1> QED BY <1>4, <1>5, <1>7 DEF Leads

\* The steps that read the account and go on with what they found.
LEMMA ReadLeads ==
    ASSUME TypeOK, NEW r \in Request, NEW u \in User, IsLive(u),
           NEW at \in {"second lookup", "move", "mark", "delete"},
           NEW e, e = req[r].newEmail,
           Becomes(r, [Read(r, u) EXCEPT !.at = at]),
           at = "second lookup" => Confirmed(u, e)',
           at = "move" => MayMove(u, e)',
           at = "mark" => Reads([id |-> u])' /\ Answers(users[u].email)'
    PROVE  Leads(r)
  <1>1. PICK h : h = Read(r, u)
    OBVIOUS
  <1>2. h \in RequestState /\ h.id = u /\ h.newEmail = e
    BY <1>1, ReadFits
  <1>3. PICK q : q = [h EXCEPT !.at = at]
    OBVIOUS
  <1>4. Becomes(r, q)
    BY <1>1, <1>3
  <1>5. q \in RequestState
    BY <1>2, <1>3 DEF RequestState
  <1>6. q.at = at /\ q.id = u /\ q.newEmail = e
    BY <1>2, <1>3 DEF RequestState
  <1>7. q.at = "mark" => Reads(q)' /\ (IsLive(q.id)' => Answers(users[q.id].email)')
    BY <1>6 DEF Reads
  <1>8. Backed(q)'
    BY <1>6, <1>7 DEF Backed
  <1> QED BY <1>4, <1>5, <1>8 DEF Leads

LEMMA AsksLeads ==
    ASSUME TypeOK, NEW r \in Request, Asks(r)
    PROVE  Leads(r)
  <1>1. ASSUME NEW u \in Asker, NEW e \in Address, NEW at \in {"lookup", "code lookup"},
               IsLive(u), e # users[u].email,
               Becomes(r, [Read(r, u) EXCEPT !.at = at, !.newEmail = e])
        PROVE  Leads(r)
    <2>1. u \in User
      BY BoundsAreBounds
    <2>2. PICK h : h = Read(r, u)
      OBVIOUS
    <2>3. h \in RequestState /\ h.id = u /\ h.email = users[u].email
      BY <2>1, <2>2, <1>1, ReadFits
    <2>4. h.email \in Address
      BY <2>1, <2>3, <1>1, Alive
    <2>5. PICK q : q = [h EXCEPT !.at = at, !.newEmail = e]
      OBVIOUS
    <2>6. Becomes(r, q)
      BY <1>1, <2>2, <2>5
    <2>7. q \in RequestState
      BY <2>3, <2>5 DEF RequestState
    <2>8. q.at = at /\ q.id = u /\ q.email = users[u].email /\ q.newEmail = e
      BY <2>3, <2>5 DEF RequestState
    <2>9. Backed(q)'
      BY <2>1, <2>3, <2>4, <2>8, <1>1 DEF Backed
    <2> QED BY <2>6, <2>7, <2>9 DEF Leads
  <1>2. ASSUME NEW u \in Asker, NEW e \in Address, RequestEmailChange(r, u, e) PROVE Leads(r)
    BY <1>1, <1>2 DEF RequestEmailChange
  <1>3. ASSUME NEW u \in Asker, NEW e \in Address, RequestCode(r, u, e) PROVE Leads(r)
    BY <1>1, <1>3 DEF RequestCode
  <1>4. ASSUME NEW e \in Address, RequestReset(r, e) PROVE Leads(r)
    <2>1. PICK u \in FindByEmail(e) :
              Becomes(r, [Hop("password-reset", u, e, None) EXCEPT !.at = "issue"])
      BY <1>4 DEF RequestReset
    <2>2. u \in User
      BY DEF FindByEmail
    <2>3. Minted("password-reset", u, e, None)'
      BY <2>2 DEF Minted
    <2> QED BY <2>1, <2>2, <2>3, MailLeads DEF Purpose, UserSubjectPurposes
  <1>5. ASSUME NEW e \in Address, SendVerificationEmail(r, e) PROVE Leads(r)
    <2>1. Becomes(r, [Hop("email-verify", e, e, None) EXCEPT !.at = "issue"])
      BY <1>5 DEF SendVerificationEmail
    <2>2. Minted("email-verify", e, e, None)'
      BY DEF Minted, UserPurpose
    <2> QED BY <2>1, <2>2, MailLeads DEF Purpose
  <1>6. ASSUME NEW u \in Asker, RequestDeletion(r, u) PROVE Leads(r)
    <2>1. u \in User /\ IsLive(u)
      BY <1>6, BoundsAreBounds DEF RequestDeletion
    <2>2. CASE ConfirmByEmail
      <3>1. PICK e : e = users[u].email
        OBVIOUS
      <3>2. e \in Address /\ Becomes(r, Hop("delete-account", u, e, None))
        BY <1>6, <2>1, <2>2, <3>1, Alive DEF RequestDeletion
      <3>3. Minted("delete-account", u, e, None)'
        BY <2>1 DEF Minted
      <3>4. "delete-account" \in Purpose
        BY DEF Purpose, UserSubjectPurposes
      <3> QED BY <2>1, <3>2, <3>3, <3>4, HopLeads
    <2>3. CASE ~ConfirmByEmail
      <3>1. Becomes(r, [Read(r, u) EXCEPT !.at = "delete"])
        BY <1>6, <2>3 DEF RequestDeletion
      <3> QED BY <3>1, <2>1, ReadLeads
    <2> QED BY <2>2, <2>3
  <1> QED BY <1>2, <1>3, <1>4, <1>5, <1>6 DEF Asks

\* A row that was claimed shows who reads the mailbox its secret went to.
Spent(row) ==
    [purpose |-> row.identifier.purpose, subject |-> row.identifier.subject,
     newEmail |-> row.payload.newEmail, to |-> row.payload.to]

LEMMA ClaimShows ==
    ASSUME TypeOK, NEW r, NEW row \in links, NEW purpose, NEW next, Claim(r, row, purpose, next)
    PROVE  /\ Spent(row) \in followed' /\ Spent(row) \in Mail
           /\ row.identifier.purpose = purpose
           /\ row.payload.to \in Address
  <1>1. /\ row.identifier \in [purpose : Purpose, subject : User \cup Address]
        /\ row.payload \in [newEmail : Address \cup {None}, to : Address \cup {None}]
    BY DEF TypeOK, Payload
  <1>2. row.payload.to \in Address /\ row.identifier.purpose = purpose
    BY <1>1 DEF Claim, IsFor
  <1>3. Spent(row) \in followed'
    BY DEF Claim, Spent
  <1>4. Spent(row) \in Mail
    BY <1>1, <1>2 DEF Spent, Mail
  <1> QED BY <1>2, <1>3, <1>4

LEMMA ClaimLeads ==
    ASSUME TypeOK, NEW r \in Request, NEW row \in links, NEW purpose,
           NEW next \in {"idle", "find confirmer", "find mover", "find by address", "find deleted",
                         "move by code"},
           Claim(r, row, purpose, next),
           NEW subject, subject = row.identifier.subject,
           NEW e, e = row.payload.newEmail,
           next = "find confirmer" => Confirmed(subject, e)',
           next = "find mover" => MayMove(subject, e)',
           next = "find by address" => subject \in Address /\ Answers(subject)',
           next = "find deleted" => subject \in User,
           next = "move by code" => subject \in User /\ e \in Address /\ AskedByCode(subject, e)'
    PROVE  Leads(r)
  <1>1. CASE next = "idle"
    BY <1>1, EndsLeads DEF Claim, Ends
  <1>2. CASE next # "idle"
    <2>1. PICK q : q = [NoRequest EXCEPT !.at = next, !.subject = subject, !.newEmail = e]
      OBVIOUS
    <2>2. Becomes(r, q)
      BY <1>2, <2>1 DEF Claim
    <2>3. subject \in User \cup Address /\ e \in Address \cup {None}
      BY DEF TypeOK, Payload
    <2>4. q \in RequestState
      BY <2>1, <2>3, <1>2 DEF RequestState, NoRequest
    <2>5. q.at = next /\ q.subject = subject /\ q.newEmail = e
      BY <2>1 DEF NoRequest
    <2>6. Backed(q)'
      BY <2>5, <1>2 DEF Backed
    <2> QED BY <2>2, <2>4, <2>6 DEF Leads
  <1> QED BY <1>1, <1>2

LEMMA FollowsLeads ==
    ASSUME TypeOK, Grows, \A v \in links : RowMinted(v), NEW r \in Request, Follows(r)
    PROVE  Leads(r)
  <1>1. PICK row \in links :
            \/ ConfirmEmailChange(r, row)
            \/ VerifyEmailChange(r, row)
            \/ VerifyEmail(r, row)
            \/ \E u \in User : ConfirmDeletion(r, u, row) \/ AnswerCode(r, u, row)
    BY DEF Follows
  <1>2. PICK subject, e, to :
            subject = row.identifier.subject /\ e = row.payload.newEmail /\ to = row.payload.to
    OBVIOUS
  <1>3. Minted(row.identifier.purpose, subject, to, e)
    BY <1>2 DEF RowMinted
  <1>4. CASE ConfirmEmailChange(r, row)
    <2>1. Claim(r, row, "change-email-confirm", "find confirmer")
      BY <1>4 DEF ConfirmEmailChange
    <2>2. /\ Spent(row) \in followed' /\ row.identifier.purpose = "change-email-confirm"
      BY <2>1, ClaimShows
    <2>3. subject \in User /\ e \in Address /\ to # e
      BY <1>3, <2>2 DEF Minted, UserPurpose, Purpose, UserSubjectPurposes
    <2>4. Confirmed(subject, e)'
      BY <1>2, <2>2, <2>3 DEF Confirmed, Spent
    <2> QED BY <1>2, <2>1, <2>4, ClaimLeads
  <1>5. CASE VerifyEmailChange(r, row)
    <2>1. Claim(r, row, "change-email-verify", "find mover")
      BY <1>5 DEF VerifyEmailChange
    <2>2. /\ Spent(row) \in followed' /\ row.identifier.purpose = "change-email-verify"
      BY <2>1, ClaimShows
    <2>3. subject \in User /\ e \in Address /\ to = e /\ Warned(subject, e)
      BY <1>3, <2>2 DEF Minted, UserPurpose, Purpose, UserSubjectPurposes
    <2>4. Warned(subject, e)'
      BY <2>3, ShownStays
    <2>5. AskedByLink(subject, e)'
      BY <1>2, <2>2, <2>3, <2>4 DEF AskedByLink, Warned, Spent
    <2>6. MayMove(subject, e)'
      BY <2>3, <2>5 DEF MayMove
    <2> QED BY <1>2, <2>1, <2>6, ClaimLeads
  <1>6. CASE VerifyEmail(r, row)
    <2>1. Claim(r, row, "email-verify", "find by address")
      BY <1>6 DEF VerifyEmail
    <2>2. /\ Spent(row) \in followed' /\ row.identifier.purpose = "email-verify"
      BY <2>1, ClaimShows
    <2>3. subject \in Address /\ to = subject
      BY <1>3, <2>2 DEF Minted
    <2>4. Answers(subject)'
      BY <1>2, <2>2, <2>3 DEF Answers, Spent
    <2> QED BY <1>2, <2>1, <2>3, <2>4, ClaimLeads
  <1>7. ASSUME NEW u \in User, ConfirmDeletion(r, u, row) PROVE Leads(r)
    <2>1. PICK next \in {"idle", "find deleted"} :
              /\ Claim(r, row, "delete-account", next)
              /\ next = "find deleted" => subject = u
      BY <1>2, <1>7 DEF ConfirmDeletion
    <2> QED BY <1>2, <2>1, ClaimLeads
  <1>8. ASSUME NEW u \in User, AnswerCode(r, u, row) PROVE Leads(r)
    <2>1. PICK next \in {"idle", "move by code"} :
              /\ Claim(r, row, "change-email-code", next)
              /\ next = "move by code" => subject = u
      BY <1>2, <1>8 DEF AnswerCode
    <2>2. /\ Spent(row) \in followed' /\ row.identifier.purpose = "change-email-code"
          /\ row.payload.to \in Address
      BY <2>1, ClaimShows
    <2>3. e \in Address /\ to = e
      BY <1>2, <1>3, <2>2, NoneIsNoName DEF Minted
    <2>4. AskedByCode(subject, e)'
      BY <1>2, <2>2, <2>3 DEF AskedByCode, Spent
    <2> QED BY <1>2, <2>1, <2>3, <2>4, ClaimLeads
  <1> QED BY <1>1, <1>4, <1>5, <1>6, <1>7, <1>8

LEMMA LookUpLeads ==
    ASSUME TypeOK, NEW r \in Request, Backed(req[r]), LookUpAddress(r) PROVE Leads(r)
  <1>1. PICK q : q = req[r]
    OBVIOUS
  <1>2. /\ q \in RequestState
        /\ q.id \in User /\ q.newEmail \in Address /\ q.email \in Address /\ q.email # q.newEmail
    BY <1>1 DEF LookUpAddress, At, Backed, TypeOK
  <1>3. Becomes(r, FirstHop(q, Taken(q.newEmail)))
    BY <1>1 DEF LookUpAddress
  <1>4. CASE q.verified
    <2>1. PICK u, t, e : u = q.id /\ t = q.email /\ e = q.newEmail
      OBVIOUS
    <2>2. Becomes(r, Hop("change-email-confirm", u, t, e))
      BY <1>3, <1>4, <2>1 DEF FirstHop, ConfirmationHop
    <2>3. Minted("change-email-confirm", u, t, e)'
      BY <1>2, <2>1 DEF Minted
    <2>4. "change-email-confirm" \in Purpose
      BY DEF Purpose, UserSubjectPurposes
    <2> QED BY <1>2, <2>1, <2>2, <2>3, <2>4, HopLeads
  <1>5. CASE ~q.verified
    <2>1. <<q.id, q.newEmail>> \in unwarned'
      BY <1>1, <1>5 DEF LookUpAddress
    <2>2. PICK u, e : u = q.id /\ e = q.newEmail
      OBVIOUS
    <2>3. Warned(u, e)'
      BY <2>1, <2>2 DEF Warned
    <2>4. CASE Becomes(r, NoRequest)
      BY <2>4, EndsLeads DEF Ends
    <2>5. CASE Becomes(r, Hop("change-email-verify", u, e, e))
      <3>1. Minted("change-email-verify", u, e, e)'
        BY <1>2, <2>2, <2>3 DEF Minted
      <3>2. "change-email-verify" \in Purpose
        BY DEF Purpose, UserSubjectPurposes
      <3> QED BY <1>2, <2>2, <2>5, <3>1, <3>2, HopLeads
    <2> QED BY <1>3, <1>5, <2>2, <2>4, <2>5 DEF FirstHop, VerificationHop
  <1> QED BY <1>4, <1>5

LEMMA LookUpForCodeLeads ==
    ASSUME TypeOK, NEW r \in Request, Backed(req[r]), LookUpForCode(r) PROVE Leads(r)
  <1>1. PICK u, e, t :
            /\ u = req[r].id /\ e = req[r].newEmail
            /\ t = IF Taken(req[r].newEmail) THEN None ELSE req[r].newEmail
    OBVIOUS
  <1>2. Becomes(r, Hop("change-email-code", u, t, e))
    BY <1>1 DEF LookUpForCode
  <1>3. u \in User /\ e \in Address
    BY <1>1 DEF LookUpForCode, At, Backed
  <1>4. t \in {None, e}
    BY <1>1
  <1>5. Minted("change-email-code", u, t, e)'
    BY <1>3, <1>4 DEF Minted
  <1>6. "change-email-code" \in Purpose
    BY DEF Purpose
  <1> QED BY <1>2, <1>3, <1>4, <1>5, <1>6, HopLeads

LEMMA RetireLeads ==
    ASSUME TypeOK, Grows, NEW r \in Request, Backed(req[r]), RetireEarlier(r) PROVE Leads(r)
  <1>1. PICK h : h = req[r]
    OBVIOUS
  <1>2. h \in RequestState
    BY <1>1 DEF TypeOK
  <1>3. h.purpose \in Purpose /\ Minted(h.purpose, h.subject, h.to, h.newEmail)
    BY <1>1 DEF RetireEarlier, At, Backed
  <1>4. PICK q : q = [h EXCEPT !.at = "issue"]
    OBVIOUS
  <1>5. Becomes(r, q)
    BY <1>1, <1>4 DEF RetireEarlier
  <1>6. q \in RequestState
    BY ONLY <1>2, <1>4 DEF RequestState
  <1>7. /\ q.at = "issue" /\ q.purpose = h.purpose /\ q.subject = h.subject
        /\ q.to = h.to /\ q.newEmail = h.newEmail
    BY ONLY <1>2, <1>4 DEF RequestState
  <1>8. PICK p, s, t, e : p = h.purpose /\ s = h.subject /\ t = h.to /\ e = h.newEmail
    OBVIOUS
  <1>9. Minted(p, s, t, e)'
    BY <1>3, <1>8, ShownStays
  <1>10. Backed(q)'
    BY <1>3, <1>7, <1>8, <1>9 DEF Backed
  <1> QED BY <1>5, <1>6, <1>10 DEF Leads

LEMMA FindLeads ==
    ASSUME TypeOK, Grows, NEW r \in Request, Backed(req[r]),
           FindConfirmer(r) \/ FindMover(r) \/ FindDeleted(r)
    PROVE  Leads(r)
  <1>1. PICK u, e : u = req[r].subject /\ e = req[r].newEmail
    OBVIOUS
  <1>2. CASE ~IsLive(u)
    BY <1>1, <1>2, EndsLeads DEF FindConfirmer, FindMover, FindDeleted, FindSubject
  <1>3. CASE IsLive(u)
    <2>1. CASE FindConfirmer(r)
      <3>1. Confirmed(u, e)
        BY <1>1, <2>1 DEF FindConfirmer, FindSubject, At, Backed
      <3>2. u \in User /\ Confirmed(u, e)'
        BY <3>1, ShownStays DEF Confirmed
      <3>3. Becomes(r, [Read(r, u) EXCEPT !.at = "second lookup"])
        BY <1>1, <1>3, <2>1 DEF FindConfirmer, FindSubject
      <3> QED BY <1>1, <1>3, <3>2, <3>3, ReadLeads
    <2>2. CASE FindMover(r)
      <3>1. u \in User /\ e \in Address /\ AskedByLink(u, e)
        BY <1>1, <2>2 DEF FindMover, FindSubject, At, Backed, MayMove
      <3>2. AskedByLink(u, e)'
        BY <3>1, ShownStays
      <3>3. MayMove(u, e)'
        BY <3>1, <3>2 DEF MayMove
      <3>4. Becomes(r, [Read(r, u) EXCEPT !.at = "move"])
        BY <1>1, <1>3, <2>2 DEF FindMover, FindSubject
      <3> QED BY <1>1, <1>3, <3>1, <3>3, <3>4, ReadLeads
    <2>3. CASE FindDeleted(r)
      <3>1. u \in User
        BY <1>1, <2>3 DEF FindDeleted, FindSubject, At, Backed
      <3>2. Becomes(r, [Read(r, u) EXCEPT !.at = "delete"])
        BY <1>1, <1>3, <2>3 DEF FindDeleted, FindSubject
      <3> QED BY <1>1, <1>3, <3>1, <3>2, ReadLeads
    <2> QED BY <2>1, <2>2, <2>3
  <1> QED BY <1>2, <1>3

LEMMA SecondHopLeads ==
    ASSUME TypeOK, Grows, NEW r \in Request, Backed(req[r]), SecondHop(r) PROVE Leads(r)
  <1>1. PICK u, e : u = req[r].id /\ e = req[r].newEmail
    OBVIOUS
  <1>2. Confirmed(u, e)
    BY <1>1 DEF SecondHop, At, Backed
  <1>3. u \in User /\ e \in Address /\ Confirmed(u, e)'
    BY <1>2, ShownStays DEF Confirmed
  <1>4. Minted("change-email-verify", u, e, e)'
    BY <1>3 DEF Confirmed, Warned, Minted
  <1>5. "change-email-verify" \in Purpose
    BY DEF Purpose, UserSubjectPurposes
  <1>6. CASE Becomes(r, Hop("change-email-verify", u, e, e))
    BY <1>3, <1>4, <1>5, <1>6, HopLeads
  <1>7. CASE Ends(r)
    BY <1>7, EndsLeads
  <1> QED BY <1>1, <1>6, <1>7 DEF SecondHop, VerificationHop

LEMMA FindAddressLeads ==
    ASSUME TypeOK, Grows, NEW r \in Request, Backed(req[r]), FindAddress(r) PROVE Leads(r)
  <1>1. CASE Ends(r)
    BY <1>1, EndsLeads
  <1>2. ASSUME NEW u \in FindByEmail(req[r].subject),
               Becomes(r, [Read(r, u) EXCEPT !.at = "mark"])
        PROVE  Leads(r)
    <2>1. u \in User /\ IsLive(u) /\ users[u].email = req[r].subject
      BY DEF FindByEmail
    <2>2. Answers(req[r].subject)
      BY DEF FindAddress, At, Backed
    <2>3. PICK a : a = users[u].email
      OBVIOUS
    <2>4. Answers(a) /\ Answers(a)'
      BY <2>1, <2>2, <2>3, ShownStays
    <2>5. users' = users
      BY DEF FindAddress, Rows
    <2>6. Answers(users[u].email)'
      BY <2>3, <2>4, <2>5
    <2>7. Reads([id |-> u])'
      BY <2>1, <2>5 DEF Reads, IsLive
    <2>8. PICK e : e = req[r].newEmail
      OBVIOUS
    <2> QED BY <1>2, <2>1, <2>6, <2>7, <2>8, ReadLeads
  <1> QED BY <1>1, <1>2 DEF FindAddress

LEMMA ContinuesLeads ==
    ASSUME TypeOK, Grows, NEW r \in Request, Backed(req[r]), Continues(r) PROVE Leads(r)
  <1>1. CASE IssueAndMail(r) \/ Move(r) \/ MoveByCode(r) \/ MarkVerified(r) \/ Delete(r) \/ Abandon(r)
    BY <1>1, EndsLeads DEF IssueAndMail, Move, MoveByCode, MarkVerified, Delete, Abandon
  <1> QED BY <1>1, LookUpLeads, LookUpForCodeLeads, RetireLeads, FindLeads, SecondHopLeads,
             FindAddressLeads DEF Continues

-----------------------------------------------------------------------------
(* What happens to the verifications table, and when an account last moved *)

Issues(r) ==
    links' = links \cup {Row(IdentifierOf(req[r].purpose, req[r].subject), minted + 1,
                             [newEmail |-> req[r].newEmail, to |-> req[r].to], 0 + 1)}

Secures(u) ==
    /\ movedAt' = [movedAt EXCEPT ![u] = minted]
    /\ \A v \in links' : \A p \in UserSubjectPurposes : v.identifier # IdentifierOf(p, u)

TableChanged ==
    \/ links' \subseteq links /\ minted' = minted /\ movedAt' = movedAt
    \/ links' \subseteq links /\ minted' = minted /\ \E u \in User : Secures(u)
    \/ /\ minted' = minted + 1 /\ movedAt' = movedAt
       /\ \E r \in Request : At(r, "issue") /\ Issues(r)

LEMMA TableChanges ==
    ASSUME TypeOK, \A r \in Request : Backed(req[r]), [Next]_vars
    PROVE  TableChanged
  <1>1. ASSUME NEW u \in User, NEW e \in Address, NEW p \in BOOLEAN, Provision(u, e, p)
        PROVE  TableChanged
    BY <1>1 DEF Provision, TableChanged
  <1>2. ASSUME NEW r \in Request, Asks(r) PROVE TableChanged
    BY <1>2 DEF Asks, RequestEmailChange, RequestCode, RequestReset, SendVerificationEmail,
                RequestDeletion, Rows, History, TableChanged
  <1>3. ASSUME NEW r \in Request, Follows(r) PROVE TableChanged
    BY <1>3 DEF Follows, ConfirmEmailChange, VerifyEmailChange, VerifyEmail, ConfirmDeletion,
                AnswerCode, Claim, TableChanged
  <1>4. ASSUME NEW r \in Request, Move(r) \/ Delete(r) PROVE TableChanged
    <2>1. req[r].id \in User
      BY <1>4 DEF Move, Delete, At, Backed, MayMove
    <2>2. ASSUME NEW e, links' = Secured(req[r].id, e), minted' = minted,
                 movedAt' = [movedAt EXCEPT ![req[r].id] = minted]
          PROVE  TableChanged
      <3>1. links' \subseteq links
        BY <2>2 DEF Secured
      <3>2. Secures(req[r].id)
        BY <2>2 DEF Secured, Secures
      <3> QED BY <2>1, <2>2, <3>1, <3>2 DEF TableChanged
    <2>3. CASE links' = links /\ minted' = minted /\ movedAt' = movedAt
      BY <2>3 DEF TableChanged
    <2> QED BY <1>4, <2>2, <2>3 DEF Move, Delete
  <1>5. ASSUME NEW r \in Request, IssueAndMail(r) PROVE TableChanged
    <2>1. Issues(r)
      BY <1>5 DEF IssueAndMail, Issued, Issues
    <2> QED BY <1>5, <2>1 DEF IssueAndMail, History, TableChanged
  <1>6. ASSUME NEW r \in Request, RetireEarlier(r) PROVE TableChanged
    BY <1>6 DEF RetireEarlier, Retired, History, TableChanged
  <1>7. ASSUME NEW r \in Request,
               \/ LookUpAddress(r) \/ LookUpForCode(r) \/ FindConfirmer(r) \/ FindMover(r)
               \/ FindDeleted(r) \/ SecondHop(r) \/ MoveByCode(r) \/ FindAddress(r)
               \/ MarkVerified(r) \/ Abandon(r)
        PROVE  TableChanged
    BY <1>7 DEF LookUpAddress, LookUpForCode, FindConfirmer, FindMover, FindDeleted, FindSubject,
                SecondHop, MoveByCode, FindAddress, MarkVerified, Abandon, Rows, History, TableChanged
  <1>8. CASE UNCHANGED vars
    BY <1>8 DEF vars, TableChanged
  <1> QED BY <1>1, <1>2, <1>3, <1>4, <1>5, <1>6, <1>7, <1>8 DEF Next, Continues

\* The one row that is added is what its request was to mint.
LEMMA IssuedRow ==
    ASSUME TypeOK, NEW r \in Request, Backed(req[r]), At(r, "issue"), Issues(r),
           NEW v \in links', v \notin links
    PROVE  /\ v.identifier \in [purpose : Purpose, subject : User \cup Address]
           /\ v.payload \in Payload
           /\ v.secret = minted + 1
           /\ RowMinted(v)
  <1>1. PICK q : q = req[r]
    OBVIOUS
  <1>2. v = Row(IdentifierOf(q.purpose, q.subject), minted + 1,
                [newEmail |-> q.newEmail, to |-> q.to], 0 + 1)
    BY <1>1 DEF Issues
  <1>3. /\ v.identifier = [purpose |-> q.purpose, subject |-> q.subject]
        /\ v.secret = minted + 1
        /\ v.payload = [newEmail |-> q.newEmail, to |-> q.to]
    BY <1>2 DEF Row, IdentifierOf
  <1>4. q.purpose \in Purpose /\ Minted(q.purpose, q.subject, q.to, q.newEmail)
    BY <1>1 DEF At, Backed
  <1>5. q \in RequestState
    BY <1>1 DEF TypeOK
  <1>6. q.subject \in User \cup Address
    BY <1>4 DEF Minted, UserPurpose
  <1>7. v.identifier \in [purpose : Purpose, subject : User \cup Address]
    BY <1>3, <1>4, <1>6
  <1>8. v.payload \in Payload
    <2>1. q.newEmail \in Address \cup {None} /\ q.to \in Address \cup {None}
      BY ONLY <1>5 DEF RequestState
    <2> QED BY ONLY <1>3, <2>1 DEF Payload
  <1>9. RowMinted(v)
    BY <1>3, <1>4 DEF RowMinted
  <1> QED BY <1>3, <1>7, <1>8, <1>9

LEMMA RowsStay ==
    ASSUME TypeOK, Grows, \A v \in links : RowMinted(v), \A r \in Request : Backed(req[r]),
           Bounded, NoLinkOutlivesTheMove, TableChanged
    PROVE  /\ \A v \in links' : /\ v.identifier \in [purpose : Purpose, subject : User \cup Address]
                                /\ v.payload \in Payload
                                /\ v.secret \in Nat
           /\ minted' \in Nat /\ movedAt' \in [User -> Nat]
           /\ \A v \in links' : RowMinted(v)'
           /\ Bounded'
           /\ NoLinkOutlivesTheMove'
  <1>1. \A v : RowMinted(v) => RowMinted(v)'
    BY ShownStays DEF RowMinted
  <1>2. minted \in Nat /\ movedAt \in [User -> Nat]
    BY DEF TypeOK
  <1>3. CASE links' \subseteq links /\ minted' = minted /\ movedAt' = movedAt
    <2>1. \A v \in links' : /\ v.identifier \in [purpose : Purpose, subject : User \cup Address]
                           /\ v.payload \in Payload
                           /\ v.secret \in Nat
      BY <1>3 DEF TypeOK
    <2>2. \A v \in links' : RowMinted(v)'
      BY <1>1, <1>3
    <2>3. Bounded' /\ NoLinkOutlivesTheMove'
      BY <1>3 DEF Bounded, NoLinkOutlivesTheMove
    <2> QED BY <1>2, <1>3, <2>1, <2>2, <2>3
  <1>4. ASSUME links' \subseteq links, minted' = minted, NEW u \in User, Secures(u)
        PROVE  /\ \A v \in links' : /\ v.identifier \in [purpose : Purpose, subject : User \cup Address]
                                    /\ v.payload \in Payload
                                    /\ v.secret \in Nat
               /\ minted' \in Nat /\ movedAt' \in [User -> Nat]
               /\ \A v \in links' : RowMinted(v)'
               /\ Bounded'
               /\ NoLinkOutlivesTheMove'
    <2>1. \A v \in links' : /\ v.identifier \in [purpose : Purpose, subject : User \cup Address]
                           /\ v.payload \in Payload
                           /\ v.secret \in Nat
      BY <1>4 DEF TypeOK
    <2>2. movedAt' \in [User -> Nat] /\ movedAt'[u] = minted
          /\ \A w \in User \ {u} : movedAt'[w] = movedAt[w]
      BY <1>2, <1>4 DEF Secures
    <2>3. Bounded'
      BY <1>2, <1>4, <2>2 DEF Bounded
    <2>4. ASSUME NEW v \in links', NEW w \in User,
                 v.identifier.purpose \in UserSubjectPurposes, v.identifier.subject = w
          PROVE  v.secret > movedAt'[w]
      <3>1. v.identifier = IdentifierOf(v.identifier.purpose, w)
        BY <2>1, <2>4 DEF IdentifierOf
      <3>2. w # u
        BY <1>4, <2>4, <3>1 DEF Secures
      <3> QED BY <1>4, <2>2, <2>4, <3>2 DEF NoLinkOutlivesTheMove
    <2>5. NoLinkOutlivesTheMove'
      BY <2>4 DEF NoLinkOutlivesTheMove
    <2> QED BY <1>1, <1>2, <1>4, <2>1, <2>2, <2>3, <2>5
  <1>5. ASSUME minted' = minted + 1, movedAt' = movedAt,
               NEW r \in Request, At(r, "issue"), Issues(r)
        PROVE  /\ \A v \in links' : /\ v.identifier \in [purpose : Purpose, subject : User \cup Address]
                                    /\ v.payload \in Payload
                                    /\ v.secret \in Nat
               /\ minted' \in Nat /\ movedAt' \in [User -> Nat]
               /\ \A v \in links' : RowMinted(v)'
               /\ Bounded'
               /\ NoLinkOutlivesTheMove'
    <2>1. \A v \in links' \ links :
              /\ v.identifier \in [purpose : Purpose, subject : User \cup Address]
              /\ v.payload \in Payload
              /\ v.secret = minted + 1
              /\ RowMinted(v)
      BY <1>5, IssuedRow
    <2>2. \A v \in links' : /\ v.identifier \in [purpose : Purpose, subject : User \cup Address]
                           /\ v.payload \in Payload
                           /\ v.secret \in Nat
      BY <1>2, <2>1 DEF TypeOK
    <2>3. \A v \in links' : RowMinted(v)'
      BY <1>1, <2>1
    <2>4. Bounded'
      BY <1>2, <1>5 DEF Bounded
    <2>5. ASSUME NEW v \in links', NEW w \in User,
                 v.identifier.purpose \in UserSubjectPurposes, v.identifier.subject = w
          PROVE  v.secret > movedAt'[w]
      <3>1. CASE v \in links
        BY <1>5, <2>5, <3>1 DEF NoLinkOutlivesTheMove
      <3>2. CASE v \notin links
        <4>1. v.secret = minted + 1 /\ movedAt[w] <= minted /\ movedAt[w] \in Nat
          BY <1>2, <2>1, <3>2 DEF Bounded
        <4> QED BY <1>2, <1>5, <4>1
      <3> QED BY <3>1, <3>2
    <2>6. NoLinkOutlivesTheMove'
      BY <2>5 DEF NoLinkOutlivesTheMove
    <2> QED BY <1>2, <1>5, <2>2, <2>3, <2>4, <2>6
  <1> QED BY <1>3, <1>4, <1>5 DEF TableChanged

-----------------------------------------------------------------------------
(* The invariant *)

LEMMA Initially == Init => IInv
  <1> SUFFICES ASSUME Init PROVE IInv
    OBVIOUS
  <1>1. TypeOK
    BY IdleIsBacked DEF Init, TypeOK, Person, Absent
  <1>2. \A v \in links : RowMinted(v)
    BY DEF Init
  <1>3. \A r \in Request : Backed(req[r])
    BY DEF Init, NoRequest, Backed
  <1>4. Bounded /\ NoLinkOutlivesTheMove
    BY DEF Init, Bounded, NoLinkOutlivesTheMove
  <1>5. MovesAreAgreed /\ VerifiedMeansProven
    BY DEF Init, MovesAreAgreed, VerifiedMeansProven, IsLive, Absent
  <1> QED BY <1>1, <1>2, <1>3, <1>4, <1>5 DEF IInv

\* What an account's address and its mark rest on.
Agreed(u, e) ==
    \/ \E v \in vouched : v.user = u /\ v.email = e
    \/ AskedByCode(u, e)
    \/ AskedByLink(u, e)
Proven(u, e) ==
    \/ \E v \in vouched : v.user = u /\ v.email = e /\ v.proven
    \/ \E m \in followed : m.to = e

LEMMA AgreementStays ==
    ASSUME Grows
    PROVE  /\ \A u, e : Agreed(u, e) => Agreed(u, e)'
           /\ \A u, e : Proven(u, e) => Proven(u, e)'
  <1>1. \A u, e : Agreed(u, e) => Agreed(u, e)'
    <2> SUFFICES ASSUME NEW u, NEW e, Agreed(u, e) PROVE Agreed(u, e)'
      OBVIOUS
    <2>1. CASE \E v \in vouched : v.user = u /\ v.email = e
      BY <2>1 DEF Grows, Agreed
    <2>2. CASE AskedByCode(u, e) \/ AskedByLink(u, e)
      BY <2>2, ShownStays DEF Agreed
    <2> QED BY <2>1, <2>2 DEF Agreed
  <1>2. \A u, e : Proven(u, e) => Proven(u, e)'
    BY DEF Grows, Proven
  <1> QED BY <1>1, <1>2

LEMMA PeopleAgreed ==
    ASSUME TypeOK, Grows, Changed, MovesAreAgreed, VerifiedMeansProven
    PROVE  MovesAreAgreed' /\ VerifiedMeansProven'
  <1>0. \A u \in User : IsLive(u) =>
            Agreed(u, users[u].email) /\ (users[u].verified => Proven(u, users[u].email))
    BY DEF MovesAreAgreed, VerifiedMeansProven, Agreed, Proven
  <1>1. SUFFICES \A u \in User : users'[u].is = "live" =>
            \E e : /\ e = users'[u].email
                   /\ Agreed(u, e)' /\ (users'[u].verified => Proven(u, e)')
    <2> SUFFICES ASSUME \A u \in User : users'[u].is = "live" =>
                            \E e : /\ e = users'[u].email
                                   /\ Agreed(u, e)' /\ (users'[u].verified => Proven(u, e)'),
                        NEW u \in User, users'[u].is = "live"
                 PROVE  /\ Agreed(u, users[u].email)'
                        /\ users'[u].verified => Proven(u, users[u].email)'
      BY DEF MovesAreAgreed, VerifiedMeansProven, Agreed, Proven, IsLive
    <2>1. PICK e : /\ e = users'[u].email
                   /\ Agreed(u, e)' /\ (users'[u].verified => Proven(u, e)')
      OBVIOUS
    <2> QED BY <2>1
  <1>2. ASSUME NEW u \in User, users'[u] = users[u], users'[u].is = "live"
        PROVE  \E e : /\ e = users'[u].email
                      /\ Agreed(u, e)' /\ (users'[u].verified => Proven(u, e)')
    BY <1>0, <1>2, AgreementStays DEF IsLive
  <1>3. ASSUME NEW w \in User, NEW a \in Address, NEW p \in BOOLEAN, Provision(w, a, p)
        PROVE  \A u \in User : users'[u].is = "live" =>
                  \E e : /\ e = users'[u].email
                         /\ Agreed(u, e)' /\ (users'[u].verified => Proven(u, e)')
    <2>1. users'[w] = Live(a, p) /\ \A u \in User \ {w} : users'[u] = users[u]
      BY <1>3, OneWritten DEF Provision, TypeOK
    <2>2. [user |-> w, email |-> a, proven |-> p] \in vouched'
      BY <1>3 DEF Provision
    <2>3. Agreed(w, a)' /\ (p => Proven(w, a)')
      BY <2>2 DEF Agreed, Proven
    <2> QED BY <1>2, <2>1, <2>3 DEF Live
  <1>4. ASSUME NEW w \in User, NEW a \in Address, Moved(w, a)
        PROVE  \A u \in User : users'[u].is = "live" =>
                  \E e : /\ e = users'[u].email
                         /\ Agreed(u, e)' /\ (users'[u].verified => Proven(u, e)')
    <2>1. users'[w] = Live(a, TRUE) /\ \A u \in User \ {w} : users'[u] = users[u]
      BY <1>4, OneWritten DEF Moved, TypeOK
    <2>2. Agreed(w, a) /\ Proven(w, a)
      BY <1>4, AskedAnswers DEF Moved, Agreed, Proven, Answers
    <2>3. Agreed(w, a)' /\ Proven(w, a)'
      BY <2>2, AgreementStays
    <2> QED BY <1>2, <2>1, <2>3 DEF Live
  <1>5. ASSUME NEW w \in User, Marked(w)
        PROVE  \A u \in User : users'[u].is = "live" =>
                  \E e : /\ e = users'[u].email
                         /\ Agreed(u, e)' /\ (users'[u].verified => Proven(u, e)')
    <2>1. PICK a : a = users[w].email
      OBVIOUS
    <2>2. users'[w] = Live(a, TRUE) /\ \A u \in User \ {w} : users'[u] = users[u]
      BY <1>5, <2>1, MarkedIs
    <2>3. Agreed(w, a) /\ Proven(w, a)
      BY <1>0, <1>5, <2>1 DEF Marked, Proven, Answers
    <2>4. Agreed(w, a)' /\ Proven(w, a)'
      BY <2>3, AgreementStays
    <2> QED BY <1>2, <2>2, <2>4 DEF Live
  <1>6. ASSUME NEW w \in User, users' = [users EXCEPT ![w] = Gone]
        PROVE  \A u \in User : users'[u].is = "live" =>
                  \E e : /\ e = users'[u].email
                         /\ Agreed(u, e)' /\ (users'[u].verified => Proven(u, e)')
    <2>1. users'[w] = Gone /\ \A u \in User \ {w} : users'[u] = users[u]
      BY <1>6, OneWritten DEF TypeOK
    <2> QED BY <1>2, <2>1 DEF Gone
  <1> QED BY <1>2, <1>3, <1>4, <1>5, <1>6 DEF Changed

LEMMA HistoriesTyped ==
    ASSUME TypeOK, \A r \in Request : Backed(req[r]), [Next]_vars
    PROVE  /\ followed' \subseteq Mail
           /\ vouched' \subseteq [user : User, email : Address, proven : BOOLEAN]
           /\ unwarned' \subseteq User \X Address
  <1> DEFINE Typed == /\ followed' \subseteq Mail
                      /\ vouched' \subseteq [user : User, email : Address, proven : BOOLEAN]
                      /\ unwarned' \subseteq User \X Address
  <1>1. ASSUME NEW u \in User, NEW e \in Address, NEW p \in BOOLEAN, Provision(u, e, p) PROVE Typed
    BY <1>1 DEF Provision, TypeOK
  <1>2. ASSUME UNCHANGED <<followed, vouched, unwarned>> PROVE Typed
    BY <1>2 DEF TypeOK
  <1>3. ASSUME NEW r \in Request, Asks(r) PROVE UNCHANGED <<followed, vouched, unwarned>>
    BY <1>3 DEF Asks, RequestEmailChange, RequestCode, RequestReset, SendVerificationEmail,
                RequestDeletion, History
  <1>4. ASSUME NEW r \in Request, NEW row \in links, NEW purpose, NEW next,
               Claim(r, row, purpose, next)
        PROVE  Typed
    <2>1. Spent(row) \in Mail
      BY <1>4, ClaimShows
    <2>2. followed' = followed \cup {Spent(row)} /\ vouched' = vouched /\ unwarned' = unwarned
      BY <1>4 DEF Claim, Spent
    <2> QED BY <2>1, <2>2 DEF TypeOK
  <1>5. ASSUME NEW r \in Request, Follows(r) PROVE Typed
    <2> HIDE DEF Typed
    <2> QED BY <1>4, <1>5 DEF Follows, ConfirmEmailChange, VerifyEmailChange, VerifyEmail,
                          ConfirmDeletion, AnswerCode
  <1>6. ASSUME NEW r \in Request, LookUpAddress(r) PROVE Typed
    <2>1. <<req[r].id, req[r].newEmail>> \in User \X Address
      BY <1>6 DEF LookUpAddress, At, Backed
    <2> QED BY <1>6, <2>1 DEF LookUpAddress, TypeOK
  <1>7. ASSUME NEW r \in Request, Continues(r), ~LookUpAddress(r)
        PROVE  UNCHANGED <<followed, vouched, unwarned>>
    BY <1>7 DEF Continues, LookUpForCode, RetireEarlier, IssueAndMail, FindConfirmer,
                FindMover, FindDeleted, FindSubject, SecondHop, Move, MoveByCode, FindAddress,
                MarkVerified, Delete, Abandon, History
  <1>8. ASSUME UNCHANGED vars PROVE Typed
    BY <1>2, <1>8 DEF vars
  <1> HIDE DEF Typed
  <1>9. ASSUME NEW r \in Request, Acts(r) PROVE Typed
    <2>1. CASE Asks(r)
      BY <1>2, <1>3, <2>1
    <2>2. CASE Follows(r)
      BY <1>5, <2>2
    <2>3. CASE Continues(r)
      BY <1>2, <1>6, <1>7, <2>3
    <2> QED BY <1>9, <2>1, <2>2, <2>3 DEF Acts
  <1>10. Typed
    BY <1>1, <1>8, <1>9 DEF Next, Acts
  <1> QED BY <1>10 DEF Typed

LEMMA RequestsStay ==
    ASSUME TypeOK, Grows, People, \A v \in links : RowMinted(v), \A r \in Request : Backed(req[r]),
           [Next]_vars
    PROVE  req' \in [Request -> RequestState] /\ \A r \in Request : Backed(req[r])'
  <1>1. ASSUME NEW r \in Request, Leads(r)
        PROVE  req' \in [Request -> RequestState] /\ \A s \in Request : Backed(req[s])'
    <2>1. PICK q \in RequestState : Becomes(r, q) /\ Backed(q)'
      BY <1>1 DEF Leads
    <2>2. req' = [req EXCEPT ![r] = q]
      BY <2>1 DEF Becomes
    <2>3. req' \in [Request -> RequestState]
      BY <2>2 DEF TypeOK
    <2>4. ASSUME NEW s \in Request PROVE Backed(req[s])'
      <3>1. CASE s = r
        <4>1. req'[s] = q
          BY <2>2, <3>1 DEF TypeOK
        <4> QED BY <2>1, <4>1
      <3>2. CASE s # r
        <4>1. PICK p : p = req[s]
          OBVIOUS
        <4>2. req'[s] = p
          BY <2>2, <3>2, <4>1 DEF TypeOK
        <4>3. Backed(p)'
          BY <4>1, BackedStays
        <4> QED BY <4>2, <4>3
      <3> QED BY <3>1, <3>2
    <2> QED BY <2>3, <2>4
  <1>2. CASE req' = req
    <2>1. ASSUME NEW s \in Request PROVE Backed(req[s])'
      <3>1. PICK p : p = req[s]
        OBVIOUS
      <3>2. Backed(p)'
        BY <3>1, BackedStays
      <3> QED BY <1>2, <3>1, <3>2
    <2> QED BY <1>2, <2>1 DEF TypeOK
  <1>3. ASSUME NEW u \in User, NEW e \in Address, NEW p \in BOOLEAN, Provision(u, e, p)
        PROVE  req' = req
    BY <1>3 DEF Provision
  <1>4. ASSUME NEW r \in Request, Acts(r) PROVE Leads(r)
    BY <1>4, AsksLeads, FollowsLeads, ContinuesLeads DEF Acts
  <1>5. CASE UNCHANGED vars
    BY <1>2, <1>5 DEF vars
  <1> QED BY <1>1, <1>2, <1>3, <1>4, <1>5 DEF Next, Acts

LEMMA Inductive == IInv /\ [Next]_vars => IInv'
  <1> SUFFICES ASSUME IInv, [Next]_vars PROVE IInv'
    OBVIOUS
  <1> USE DEF IInv
  <1>1. Grows
    BY HistoriesGrow
  <1>2. Changed
    BY UsersChange
  <1>3. People
    BY <1>1, <1>2, PeopleStay
  <1>4. users' \in [User -> Person]
    BY <1>2, UsersTyped
  <1>5. req' \in [Request -> RequestState] /\ \A r \in Request : Backed(req[r])'
    BY <1>1, <1>3, RequestsStay
  <1>6. TableChanged
    BY TableChanges
  <1>7. /\ \A v \in links' : /\ v.identifier \in [purpose : Purpose, subject : User \cup Address]
                             /\ v.payload \in Payload
                             /\ v.secret \in Nat
        /\ minted' \in Nat /\ movedAt' \in [User -> Nat]
        /\ \A v \in links' : RowMinted(v)'
        /\ Bounded'
        /\ NoLinkOutlivesTheMove'
    BY <1>1, <1>6, RowsStay
  <1>8. /\ followed' \subseteq Mail
        /\ vouched' \subseteq [user : User, email : Address, proven : BOOLEAN]
        /\ unwarned' \subseteq User \X Address
    BY HistoriesTyped
  <1>9. MovesAreAgreed' /\ VerifiedMeansProven'
    BY <1>1, <1>2, PeopleAgreed
  <1>10. TypeOK'
    BY <1>4, <1>5, <1>7, <1>8 DEF TypeOK
  <1> QED BY <1>5, <1>7, <1>9, <1>10

LEMMA Invariant == Spec => []IInv
  BY Initially, Inductive, PTL DEF Spec

\* Type correctness.
THEOREM TypeCorrect == Spec => []TypeOK
  <1>1. IInv => TypeOK
    BY DEF IInv
  <1> QED BY <1>1, Invariant, PTL

\* Users.ts:8-19.  However the requests interleave, an account is at an address only
\* because whoever reads it agreed, and left a proven one only after its warning.
THEOREM MovesAgreed == Spec => []MovesAreAgreed
  <1>1. IInv => MovesAreAgreed
    BY DEF IInv
  <1> QED BY <1>1, Invariant, PTL

\* Users.ts:742.  What is marked verified was proven.
THEOREM VerifiedProven == Spec => []VerifiedMeansProven
  <1>1. IInv => VerifiedMeansProven
    BY DEF IInv
  <1> QED BY <1>1, Invariant, PTL

\* Users.ts:745-760.  A move by link, or a deletion, takes every earlier link with it.
THEOREM LinksEndWithTheMove == Spec => []NoLinkOutlivesTheMove
  <1>1. IInv => NoLinkOutlivesTheMove
    BY DEF IInv
  <1> QED BY <1>1, Invariant, PTL
=============================================================================
