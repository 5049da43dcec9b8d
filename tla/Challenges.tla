----------------------------- MODULE Challenges -----------------------------
(***************************************************************************)
(* One-time codes with a guess budget (domain/Challenges.ts).              *)
(*                                                                         *)
(* A code lives in a row of the verifications table, under a namespace of  *)
(* its own beside the links of the same purpose.  Issuing is three         *)
(* statements.  Verifying claims the row first and compares afterwards: a  *)
(* wrong guess, or a fault, writes the row back.  Between the claim and    *)
(* the write the row is nowhere but in the memory of one process.          *)
(*                                                                         *)
(* The code itself is not modelled: it is fresh with each handle, and a    *)
(* guess is right or wrong.                                                *)
(***************************************************************************)
EXTENDS Verifications

CONSTANTS
    Subject,
    Handle,     \* the secrets a code row can be issued under
    Link,       \* the secrets a link row can be issued under
    Caller,     \* concurrent requests
    Attempts,   \* the guess budget, options.attempts
    Ttl,        \* the lifetime, options.ttl
    MaxTime     \* bound: the clock stops here

ASSUME BudgetIsPositive == Attempts \in Nat \ {0}
ASSUME TimesAreNumbers == Ttl \in Nat \ {0} /\ MaxTime \in Nat
ASSUME SomeSubject == Subject # {} /\ Handle # {}

VARIABLES
    now,        \* the clock
    table,      \* the verifications table
    issued,     \* every code handle ever issued
    delivered,  \* the handles their issuer has answered with
    minted,     \* every link secret ever minted
    call,       \* the requests in flight
    wrongs,     \* history: wrong comparisons per handle
    answered    \* history: handles answered with the right code

vars == <<now, table, issued, delivered, minted, call, wrongs, answered>>

\* codeNamespace: a code row is never claimable as a link, nor a link as a code.
CodeOf(s) == IdentifierOf("code", s)
LinkOf(s) == IdentifierOf("link", s)

CodeRow == [identifier: {CodeOf(s) : s \in Subject}, secret: Handle,
            payload: 1..Attempts, expiresAt: Int]
LinkRow == [identifier: {LinkOf(s) : s \in Subject}, secret: Link,
            payload: {0}, expiresAt: Int]

\* retire, insert and return are what is left of issueCode; compare and restore
\* what is left of verifyCode once the row is claimed.
Step == {"idle", "retire", "insert", "return", "compare", "restore"}

CallState == [at: Step, subject: Subject, row: CodeRow, ttl: Int]

NoRow == Row(CodeOf(CHOOSE s \in Subject : TRUE), CHOOSE h \in Handle : TRUE, Attempts, 0)

NoCall == [at |-> "idle", subject |-> CHOOSE s \in Subject : TRUE, row |-> NoRow, ttl |-> 0]

Codes == {v \in table : v.identifier.purpose = "code"}

Init ==
    /\ now = 0
    /\ table = {}
    /\ issued = {}
    /\ delivered = {}
    /\ minted = {}
    /\ call = [c \in Caller |-> NoCall]
    /\ wrongs = [h \in Handle |-> 0]
    /\ answered = {}

Tick ==
    /\ now < MaxTime
    /\ now' = now + 1
    /\ UNCHANGED <<table, issued, delivered, minted, call, wrongs, answered>>

-----------------------------------------------------------------------------
(* issueCode *)

RetireLinks(c, s) ==
    /\ call[c].at = "idle"
    /\ Handle # issued
    /\ table' = Retired(table, LinkOf(s))
    /\ call' = [call EXCEPT ![c] = [NoCall EXCEPT !.at = "retire", !.subject = s]]
    /\ UNCHANGED <<now, issued, delivered, minted, wrongs, answered>>

RetireCodes(c) ==
    /\ call[c].at = "retire"
    /\ table' = Retired(table, CodeOf(call[c].subject))
    /\ call' = [call EXCEPT ![c] = [@ EXCEPT !.at = "insert"]]
    /\ UNCHANGED <<now, issued, delivered, minted, wrongs, answered>>

InsertCode(c) ==
    /\ call[c].at = "insert"
    /\ \E h \in Handle \ issued :
        LET row == Row(CodeOf(call[c].subject), h, Attempts, now + Ttl) IN
        /\ table' = Issued(table, CodeOf(call[c].subject), h, Attempts, Ttl, now)
        /\ issued' = issued \cup {h}
        /\ call' = [call EXCEPT ![c] = [@ EXCEPT !.at = "return", !.row = row]]
    /\ UNCHANGED <<now, delivered, minted, wrongs, answered>>

\* Until issueCode answers, nobody holds the handle or knows the code.
ReturnCode(c) ==
    /\ call[c].at = "return"
    /\ delivered' = delivered \cup {call[c].row.secret}
    /\ call' = [call EXCEPT ![c] = NoCall]
    /\ UNCHANGED <<now, table, issued, minted, wrongs, answered>>

-----------------------------------------------------------------------------
(* verifyCode *)

\* Consume first: the row is gone before anything is compared.  An unknown,
\* expired or answered handle is InvalidCode and changes nothing.
Claim(c, h) ==
    /\ call[c].at = "idle"
    /\ h \in delivered
    /\ \E s \in Subject : \E row \in Claimable(table, CodeOf(s), h, now) :
        /\ table' = table \ Claimable(table, CodeOf(s), h, now)
        /\ call' = [call EXCEPT ![c] = [NoCall EXCEPT !.at = "compare", !.subject = s,
                                                      !.row = row]]
    /\ UNCHANGED <<now, issued, delivered, minted, wrongs, answered>>

\* The payload may not decode, in which case the code is spent all the same.
CompareRight(c) ==
    /\ call[c].at = "compare"
    /\ answered' \in {answered, answered \cup {call[c].row.secret}}
    /\ call' = [call EXCEPT ![c] = NoCall]
    /\ UNCHANGED <<now, table, issued, delivered, minted, wrongs>>

\* Mutant: the row is written back as it was claimed.
RestoringAsClaimed(c, attemptsLeft) ==
    [call[c] EXCEPT !.at = "restore", !.ttl = call[c].row.expiresAt - now]

\* What is left of the lifetime is read off the clock now, and counted again
\* from the clock as it stands when the row is written.
Restoring(c, attemptsLeft) ==
    [call[c] EXCEPT !.at = "restore", !.ttl = call[c].row.expiresAt - now,
                    !.row = [call[c].row EXCEPT !.payload = attemptsLeft]]

CompareWrong(c) ==
    LET row == call[c].row IN
    /\ call[c].at = "compare"
    /\ wrongs' = [wrongs EXCEPT ![row.secret] = @ + 1]
    /\ call' = [call EXCEPT ![c] =
           IF row.payload > 1 THEN Restoring(c, row.payload - 1) ELSE NoCall]
    /\ UNCHANGED <<now, table, issued, delivered, minted, answered>>

\* A comparison that failed was not a guess: nothing is taken from the budget.
CompareFault(c) ==
    /\ call[c].at = "compare"
    /\ call' = [call EXCEPT ![c] = Restoring(c, call[c].row.payload)]
    /\ UNCHANGED <<now, table, issued, delivered, minted, wrongs, answered>>

Restore(c) ==
    LET row == call[c].row IN
    /\ call[c].at = "restore"
    /\ table' = Issued(table, row.identifier, row.secret, row.payload, call[c].ttl, now)
    /\ call' = [call EXCEPT ![c] = NoCall]
    /\ UNCHANGED <<now, issued, delivered, minted, wrongs, answered>>

-----------------------------------------------------------------------------
(* Everything else that reaches the rows *)

\* retire: of the outstanding codes, or of the outstanding links, by the door of
\* a hybrid issuance that was not used.
Retire(identifier) ==
    /\ table' = Retired(table, identifier)
    /\ UNCHANGED <<now, issued, delivered, minted, call, wrongs, answered>>

\* A process stops, or the store refuses its next statement.
Abandon(c) ==
    /\ call[c].at # "idle"
    /\ call' = [call EXCEPT ![c] = NoCall]
    /\ UNCHANGED <<now, table, issued, delivered, minted, wrongs, answered>>

DeleteExpired ==
    /\ table' = Swept(table, now)
    /\ UNCHANGED <<now, issued, delivered, minted, call, wrongs, answered>>

\* A plugin mints a link for the subject, or claims one.
MintLink(s) ==
    /\ \E k \in Link \ minted :
        /\ minted' = minted \cup {k}
        /\ table' = Issued(table, LinkOf(s), k, 0, Ttl, now)
    /\ UNCHANGED <<now, issued, delivered, call, wrongs, answered>>

ClaimLink(s, k) ==
    /\ Claimable(table, LinkOf(s), k, now) # {}
    /\ table' = table \ Claimable(table, LinkOf(s), k, now)
    /\ UNCHANGED <<now, issued, delivered, minted, call, wrongs, answered>>

-----------------------------------------------------------------------------

IssueCode(c) ==
    \/ \E s \in Subject : RetireLinks(c, s)
    \/ RetireCodes(c)
    \/ InsertCode(c)

VerifyCode(c) ==
    \/ \E h \in Handle : Claim(c, h)
    \/ CompareRight(c)
    \/ CompareWrong(c)
    \/ CompareFault(c)
    \/ Restore(c)

Next ==
    \/ Tick
    \/ \E c \in Caller : IssueCode(c) \/ ReturnCode(c) \/ VerifyCode(c) \/ Abandon(c)
    \/ \E s \in Subject : Retire(CodeOf(s)) \/ Retire(LinkOf(s)) \/ MintLink(s)
    \/ \E s \in Subject, k \in Link : ClaimLink(s, k)
    \/ DeleteExpired

Spec == Init /\ [][Next]_vars

-----------------------------------------------------------------------------
(* Properties *)

Verifying == {c \in Caller : call[c].at \in {"compare", "restore"}}

\* Every variable has its type.
TypeOK ==
    /\ now \in Nat
    /\ table \subseteq CodeRow \cup LinkRow
    /\ issued \subseteq Handle
    /\ delivered \subseteq Handle
    /\ minted \subseteq Link
    /\ call \in [Caller -> CallState]
    /\ wrongs \in [Handle -> Nat]
    /\ answered \subseteq Handle

\* A handle's row is in one place: one row of the table or one request that
\* claimed it, never both, never two.  This is what a guess budget rests on.
OneCarrier ==
    /\ \A v, w \in Codes : v.secret = w.secret => v = w
    /\ \A v \in Codes, c \in Verifying : v.secret # call[c].row.secret
    /\ \A c, d \in Verifying : call[c].row.secret = call[d].row.secret => c = d

\* Wherever the row is, what it has left and the wrong guesses made so far add
\* up to the budget the code was issued with: no race gives a guess back, and a
\* fault takes none.  (A request between its wrong guess and the write-back
\* carries the lower budget already.)
BudgetConserved ==
    /\ \A v \in Codes : v.payload + wrongs[v.secret] = Attempts
    /\ \A c \in Verifying : call[c].row.payload + wrongs[call[c].row.secret] = Attempts
    /\ \A h \in Handle : wrongs[h] <= Attempts

\* The abstract budget: the guesses left to a handle are those of its carrier.
Carriers(h) ==
    {v \in Codes : v.secret = h}
        \cup {call[c].row : c \in {d \in Verifying : call[d].row.secret = h}}

Left == [h \in Handle |->
    IF Carriers(h) = {} THEN 0 ELSE (CHOOSE v \in Carriers(h) : TRUE).payload]

Budget == INSTANCE CodeBudget WITH left <- Left

\* The code's claim, compare and write-back implement the abstract budget.
ImplementsBudget == Budget!Spec
=============================================================================
