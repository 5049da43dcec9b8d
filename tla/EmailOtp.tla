------------------------------ MODULE EmailOtp ------------------------------
(***************************************************************************)
(* The hybrid sign-in of email-otp/EmailOtp.ts: one issuance mints a code  *)
(* and, beside it, a link; answering the code retires the link, following  *)
(* the link retires the code.                                              *)
(*                                                                         *)
(* The module composes the challenges with the doors that are built on     *)
(* them: every step here is a step of Challenges, with what the door does  *)
(* before and after it.  Each door spends its own credential first and     *)
(* retires the other in a statement of its own, so the two doors can       *)
(* overlap.  Only the sign-in purpose has links; for the other purposes    *)
(* the system is Challenges itself.                                        *)
(***************************************************************************)
EXTENDS Challenges

VARIABLES
    door,       \* what a request still owes after its challenge step
    beside,     \* history: the links minted beside each code
    entries,    \* history: how often each credential signed somebody in
    shut        \* history: credentials that the other door retired while nobody
                \* had them in hand

hybridVars == <<vars, door, beside, entries, shut>>

Credential == Handle \cup Link

\* Secrets are random: no link is ever drawn with the secret of a code.
ASSUME SecretsApart == Handle \cap Link = {}

\* Nothing owed; the issuance holds its link; the code was right and the links
\* are to be retired; the link was claimed and the codes are to be retired.
DoorStep == {"none", "minted", "retireLinks", "retireCodes"}

DoorState == [at: DoorStep, subject: Subject, via: Credential]

Closed == [at |-> "none", subject |-> NoCall.subject, via |-> NoRow.secret]

Owing(step, s, credential) == [at |-> step, subject |-> s, via |-> credential]

Free(c) == call[c].at = "idle" /\ door[c].at = "none"

HybridInit ==
    /\ Init
    /\ door = [c \in Caller |-> Closed]
    /\ beside = [h \in Handle |-> {}]
    /\ entries = [x \in Credential |-> 0]
    /\ shut = {}

-----------------------------------------------------------------------------
(* issue *)

Challenge(c) ==
    /\ \/ \E s \in Subject : Free(c) /\ RetireLinks(c, s)
       \/ RetireCodes(c)
       \/ InsertCode(c)
    /\ UNCHANGED <<door, beside, entries, shut>>

\* After the challenge, which would otherwise sweep its own link away.
MintBeside(c) ==
    LET s == call[c].subject IN
    /\ call[c].at = "return"
    /\ door[c].at = "none"
    /\ MintLink(s)
    /\ beside' = [beside EXCEPT ![call[c].row.secret] = @ \cup (minted' \ minted)]
    /\ door' = [door EXCEPT ![c] = Owing("minted", s, call[c].row.secret)]
    /\ UNCHANGED <<entries, shut>>

\* Code and link go out in one message: neither is known before.
Send(c) ==
    /\ door[c].at = "minted"
    /\ ReturnCode(c)
    /\ door' = [door EXCEPT ![c] = Closed]
    /\ UNCHANGED <<beside, entries, shut>>

-----------------------------------------------------------------------------
(* verify, by the code *)

Guess(c) ==
    /\ \/ \E h \in Handle : Free(c) /\ Claim(c, h)
       \/ CompareWrong(c)
       \/ CompareFault(c)
       \/ Restore(c)
    /\ UNCHANGED <<door, beside, entries, shut>>

\* claimCode: the answered code goes on to retire the links, unless its payload
\* did not decode.
AnswerCode(c) ==
    /\ CompareRight(c)
    /\ door' = [door EXCEPT ![c] =
           IF answered' = answered THEN Closed
           ELSE Owing("retireLinks", call[c].subject, call[c].row.secret)]
    /\ UNCHANGED <<beside, entries, shut>>

\* The sign-in that follows may be refused (a policy, a store): the credential
\* is spent whichever way it goes.
Enter(credential) ==
    entries' \in {entries, [entries EXCEPT ![credential] = @ + 1]}

\* Somebody is guessing at it, or signing in with it, at this moment.
InHand(x) ==
    \/ \E c \in Verifying : call[c].row.secret = x
    \/ \E c \in Caller : door[c].at \in {"retireLinks", "retireCodes"} /\ door[c].via = x

\* Mutant: the door retires its own namespace again.
FinishCodeRetiresCodes(c) ==
    /\ door[c].at = "retireLinks"
    /\ Retire(CodeOf(door[c].subject))
    /\ shut' = shut \cup {k \in beside[door[c].via] : ~InHand(k)}
    /\ Enter(door[c].via)
    /\ door' = [door EXCEPT ![c] = Closed]
    /\ UNCHANGED beside

FinishCode(c) ==
    /\ door[c].at = "retireLinks"
    /\ Retire(LinkOf(door[c].subject))
    /\ shut' = shut \cup {k \in beside[door[c].via] : ~InHand(k)}
    /\ Enter(door[c].via)
    /\ door' = [door EXCEPT ![c] = Closed]
    /\ UNCHANGED beside

-----------------------------------------------------------------------------
(* follow, by the link *)

Sent(k) == \E h \in delivered : k \in beside[h]

\* Mutant: the link is read and not consumed.
FollowReads(c, k) ==
    /\ Free(c)
    /\ Sent(k)
    /\ \E s \in Subject :
        /\ Claimable(table, LinkOf(s), k, now) # {}
        /\ UNCHANGED vars
        /\ door' = [door EXCEPT ![c] = Owing("retireCodes", s, k)]
    /\ UNCHANGED <<beside, entries, shut>>

Follow(c, k) ==
    /\ Free(c)
    /\ Sent(k)
    /\ \E s \in Subject :
        /\ ClaimLink(s, k)
        /\ door' = [door EXCEPT ![c] = Owing("retireCodes", s, k)]
    /\ UNCHANGED <<beside, entries, shut>>

FinishLink(c) ==
    /\ door[c].at = "retireCodes"
    /\ Retire(CodeOf(door[c].subject))
    /\ shut' = shut \cup {h \in Handle : door[c].via \in beside[h] /\ ~InHand(h)}
    /\ Enter(door[c].via)
    /\ door' = [door EXCEPT ![c] = Closed]
    /\ UNCHANGED beside

-----------------------------------------------------------------------------

\* The process stops: whatever it owed is never done.
GiveUp(c) ==
    /\ ~Free(c)
    /\ \/ Abandon(c)
       \/ call[c].at = "idle" /\ UNCHANGED vars
    /\ door' = [door EXCEPT ![c] = Closed]
    /\ UNCHANGED <<beside, entries, shut>>

Housekeeping ==
    /\ Tick \/ DeleteExpired
    /\ UNCHANGED <<door, beside, entries, shut>>

HybridNext ==
    \/ \E c \in Caller : Challenge(c) \/ MintBeside(c) \/ Send(c)
    \/ \E c \in Caller : Guess(c) \/ AnswerCode(c) \/ FinishCode(c)
    \/ \E c \in Caller, k \in Link : Follow(c, k)
    \/ \E c \in Caller : FinishLink(c) \/ GiveUp(c)
    \/ Housekeeping

HybridSpec == HybridInit /\ [][HybridNext]_hybridVars

-----------------------------------------------------------------------------
(* Properties *)

\* The doors' own variables have their types, and the links are retired on
\* account of a code.
HybridTypeOK ==
    /\ TypeOK
    /\ door \in [Caller -> DoorState]
    /\ \A c \in Caller : door[c].at = "retireLinks" => door[c].via \in Handle
    /\ beside \in [Handle -> SUBSET Link]
    /\ entries \in [Credential -> Nat]
    /\ shut \subseteq Credential

\* Each door opens at most once per credential: a code signs in once and a link
\* signs in once, whoever races whom with it.
EachDoorOnce == \A x \in Credential : entries[x] <= 1

\* A credential the other door retired signs nobody in afterwards: not the link
\* beside an answered code, nor the code beside a followed link, unless somebody
\* had it in hand at that very moment.
ShutStaysShut == [][\A x \in shut : entries'[x] = entries[x]]_hybridVars

\* The doors do to the challenges only what the challenges allow: whatever holds
\* of Challenges holds behind them.
DoorsUseChallenges == Spec
=============================================================================
