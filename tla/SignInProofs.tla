---------------------------- MODULE SignInProofs ----------------------------
(***************************************************************************)
(* What TLAPS proves of the ways in that answer a challenge: Challenges    *)
(* and EmailOtp, and Passkeys. Of Challenges, for any number of subjects,  *)
(* handles and concurrent requests and any budget: the row of a handle is  *)
(* in one place, its budget is conserved, and the component implements the *)
(* abstract budget. Of EmailOtp: behind its two doors the challenges       *)
(* behave as Challenges says, so that all of it holds there; each door     *)
(* opens once per credential; and what the other door retired stays shut.  *)
(* Of Passkeys, for any number of people, credentials, ceremonies and      *)
(* requests: a ceremony comes once to what it was minted for, a credential *)
(* keeps the handle it was given, and the counter of a passkey is not      *)
(* lowered by what one ceremony reports.                                   *)
(***************************************************************************)
EXTENDS EmailOtp, Passkeys, TLAPS

-----------------------------------------------------------------------------
(* Rows and their types *)

LEMMA SentinelsAreTyped == NoCall \in CallState /\ NoRow \in CodeRow
<1> DEFINE s0 == CHOOSE s \in Subject : TRUE
           h0 == CHOOSE h \in Handle : TRUE
<1>1. s0 \in Subject /\ h0 \in Handle
  BY SomeSubject
<1>2. NoRow = Row(CodeOf(s0), h0, Attempts, 0)
  BY DEF NoRow
<1>3. NoCall = [at |-> "idle", subject |-> s0, row |-> NoRow, ttl |-> 0]
  BY DEF NoCall
<1> HIDE DEF s0, h0
<1>4. NoRow \in CodeRow
  BY <1>1, <1>2, BudgetIsPositive DEF CodeRow, Row
<1> QED BY <1>1, <1>3, <1>4 DEF CallState, Step

\* The code rows of the table are exactly its rows of type CodeRow.
LEMMA CodesAreTyped ==
    ASSUME TypeOK
    PROVE  /\ Codes \subseteq CodeRow
           /\ \A v \in table : v \notin Codes => v \in LinkRow
<1>1. \A s : LinkOf(s).purpose = "link" /\ CodeOf(s).purpose = "code"
  BY DEF LinkOf, CodeOf, IdentifierOf
<1>2. \A v \in LinkRow : v.identifier.purpose = "link"
  BY <1>1 DEF LinkRow
<1>3. \A v \in CodeRow : v.identifier.purpose = "code"
  BY <1>1 DEF CodeRow
<1> QED BY <1>2, <1>3 DEF TypeOK, Codes

\* A row that is issued for a subject is a code row or a link row.
LEMMA IssuedRowIsTyped ==
    /\ \A s \in Subject, h \in Handle, p \in 1..Attempts, e \in Int :
         Row(CodeOf(s), h, p, e) \in CodeRow
    /\ \A s \in Subject, k \in Link, e \in Int : Row(LinkOf(s), k, 0, e) \in LinkRow
BY DEF Row, CodeRow, LinkRow

\* A request about to write its row back is well typed.
LEMMA RestoringIsTyped ==
    ASSUME TypeOK, NEW c \in Caller, NEW k \in 1..Attempts
    PROVE  /\ Restoring(c, k) \in CallState
           /\ Restoring(c, k).at = "restore"
           /\ Restoring(c, k).row.payload = k
           /\ Restoring(c, k).row.secret = call[c].row.secret
<1>1. call[c] \in CallState /\ call[c].row \in CodeRow /\ now \in Int
  BY DEF TypeOK, CallState
<1> DEFINE row == [call[c].row EXCEPT !.payload = k]
           ttl == call[c].row.expiresAt - now
<1>2. row \in CodeRow /\ row.payload = k /\ row.secret = call[c].row.secret
  BY <1>1 DEF CodeRow
<1>3. ttl \in Int
  BY <1>1 DEF CodeRow
<1>4. Restoring(c, k) = [call[c] EXCEPT !.at = "restore", !.ttl = ttl, !.row = row]
  BY DEF Restoring
<1> HIDE DEF row, ttl
<1> QED BY <1>1, <1>2, <1>3, <1>4 DEF CallState, Step

LEMMA NextTyped == TypeOK /\ [Next]_vars => TypeOK'
<1> SUFFICES ASSUME TypeOK, [Next]_vars PROVE TypeOK'
  OBVIOUS
<1> USE DEF TypeOK
<1>0. Attempts \in Nat /\ Attempts \in 1..Attempts /\ Ttl \in Nat
  BY BudgetIsPositive, TimesAreNumbers
<1>1. CASE Tick
  BY <1>1 DEF Tick
<1>2. ASSUME NEW c \in Caller, NEW s \in Subject, RetireLinks(c, s) PROVE TypeOK'
  BY <1>2, SentinelsAreTyped DEF RetireLinks, Retired, CallState, Step
<1>3. ASSUME NEW c \in Caller, RetireCodes(c) PROVE TypeOK'
  BY <1>3 DEF RetireCodes, Retired, CallState, Step
<1>4. ASSUME NEW c \in Caller, InsertCode(c) PROVE TypeOK'
  <2>1. PICK h \in Handle \ issued :
          /\ table' = Issued(table, CodeOf(call[c].subject), h, Attempts, Ttl, now)
          /\ issued' = issued \cup {h}
          /\ call' = [call EXCEPT ![c] = [@ EXCEPT !.at = "return",
                          !.row = Row(CodeOf(call[c].subject), h, Attempts, now + Ttl)]]
    BY <1>4 DEF InsertCode
  <2>2. call[c] \in CallState /\ call[c].subject \in Subject
    BY DEF CallState
  <2> DEFINE row == Row(CodeOf(call[c].subject), h, Attempts, now + Ttl)
  <2>3. row \in CodeRow
    BY <2>2, <1>0, IssuedRowIsTyped
  <2> HIDE DEF row
  <2>4. [call[c] EXCEPT !.at = "return", !.row = row] \in CallState
    BY <2>2, <2>3 DEF CallState, Step
  <2>5. table' \subseteq CodeRow \cup LinkRow
    BY <2>1, <2>3 DEF Issued, row
  <2>6. call' \in [Caller -> CallState]
    BY <2>1, <2>4 DEF row
  <2> QED BY <1>0, <1>4, <2>1, <2>5, <2>6 DEF InsertCode
<1>5. ASSUME NEW c \in Caller, ReturnCode(c) PROVE TypeOK'
  BY <1>5, SentinelsAreTyped DEF ReturnCode, CallState, CodeRow
<1>6. ASSUME NEW c \in Caller, NEW h \in Handle, Claim(c, h) PROVE TypeOK'
  <2>0. PICK s \in Subject : \E row \in Claimable(table, CodeOf(s), h, now) :
          /\ table' = table \ Claimable(table, CodeOf(s), h, now)
          /\ call' = [call EXCEPT ![c] = [NoCall EXCEPT !.at = "compare", !.subject = s,
                                                       !.row = row]]
    BY <1>6 DEF Claim
  <2>1. PICK row \in Claimable(table, CodeOf(s), h, now) :
          /\ table' = table \ Claimable(table, CodeOf(s), h, now)
          /\ call' = [call EXCEPT ![c] = [NoCall EXCEPT !.at = "compare", !.subject = s,
                                                       !.row = row]]
    BY <2>0
  <2>2. row \in CodeRow
    BY CodesAreTyped DEF Claimable, Codes, CodeOf, IdentifierOf
  <2>3. [NoCall EXCEPT !.at = "compare", !.subject = s, !.row = row] \in CallState
    BY <2>2, SentinelsAreTyped DEF CallState, Step
  <2> QED BY <1>6, <2>1, <2>3 DEF Claim
<1>7. ASSUME NEW c \in Caller, CompareRight(c) PROVE TypeOK'
  BY <1>7, SentinelsAreTyped DEF CompareRight, CallState, CodeRow
<1>8. ASSUME NEW c \in Caller, CompareWrong(c) PROVE TypeOK'
  <2>1. call[c].row.payload \in 1..Attempts /\ call[c].row.secret \in Handle
    BY DEF CallState, CodeRow
  <2>2. call[c].row.payload > 1 => call[c].row.payload - 1 \in 1..Attempts
    BY <2>1, <1>0
  <2>3. (IF call[c].row.payload > 1 THEN Restoring(c, call[c].row.payload - 1) ELSE NoCall)
          \in CallState
    BY <2>2, RestoringIsTyped, SentinelsAreTyped
  <2> QED BY <1>8, <2>1, <2>3 DEF CompareWrong
<1>9. ASSUME NEW c \in Caller, CompareFault(c) PROVE TypeOK'
  <2>1. call[c].row.payload \in 1..Attempts
    BY DEF CallState, CodeRow
  <2>2. Restoring(c, call[c].row.payload) \in CallState
    BY <2>1, RestoringIsTyped
  <2> QED BY <1>9, <2>2 DEF CompareFault
<1>10. ASSUME NEW c \in Caller, Restore(c) PROVE TypeOK'
  <2> DEFINE row == call[c].row
  <2>1. row \in CodeRow /\ now + call[c].ttl \in Int
    BY DEF CallState
  <2>2. Row(row.identifier, row.secret, row.payload, now + call[c].ttl) \in CodeRow
    BY <2>1 DEF Row, CodeRow
  <2>3. table' \subseteq CodeRow \cup LinkRow
    BY <1>10, <2>2 DEF Restore, Issued
  <2> QED BY <1>10, <2>3, SentinelsAreTyped DEF Restore
<1>11. ASSUME NEW i, Retire(i) PROVE TypeOK'
  BY <1>11 DEF Retire, Retired
<1>12. ASSUME NEW c \in Caller, Abandon(c) PROVE TypeOK'
  BY <1>12, SentinelsAreTyped DEF Abandon
<1>13. CASE DeleteExpired
  BY <1>13 DEF DeleteExpired, Swept
<1>14. ASSUME NEW s \in Subject, MintLink(s) PROVE TypeOK'
  BY <1>14, <1>0, IssuedRowIsTyped DEF MintLink, Issued
<1>15. ASSUME NEW s \in Subject, NEW k \in Link, ClaimLink(s, k) PROVE TypeOK'
  BY <1>15 DEF ClaimLink
<1>16. CASE UNCHANGED vars
  BY <1>16 DEF vars
<1> QED
  BY <1>1, <1>2, <1>3, <1>4, <1>5, <1>6, <1>7, <1>8, <1>9, <1>10, <1>11, <1>12,
     <1>13, <1>14, <1>15, <1>16 DEF Next, IssueCode, VerifyCode

\* Every reachable state is well typed.
THEOREM TypeCorrect == Spec => []TypeOK
<1>1. Init => TypeOK
  BY SentinelsAreTyped DEF Init, TypeOK
<1>2. TypeOK /\ [Next]_vars => TypeOK'
  BY NextTyped
<1> QED BY <1>1, <1>2, PTL DEF Spec

-----------------------------------------------------------------------------
(* One carrier, one budget *)

\* The secrets of rows in being were issued; a secret not yet issued has met no
\* guess.  This is what the two invariants lean on when a code is inserted.
Known ==
    /\ \A v \in Codes : v.secret \in issued
    /\ \A c \in Verifying : call[c].row.secret \in issued
    /\ \A h \in Handle \ issued : wrongs[h] = 0

Carried == OneCarrier /\ BudgetConserved /\ Known

Inv == TypeOK /\ Carried

\* A step that only lets go of rows, and touches neither the history of wrong
\* guesses nor what was issued.
LetsGo ==
    /\ Codes' \subseteq Codes
    /\ \A c \in Verifying' : c \in Verifying /\ call'[c].row = call[c].row
    /\ wrongs' = wrongs
    /\ issued' = issued

LEMMA LettingGoIsSafe == Carried /\ LetsGo => Carried'
<1> SUFFICES ASSUME Carried, LetsGo PROVE Carried'
  OBVIOUS
<1>1. OneCarrier'
  BY DEF Carried, OneCarrier, LetsGo
<1>2. BudgetConserved'
  BY DEF Carried, BudgetConserved, LetsGo
<1>3. Known'
  BY DEF Carried, Known, LetsGo
<1> QED BY <1>1, <1>2, <1>3 DEF Carried

\* A request that falls idle verifies nothing.
LEMMA IdleVerifiesNothing ==
    ASSUME TypeOK, NEW c \in Caller, NEW r, r.at \notin {"compare", "restore"},
           call' = [call EXCEPT ![c] = r]
    PROVE  \A d \in Verifying' : /\ d # c
                                /\ d \in Verifying
                                /\ call'[d] = call[d]
BY DEF TypeOK, Verifying

\* The actions that only let go of rows.
LEMMA LettingGo ==
    ASSUME TypeOK,
           \/ Tick
           \/ \E c \in Caller, s \in Subject : RetireLinks(c, s)
           \/ \E c \in Caller : \/ RetireCodes(c) \/ ReturnCode(c)
                               \/ CompareRight(c) \/ Abandon(c)
           \/ \E s \in Subject : Retire(CodeOf(s)) \/ Retire(LinkOf(s)) \/ MintLink(s)
           \/ \E s \in Subject, k \in Link : ClaimLink(s, k)
           \/ DeleteExpired
           \/ UNCHANGED vars
    PROVE  LetsGo
<1> USE DEF LetsGo
<1>1. CASE Tick
  BY <1>1 DEF Tick, Codes, Verifying
<1>2. ASSUME NEW c \in Caller, NEW s \in Subject, RetireLinks(c, s) PROVE LetsGo
  <2> DEFINE r == [NoCall EXCEPT !.at = "retire", !.subject = s]
  <2>1. r.at = "retire"
    BY SentinelsAreTyped DEF CallState
  <2> HIDE DEF r
  <2>2. call' = [call EXCEPT ![c] = r]
    BY <1>2 DEF RetireLinks, r
  <2> QED BY <1>2, <2>1, <2>2, IdleVerifiesNothing DEF RetireLinks, Retired, Codes
<1>3. ASSUME NEW c \in Caller, RetireCodes(c) PROVE LetsGo
  <2> DEFINE r == [call[c] EXCEPT !.at = "insert"]
  <2>1. r.at = "insert"
    BY DEF TypeOK, CallState
  <2> HIDE DEF r
  <2>2. call' = [call EXCEPT ![c] = r]
    BY <1>3 DEF RetireCodes, r
  <2> QED BY <1>3, <2>1, <2>2, IdleVerifiesNothing DEF RetireCodes, Retired, Codes
<1>4. ASSUME NEW c \in Caller, ReturnCode(c) \/ CompareRight(c) \/ Abandon(c) PROVE LetsGo
  <2>1. NoCall.at = "idle" /\ call' = [call EXCEPT ![c] = NoCall]
    BY <1>4 DEF NoCall, ReturnCode, CompareRight, Abandon
  <2> QED
    BY <1>4, <2>1, IdleVerifiesNothing DEF ReturnCode, CompareRight, Abandon, Codes
<1>5. ASSUME NEW i, Retire(i) PROVE LetsGo
  BY <1>5 DEF Retire, Retired, Codes, Verifying
<1>6. ASSUME NEW s \in Subject, MintLink(s) PROVE LetsGo
  BY <1>6 DEF MintLink, Issued, Row, LinkOf, IdentifierOf, Codes, Verifying
<1>7. ASSUME NEW s \in Subject, NEW k \in Link, ClaimLink(s, k) PROVE LetsGo
  BY <1>7 DEF ClaimLink, Codes, Verifying
<1>8. CASE DeleteExpired
  BY <1>8 DEF DeleteExpired, Swept, Codes, Verifying
<1>9. CASE UNCHANGED vars
  BY <1>9 DEF vars, Codes, Verifying
<1> QED BY <1>1, <1>2, <1>3, <1>4, <1>5, <1>6, <1>7, <1>8, <1>9

\* The code rows when a code row is written: the table's and that one.
LEMMA WritingACode ==
    ASSUME NEW s, NEW h, NEW p, NEW ttl, NEW t,
           table' = Issued(table, CodeOf(s), h, p, ttl, t)
    PROVE  /\ Codes' = Codes \cup {Row(CodeOf(s), h, p, t + ttl)}
           /\ Row(CodeOf(s), h, p, t + ttl).secret = h
           /\ Row(CodeOf(s), h, p, t + ttl).payload = p
BY DEF Issued, Codes, Row, CodeOf, IdentifierOf

LEMMA InsertKeeps ==
    ASSUME Inv, NEW c \in Caller, InsertCode(c)
    PROVE  Carried'
<1> DEFINE s == call[c].subject
<1>1. PICK h \in Handle \ issued :
        /\ table' = Issued(table, CodeOf(s), h, Attempts, Ttl, now)
        /\ issued' = issued \cup {h}
        /\ call' = [call EXCEPT ![c] = [@ EXCEPT !.at = "return",
                        !.row = Row(CodeOf(s), h, Attempts, now + Ttl)]]
  BY DEF InsertCode
<1> DEFINE row == Row(CodeOf(s), h, Attempts, now + Ttl)
           r == [call[c] EXCEPT !.at = "return", !.row = row]
<1>2. r.at = "return"
  BY DEF Inv, TypeOK, CallState
<1>3. Codes' = Codes \cup {row} /\ row.secret = h /\ row.payload = Attempts
  BY <1>1, WritingACode
<1> HIDE DEF s, row, r
<1>4. call' = [call EXCEPT ![c] = r]
  BY <1>1 DEF s, row, r
<1>5. \A d \in Verifying' : d \in Verifying /\ call'[d] = call[d]
  BY <1>2, <1>4, IdleVerifiesNothing DEF Inv
<1>6. /\ wrongs' = wrongs /\ wrongs[h] = 0 /\ Attempts + 0 = Attempts
      /\ issued' = issued \cup {h} /\ h \in Handle /\ h \notin issued
  BY <1>1, BudgetIsPositive DEF InsertCode, Inv, Carried, Known
<1>7. OneCarrier'
  BY <1>3, <1>5, <1>6 DEF Inv, Carried, OneCarrier, Known
<1>8. BudgetConserved'
  BY <1>3, <1>5, <1>6 DEF Inv, Carried, BudgetConserved
<1>9. Known'
  BY <1>3, <1>5, <1>6 DEF Inv, Carried, Known
<1> QED BY <1>7, <1>8, <1>9 DEF Carried

\* Claiming moves the one row of a secret out of the table into the request.
LEMMA ClaimKeeps ==
    ASSUME Inv, NEW c \in Caller, NEW h \in Handle, Claim(c, h)
    PROVE  /\ Carried'
           /\ \E row \in Codes : /\ row.secret = h
                                /\ Codes' = Codes \ {row}
                                /\ Verifying' = Verifying \cup {c}
                                /\ call'[c].row = row
                                /\ \A d \in Verifying : d # c /\ call'[d] = call[d]
<1>1. PICK s \in Subject : \E row \in Claimable(table, CodeOf(s), h, now) :
        /\ table' = table \ Claimable(table, CodeOf(s), h, now)
        /\ call' = [call EXCEPT ![c] = [NoCall EXCEPT !.at = "compare", !.subject = s,
                                                      !.row = row]]
  BY DEF Claim
<1>2. PICK row \in Claimable(table, CodeOf(s), h, now) :
        /\ table' = table \ Claimable(table, CodeOf(s), h, now)
        /\ call' = [call EXCEPT ![c] = [NoCall EXCEPT !.at = "compare", !.subject = s,
                                                      !.row = row]]
  BY <1>1
<1> DEFINE r == [NoCall EXCEPT !.at = "compare", !.subject = s, !.row = row]
<1>3. r.at = "compare" /\ r.row = row
  BY SentinelsAreTyped DEF CallState
<1> HIDE DEF r
<1>4. call' = [call EXCEPT ![c] = r]
  BY <1>2 DEF r
<1>5. Claimable(table, CodeOf(s), h, now) \subseteq Codes
  BY DEF Claimable, Codes, CodeOf, IdentifierOf
<1>6. \A v \in Claimable(table, CodeOf(s), h, now) : v.secret = h
  BY DEF Claimable
<1>7. Claimable(table, CodeOf(s), h, now) = {row}
  BY <1>5, <1>6 DEF Inv, Carried, OneCarrier
<1>8. Codes' = Codes \ {row} /\ row \in Codes /\ row.secret = h
  BY <1>2, <1>5, <1>6, <1>7 DEF Codes
<1>9. call[c].at = "idle"
  BY DEF Claim
<1>10. /\ Verifying' = Verifying \cup {c}
       /\ call'[c].row = row
       /\ \A d \in Verifying : d # c /\ call'[d] = call[d]
  BY <1>3, <1>4, <1>9 DEF Verifying, Inv, TypeOK
<1>11. wrongs' = wrongs /\ issued' = issued
  BY DEF Claim
<1>12. OneCarrier'
  BY <1>8, <1>10 DEF Inv, Carried, OneCarrier
<1>13. BudgetConserved'
  BY <1>8, <1>10, <1>11 DEF Inv, Carried, BudgetConserved
<1>14. Known'
  BY <1>8, <1>10, <1>11 DEF Inv, Carried, Known
<1> QED BY <1>8, <1>10, <1>12, <1>13, <1>14 DEF Carried

\* A comparison ends with the row dropped or about to be written back.
LEMMA CompareWrongKeeps ==
    ASSUME Inv, NEW c \in Caller, CompareWrong(c)
    PROVE  Carried'
<1> DEFINE row == call[c].row
           r == IF row.payload > 1 THEN Restoring(c, row.payload - 1) ELSE NoCall
<1>1. /\ row.payload \in 1..Attempts /\ row.secret \in Handle /\ Attempts \in Nat
      /\ wrongs \in [Handle -> Nat]
  BY BudgetIsPositive DEF Inv, TypeOK, CallState, CodeRow
<1>2. /\ c \in Verifying
      /\ call' = [call EXCEPT ![c] = r]
      /\ wrongs' = [wrongs EXCEPT ![row.secret] = @ + 1]
      /\ table' = table /\ issued' = issued
  BY DEF CompareWrong, Verifying
<1>3. NoCall.at = "idle"
  BY DEF NoCall
<1>4. row.payload > 1 => /\ r.at = "restore"
                         /\ r.row.payload = row.payload - 1
                         /\ r.row.secret = row.secret
  BY <1>1, RestoringIsTyped DEF Inv
<1>5. ~(row.payload > 1) => r.at = "idle"
  BY <1>3
<1> HIDE DEF row, r
<1>6. Codes' = Codes
  BY <1>2 DEF Codes
<1>7. \A d \in Verifying' \ {c} : d \in Verifying /\ call'[d] = call[d]
  BY <1>2 DEF Verifying, Inv, TypeOK
<1>8. c \in Verifying' => /\ call'[c].row.payload = row.payload - 1
                          /\ call'[c].row.secret = row.secret
  BY <1>2, <1>4, <1>5 DEF Verifying, Inv, TypeOK
<1>9. /\ \A v \in Codes : v.secret # row.secret
      /\ \A d \in Verifying \ {c} : call[d].row.secret # row.secret
      /\ row.payload + wrongs[row.secret] = Attempts
      /\ row.secret \in issued
  BY <1>2 DEF Inv, Carried, OneCarrier, BudgetConserved, Known, row
<1>10. /\ wrongs'[row.secret] = wrongs[row.secret] + 1
       /\ \A h \in Handle : h # row.secret => wrongs'[h] = wrongs[h]
  BY <1>1, <1>2
<1>11. OneCarrier'
  BY <1>6, <1>7, <1>8, <1>9 DEF Inv, Carried, OneCarrier
<1>12. BudgetConserved'
  <2>1. \A v \in Codes' : v.payload + wrongs'[v.secret] = Attempts
    <3>1. \A v \in Codes : v.secret \in Handle
      BY CodesAreTyped DEF Inv, CodeRow
    <3> QED BY <1>6, <1>9, <1>10, <3>1 DEF Inv, Carried, BudgetConserved
  <2>2. ASSUME NEW d \in Verifying'
        PROVE  call'[d].row.payload + wrongs'[call'[d].row.secret] = Attempts
    <3>1. CASE d = c
      BY <1>1, <1>8, <1>9, <1>10, <3>1
    <3>2. CASE d # c
      <4>1. call[d].row.secret \in Handle
        BY <1>7, <3>2 DEF Inv, TypeOK, CallState, CodeRow, Verifying
      <4> QED BY <1>7, <1>9, <1>10, <3>2, <4>1 DEF Inv, Carried, BudgetConserved
    <3> QED BY <3>1, <3>2
  <2>3. ASSUME NEW h \in Handle PROVE wrongs'[h] <= Attempts
    BY <1>1, <1>9, <1>10 DEF Inv, Carried, BudgetConserved
  <2>4. /\ (\A v \in Codes : v.payload + wrongs[v.secret] = Attempts)'
        /\ (\A d \in Verifying :
                call[d].row.payload + wrongs[call[d].row.secret] = Attempts)'
        /\ (\A h \in Handle : wrongs[h] <= Attempts)'
    BY <2>1, <2>2, <2>3
  <2> QED BY <2>4 DEF BudgetConserved
<1>13. Known'
  BY <1>1, <1>2, <1>6, <1>7, <1>8, <1>9, <1>10 DEF Inv, Carried, Known
<1> QED BY <1>11, <1>12, <1>13 DEF Carried

LEMMA CompareFaultKeeps ==
    ASSUME Inv, NEW c \in Caller, CompareFault(c)
    PROVE  /\ Carried'
           /\ Codes' = Codes /\ Verifying' = Verifying
           /\ \A d \in Verifying : /\ call'[d].row.payload = call[d].row.payload
                                  /\ call'[d].row.secret = call[d].row.secret
<1> DEFINE row == call[c].row
           r == Restoring(c, row.payload)
<1>1. row.payload \in 1..Attempts
  BY DEF Inv, TypeOK, CallState, CodeRow
<1>2. r.at = "restore" /\ r.row.payload = row.payload /\ r.row.secret = row.secret
  BY <1>1, RestoringIsTyped DEF Inv
<1>3. /\ c \in Verifying /\ call' = [call EXCEPT ![c] = r]
      /\ table' = table /\ issued' = issued /\ wrongs' = wrongs
  BY DEF CompareFault, Verifying
<1> HIDE DEF r
<1>4. Codes' = Codes /\ Verifying' = Verifying
  BY <1>2, <1>3 DEF Codes, Verifying, Inv, TypeOK
<1>5. \A d \in Verifying : /\ call'[d].row.payload = call[d].row.payload
                          /\ call'[d].row.secret = call[d].row.secret
  BY <1>2, <1>3 DEF Verifying, Inv, TypeOK
<1>6. Carried'
  BY <1>3, <1>4, <1>5 DEF Inv, Carried, OneCarrier, BudgetConserved, Known
<1> QED BY <1>4, <1>5, <1>6

\* Writing the row back moves it out of the request into the table.
LEMMA RestoreKeeps ==
    ASSUME Inv, NEW c \in Caller, Restore(c)
    PROVE  /\ Carried'
           /\ c \in Verifying /\ Verifying' = Verifying \ {c}
           /\ \A d \in Verifying' : call'[d] = call[d]
           /\ \E v : /\ Codes' = Codes \cup {v}
                    /\ v.secret = call[c].row.secret
                    /\ v.payload = call[c].row.payload
<1> DEFINE row == call[c].row
           v == Row(row.identifier, row.secret, row.payload, now + call[c].ttl)
<1>1. PICK s \in Subject : row.identifier = CodeOf(s)
  BY DEF Inv, TypeOK, CallState, CodeRow
<1>2. /\ c \in Verifying /\ call' = [call EXCEPT ![c] = NoCall]
      /\ table' = Issued(table, CodeOf(s), row.secret, row.payload, call[c].ttl, now)
      /\ issued' = issued /\ wrongs' = wrongs
  BY <1>1 DEF Restore, Verifying
<1>3. Codes' = Codes \cup {v} /\ v.secret = row.secret /\ v.payload = row.payload
  BY <1>1, <1>2, WritingACode
<1>4. NoCall.at = "idle"
  BY DEF NoCall
<1> HIDE DEF v
<1>5. Verifying' = Verifying \ {c} /\ \A d \in Verifying' : call'[d] = call[d]
  BY <1>2, <1>4 DEF Verifying, Inv, TypeOK
<1>6. OneCarrier'
  BY <1>2, <1>3, <1>5 DEF Inv, Carried, OneCarrier
<1>7. BudgetConserved'
  BY <1>2, <1>3, <1>5 DEF Inv, Carried, BudgetConserved
<1>8. Known'
  BY <1>2, <1>3, <1>5 DEF Inv, Carried, Known
<1> QED BY <1>2, <1>3, <1>5, <1>6, <1>7, <1>8 DEF Carried

LEMMA InitInv == Init => Inv
<1> SUFFICES ASSUME Init PROVE Inv
  OBVIOUS
<1>1. TypeOK
  BY SentinelsAreTyped DEF Init, TypeOK
<1>2. Codes = {} /\ Verifying = {}
  BY DEF Init, Codes, Verifying, NoCall
<1>3. \A h \in Handle : wrongs[h] = 0 /\ wrongs[h] <= Attempts
  BY BudgetIsPositive DEF Init
<1> QED BY <1>1, <1>2, <1>3 DEF Inv, Carried, OneCarrier, BudgetConserved, Known

LEMMA NextInv == Inv /\ [Next]_vars => Inv'
<1> SUFFICES ASSUME Inv, [Next]_vars PROVE Inv'
  OBVIOUS
<1>1. TypeOK'
  BY NextTyped DEF Inv
<1>2. ASSUME LetsGo PROVE Carried'
  BY <1>2, LettingGoIsSafe DEF Inv
<1>3. ASSUME NEW c \in Caller, InsertCode(c) PROVE Carried'
  BY <1>3, InsertKeeps
<1>4. ASSUME NEW c \in Caller, NEW h \in Handle, Claim(c, h) PROVE Carried'
  BY <1>4, ClaimKeeps
<1>5. ASSUME NEW c \in Caller, CompareWrong(c) PROVE Carried'
  BY <1>5, CompareWrongKeeps
<1>6. ASSUME NEW c \in Caller, CompareFault(c) PROVE Carried'
  BY <1>6, CompareFaultKeeps
<1>7. ASSUME NEW c \in Caller, Restore(c) PROVE Carried'
  BY <1>7, RestoreKeeps
<1>8. Carried'
  BY <1>2, <1>3, <1>4, <1>5, <1>6, <1>7, LettingGo DEF Inv, Next, IssueCode, VerifyCode
<1> QED BY <1>1, <1>8 DEF Inv

THEOREM Invariant == Spec => []Inv
BY InitInv, NextInv, PTL DEF Spec

\* A handle's row is never in two places, however requests interleave.
THEOREM OneRowOnePlace == Spec => []OneCarrier
<1>1. Inv => OneCarrier
  BY DEF Inv, Carried
<1> QED BY <1>1, Invariant, PTL

\* No race gives a guess back and no fault takes one.
THEOREM NoGuessGivenBack == Spec => []BudgetConserved
<1>1. Inv => BudgetConserved
  BY DEF Inv, Carried
<1> QED BY <1>1, Invariant, PTL

-----------------------------------------------------------------------------
(* The abstract budget *)

\* A handle is carried when its row is somewhere.
IsCarried(h) ==
    (\E v \in Codes : v.secret = h) \/ (\E c \in Verifying : call[c].row.secret = h)

\* By conservation, what is left to a carried handle is what was not guessed.
LeftByHistory == [h \in Handle |-> IF IsCarried(h) THEN Attempts - wrongs[h] ELSE 0]

LEMMA LeftIsHistory == Inv => Left = LeftByHistory
<1> SUFFICES ASSUME Inv, NEW h \in Handle
             PROVE  Left[h] = LeftByHistory[h]
  BY DEF Left, LeftByHistory
<1>1. IsCarried(h) <=> Carriers(h) # {}
  BY DEF IsCarried, Carriers
<1>2. ASSUME NEW v \in Carriers(h) PROVE v.payload = Attempts - wrongs[h]
  <2>1. v.payload + wrongs[h] = Attempts
    BY DEF Carriers, Inv, Carried, BudgetConserved
  <2>2. v.payload \in Nat /\ wrongs[h] \in Nat
    <3>1. Codes \subseteq CodeRow
      BY CodesAreTyped DEF Inv
    <3>2. v \in CodeRow
      BY <3>1 DEF Carriers, Inv, TypeOK, CallState, Verifying
    <3> QED BY <3>2, BudgetIsPositive DEF CodeRow, Inv, TypeOK
  <2> QED BY <2>1, <2>2, BudgetIsPositive
<1>3. Carriers(h) # {} => (CHOOSE v \in Carriers(h) : TRUE) \in Carriers(h)
  OBVIOUS
<1> QED BY <1>1, <1>2, <1>3 DEF Left, LeftByHistory

LEMMA LeftIsHistoryNext == Inv' => Left' = LeftByHistory'
<1>1. (Inv => Left = LeftByHistory)'
  BY LeftIsHistory, PTL
<1> QED BY <1>1

\* Left and its next value, handle by handle.
LEMMA LeftPointwise ==
    ASSUME Inv, Inv'
    PROVE  /\ Left = [h \in Handle |-> Left[h]]
           /\ Left' = [h \in Handle |-> Left'[h]]
           /\ \A h \in Handle :
                Left[h] = IF IsCarried(h) THEN Attempts - wrongs[h] ELSE 0
           /\ \A h \in Handle :
                Left'[h] = IF IsCarried(h)' THEN Attempts - wrongs'[h] ELSE 0
<1>1. Left = LeftByHistory /\ Left' = LeftByHistory'
  BY LeftIsHistory, LeftIsHistoryNext
<1>2. LeftByHistory' = [h \in Handle |->
                          IF IsCarried(h)' THEN Attempts - wrongs'[h] ELSE 0]
  BY DEF LeftByHistory
<1> QED BY <1>1, <1>2 DEF LeftByHistory

\* Nothing changes for the budget when the same handles are carried.
LEMMA SameCarriersSameLeft ==
    ASSUME Inv, Inv', wrongs' = wrongs, \A h \in Handle : IsCarried(h)' <=> IsCarried(h)
    PROVE  Left' = Left
BY LeftPointwise

\* Letting go of rows is some handles dying.
LEMMA LettingGoIsDying ==
    ASSUME Inv, Inv', LetsGo, answered' = answered
    PROVE  Budget!Die
<1> DEFINE dead == {h \in Handle : ~IsCarried(h)'}
<1>1. \A h \in Handle : IsCarried(h)' => IsCarried(h)
  BY DEF IsCarried, LetsGo
<1>2. \A h \in Handle : Left'[h] = IF h \in dead THEN 0 ELSE Left[h]
  BY <1>1, LeftPointwise DEF LetsGo
<1>3. Left' = [h \in Handle |-> IF h \in dead THEN 0 ELSE Left[h]]
  BY <1>2, LeftPointwise
<1>4. dead \in SUBSET Handle
  OBVIOUS
<1> QED BY <1>3, <1>4 DEF Budget!Die, LetsGo

LEMMA InsertIsIssue ==
    ASSUME Inv, Inv', NEW c \in Caller, InsertCode(c)
    PROVE  \E h \in Handle : Budget!Issue(h)
<1> DEFINE s == call[c].subject
<1>1. PICK h \in Handle \ issued :
        /\ table' = Issued(table, CodeOf(s), h, Attempts, Ttl, now)
        /\ issued' = issued \cup {h}
        /\ call' = [call EXCEPT ![c] = [@ EXCEPT !.at = "return",
                        !.row = Row(CodeOf(s), h, Attempts, now + Ttl)]]
  BY DEF InsertCode
<1> DEFINE row == Row(CodeOf(s), h, Attempts, now + Ttl)
           r == [call[c] EXCEPT !.at = "return", !.row = row]
<1>2. r.at = "return" /\ call[c].at = "insert"
  BY DEF Inv, TypeOK, CallState, InsertCode
<1>3. Codes' = Codes \cup {row} /\ row.secret = h
  BY <1>1, WritingACode
<1>4. issued' = issued \cup {h} /\ wrongs' = wrongs /\ answered' = answered
  BY <1>1 DEF InsertCode
<1> HIDE DEF s, row, r
<1>5. call' = [call EXCEPT ![c] = r]
  BY <1>1 DEF s, row, r
<1>6. Verifying' = Verifying /\ \A d \in Verifying : call'[d] = call[d]
  BY <1>2, <1>5 DEF Inv, TypeOK, Verifying
<1>7. wrongs[h] = 0 /\ Attempts - wrongs[h] = Attempts
  BY BudgetIsPositive DEF Inv, Carried, Known
<1>8. IsCarried(h)' /\ \A g \in Handle \ {h} : IsCarried(g)' <=> IsCarried(g)
  BY <1>3, <1>6 DEF IsCarried
<1>9. Left' = [Left EXCEPT ![h] = Attempts]
  BY <1>4, <1>7, <1>8, LeftPointwise
<1> QED BY <1>4, <1>9 DEF Budget!Issue

\* The right guess ends the handle, and only that handle.
LEMMA CompareRightIsAnswer ==
    ASSUME Inv, Inv', NEW c \in Caller, CompareRight(c), answered' # answered
    PROVE  \E h \in Handle : Budget!Answer(h)
<1>0. PICK h \in Handle : h = call[c].row.secret
  BY DEF Inv, TypeOK, CallState, CodeRow
<1>1. /\ c \in Verifying /\ call' = [call EXCEPT ![c] = NoCall]
      /\ table' = table /\ issued' = issued /\ wrongs' = wrongs
      /\ answered' = answered \cup {h}
  BY <1>0 DEF CompareRight, Verifying
<1>2. h \in Handle /\ call[c].row.payload \in 1..Attempts /\ wrongs[h] \in Nat
  BY DEF Inv, TypeOK, CallState, CodeRow
<1>3. NoCall.at = "idle"
  BY DEF NoCall
<1>4. /\ Codes' = Codes /\ Verifying' = Verifying \ {c}
      /\ \A d \in Verifying' : call'[d] = call[d]
  BY <1>1, <1>3 DEF Codes, Verifying, Inv, TypeOK
<1>5. ~IsCarried(h)' /\ IsCarried(h)
  BY <1>0, <1>1, <1>4 DEF IsCarried, Inv, Carried, OneCarrier
<1>6. \A g \in Handle \ {h} : IsCarried(g)' <=> IsCarried(g)
  BY <1>0, <1>4 DEF IsCarried
<1>7. call[c].row.payload + wrongs[h] = Attempts
  BY <1>0, <1>1 DEF Inv, Carried, BudgetConserved
<1>8. Left[h] > 0
  BY <1>2, <1>5, <1>7, LeftPointwise, BudgetIsPositive
<1>9. Left' = [Left EXCEPT ![h] = 0]
  BY <1>1, <1>2, <1>5, <1>6, LeftPointwise
<1> QED BY <1>1, <1>2, <1>8, <1>9 DEF Budget!Answer

\* A wrong guess costs its handle one, whether the row is written back or not.
LEMMA CompareWrongIsWrong ==
    ASSUME Inv, Inv', NEW c \in Caller, CompareWrong(c)
    PROVE  \E h \in Handle : Budget!Wrong(h)
<1> DEFINE row == call[c].row
           r == IF row.payload > 1 THEN Restoring(c, row.payload - 1) ELSE NoCall
<1>0. PICK h \in Handle : h = row.secret
  BY DEF Inv, TypeOK, CallState, CodeRow
<1>1. /\ row.payload \in 1..Attempts /\ Attempts \in Nat
      /\ wrongs \in [Handle -> Nat]
  BY BudgetIsPositive DEF Inv, TypeOK, CallState, CodeRow
<1>2. /\ c \in Verifying
      /\ call' = [call EXCEPT ![c] = r]
      /\ wrongs' = [wrongs EXCEPT ![h] = @ + 1]
      /\ table' = table /\ issued' = issued /\ answered' = answered
  BY <1>0 DEF CompareWrong, Verifying
<1>3. NoCall.at = "idle"
  BY DEF NoCall
<1>4. row.payload > 1 => r.at = "restore" /\ r.row.secret = h
  BY <1>0, <1>1, RestoringIsTyped DEF Inv
<1>5. ~(row.payload > 1) => r.at = "idle"
  BY <1>3
<1>6. row.payload + wrongs[h] = Attempts
  BY <1>0, <1>2 DEF Inv, Carried, BudgetConserved
<1>7. IsCarried(h)
  BY <1>0, <1>2 DEF IsCarried
<1>8. /\ \A v \in Codes : v.secret # h
      /\ \A d \in Verifying \ {c} : call[d].row.secret # h
  BY <1>0, <1>2 DEF Inv, Carried, OneCarrier
<1>9. call[c].row.secret = h
  BY <1>0
<1> HIDE DEF row, r
<1>10. Codes' = Codes
  BY <1>2 DEF Codes
<1>11. \A d \in Caller \ {c} : /\ d \in Verifying' <=> d \in Verifying
                              /\ call'[d] = call[d]
  BY <1>2 DEF Verifying, Inv, TypeOK
<1>12. /\ c \in Verifying' <=> row.payload > 1
       /\ c \in Verifying' => call'[c].row.secret = h
  BY <1>2, <1>4, <1>5 DEF Verifying, Inv, TypeOK
<1>13. \A g \in Handle \ {h} : IsCarried(g)' <=> IsCarried(g)
  BY <1>9, <1>10, <1>11, <1>12 DEF IsCarried, Verifying
<1>14. IsCarried(h)' <=> row.payload > 1
  BY <1>2, <1>8, <1>10, <1>11, <1>12 DEF IsCarried, Verifying
<1>15. Left[h] = row.payload /\ Left'[h] = row.payload - 1
  BY <1>1, <1>2, <1>6, <1>7, <1>14, LeftPointwise
<1>16. \A g \in Handle \ {h} : Left'[g] = Left[g]
  BY <1>1, <1>2, <1>13, LeftPointwise
<1>17. Left' = [Left EXCEPT ![h] = @ - 1]
  BY <1>1, <1>15, <1>16, LeftPointwise
<1>18. Left[h] > 0
  BY <1>1, <1>15
<1> QED BY <1>1, <1>2, <1>17, <1>18 DEF Budget!Wrong

LEMMA StepImplementsBudget ==
    Inv /\ Inv' /\ [Next]_vars =>
        [Budget!Next]_<<issued, Left, wrongs, answered>>
<1> DEFINE Stutter == UNCHANGED <<issued, Left, wrongs, answered>>
<1> SUFFICES ASSUME Inv, Inv', [Next]_vars PROVE Budget!Next \/ Stutter
  OBVIOUS
<1>1. ASSUME LetsGo, answered' = answered PROVE Budget!Next
  BY <1>1, LettingGoIsDying DEF Budget!Next
<1>2. ASSUME NEW c \in Caller, InsertCode(c) PROVE Budget!Next
  BY <1>2, InsertIsIssue DEF Budget!Next
<1>3. ASSUME NEW c \in Caller, CompareRight(c) PROVE Budget!Next
  <2>1. CASE answered' = answered
    BY <1>1, <1>3, <2>1, LettingGo DEF Inv
  <2>2. CASE answered' # answered
    BY <1>3, <2>2, CompareRightIsAnswer DEF Budget!Next
  <2> QED BY <2>1, <2>2
<1>4. ASSUME NEW c \in Caller, CompareWrong(c) PROVE Budget!Next
  BY <1>4, CompareWrongIsWrong DEF Budget!Next
<1>5. ASSUME NEW c \in Caller, NEW h \in Handle, Claim(c, h) PROVE Stutter
  <2>1. \A g \in Handle : IsCarried(g)' <=> IsCarried(g)
    BY <1>5, ClaimKeeps DEF IsCarried
  <2> QED BY <1>5, <2>1, SameCarriersSameLeft DEF Claim
<1>6. ASSUME NEW c \in Caller, CompareFault(c) PROVE Stutter
  <2>1. \A g \in Handle : IsCarried(g)' <=> IsCarried(g)
    BY <1>6, CompareFaultKeeps DEF IsCarried
  <2> QED BY <1>6, <2>1, SameCarriersSameLeft DEF CompareFault
<1>7. ASSUME NEW c \in Caller, Restore(c) PROVE Stutter
  <2>1. \A g \in Handle : IsCarried(g)' <=> IsCarried(g)
    BY <1>7, RestoreKeeps DEF IsCarried
  <2> QED BY <1>7, <2>1, SameCarriersSameLeft DEF Restore
<1>8. ASSUME [Next]_vars,
             ~ \E c \in Caller : \/ InsertCode(c) \/ CompareRight(c) \/ CompareWrong(c)
                                 \/ (\E h \in Handle : Claim(c, h))
                                 \/ CompareFault(c) \/ Restore(c)
      PROVE  LetsGo /\ answered' = answered
  <2>1. LetsGo
    BY <1>8, LettingGo DEF Inv, Next, IssueCode, VerifyCode
  <2>2. answered' = answered
    BY <1>8 DEF Next, IssueCode, VerifyCode, Tick, RetireLinks, RetireCodes, ReturnCode,
                Abandon, Retire, MintLink, ClaimLink, DeleteExpired, vars
  <2> QED BY <2>1, <2>2
<1> QED BY <1>1, <1>2, <1>3, <1>4, <1>5, <1>6, <1>7, <1>8

\* Claim, compare and write back, raced by everything that reaches the row,
\* implement a budget that is spent and answered in single steps.
THEOREM ImplementsTheBudget == Spec => ImplementsBudget
<1>1. Init => Budget!Init
  <2> SUFFICES ASSUME Init PROVE Budget!Init
    OBVIOUS
  <2>1. \A h \in Handle : Carriers(h) = {}
    BY DEF Init, Carriers, Codes, Verifying, NoCall
  <2>2. Left = [h \in Handle |-> 0]
    BY <2>1 DEF Left
  <2> QED BY <2>2 DEF Init, Budget!Init
<1>2. Inv /\ Inv' /\ [Next]_vars =>
        [Budget!Next]_<<issued, Left, wrongs, answered>>
  BY StepImplementsBudget
<1> QED BY <1>1, <1>2, Invariant, PTL DEF Spec, ImplementsBudget, Budget!Spec

-----------------------------------------------------------------------------
(* The hybrid of code and link *)

DoorsTyped ==
    /\ door \in [Caller -> DoorState]
    /\ \A c \in Caller : door[c].at = "retireLinks" => door[c].via \in Handle
    /\ beside \in [Handle -> SUBSET Link]
    /\ entries \in [Credential -> Nat]
    /\ shut \subseteq Credential

LEMMA ClosedIsTyped == Closed \in DoorState /\ Closed.at = "none"
<1>1. NoCall.subject \in Subject /\ NoRow.secret \in Handle
  BY SentinelsAreTyped DEF CallState, CodeRow
<1> QED BY <1>1 DEF Closed, DoorState, DoorStep, Credential

LEMMA OwingIsTyped ==
    ASSUME NEW step \in DoorStep, NEW s \in Subject, NEW x \in Credential
    PROVE  /\ Owing(step, s, x) \in DoorState
           /\ Owing(step, s, x).at = step
           /\ Owing(step, s, x).via = x
BY DEF Owing, DoorState

\* One signing-in more is still a count.
LEMMA EnteringIsTyped ==
    ASSUME entries \in [Credential -> Nat], NEW x, Enter(x)
    PROVE  entries' \in [Credential -> Nat]
BY DEF Enter

LEMMA HybridStep ==
    ASSUME HybridTypeOK, [HybridNext]_hybridVars
    PROVE  [Next]_vars /\ DoorsTyped'
<1> USE DEF DoorsTyped, HybridTypeOK
<1>1. ASSUME NEW c \in Caller, Challenge(c) PROVE Next /\ DoorsTyped'
  BY <1>1 DEF Challenge, Next, IssueCode
<1>2. ASSUME NEW c \in Caller, MintBeside(c) PROVE Next /\ DoorsTyped'
  <2>1. call[c].subject \in Subject /\ call[c].row.secret \in Credential
    BY DEF TypeOK, CallState, CodeRow, Credential
  <2>2. MintLink(call[c].subject)
    BY <1>2 DEF MintBeside
  <2>3. minted' \subseteq Link
    BY <2>2 DEF MintLink, TypeOK
  <2>4. /\ Owing("minted", call[c].subject, call[c].row.secret) \in DoorState
        /\ Owing("minted", call[c].subject, call[c].row.secret).at = "minted"
    BY <2>1, OwingIsTyped DEF DoorStep
  <2>5. DoorsTyped'
    BY <1>2, <2>3, <2>4 DEF MintBeside
  <2>6. Next
    BY <2>1, <2>2 DEF Next
  <2> QED BY <2>5, <2>6
<1>3. ASSUME NEW c \in Caller, Send(c) PROVE Next /\ DoorsTyped'
  BY <1>3, ClosedIsTyped DEF Send, Next
<1>4. ASSUME NEW c \in Caller, Guess(c) PROVE Next /\ DoorsTyped'
  BY <1>4 DEF Guess, Next, VerifyCode
<1>5. ASSUME NEW c \in Caller, AnswerCode(c) PROVE Next /\ DoorsTyped'
  <2>1. /\ call[c].subject \in Subject /\ call[c].row.secret \in Handle
        /\ call[c].row.secret \in Credential
    BY DEF TypeOK, CallState, CodeRow, Credential
  <2>2. /\ Owing("retireLinks", call[c].subject, call[c].row.secret) \in DoorState
        /\ Owing("retireLinks", call[c].subject, call[c].row.secret).via = call[c].row.secret
    BY <2>1, OwingIsTyped DEF DoorStep
  <2>3. DoorsTyped'
    BY <1>5, <2>1, <2>2, ClosedIsTyped DEF AnswerCode
  <2> QED BY <1>5, <2>3 DEF AnswerCode, Next, VerifyCode
<1>6. ASSUME NEW c \in Caller, FinishCode(c) PROVE Next /\ DoorsTyped'
  <2>1. door[c].subject \in Subject /\ door[c].via \in Credential
    BY DEF DoorState
  <2>2. Next
    BY <1>6, <2>1 DEF FinishCode, Next
  <2>3. entries' \in [Credential -> Nat]
    BY <1>6, EnteringIsTyped DEF FinishCode
  <2>4. shut' \subseteq Credential
    <3>1. beside[door[c].via] \subseteq Link
      BY <1>6 DEF FinishCode
    <3> QED BY <1>6, <3>1 DEF FinishCode, Credential
  <2> QED BY <1>6, <2>2, <2>3, <2>4, ClosedIsTyped DEF FinishCode
<1>7. ASSUME NEW c \in Caller, NEW k \in Link, Follow(c, k) PROVE Next /\ DoorsTyped'
  <2>1. PICK s \in Subject : /\ ClaimLink(s, k)
                             /\ door' = [door EXCEPT ![c] = Owing("retireCodes", s, k)]
    BY <1>7 DEF Follow
  <2>2. Owing("retireCodes", s, k) \in DoorState /\ Owing("retireCodes", s, k).at = "retireCodes"
    BY OwingIsTyped DEF DoorStep, Credential
  <2>3. DoorsTyped'
    BY <1>7, <2>1, <2>2 DEF Follow
  <2> QED BY <2>1, <2>3 DEF Next
<1>8. ASSUME NEW c \in Caller, FinishLink(c) PROVE Next /\ DoorsTyped'
  <2>1. door[c].subject \in Subject
    BY DEF DoorState
  <2>2. Next
    BY <1>8, <2>1 DEF FinishLink, Next
  <2>3. entries' \in [Credential -> Nat]
    BY <1>8, EnteringIsTyped DEF FinishLink
  <2> QED BY <1>8, <2>2, <2>3, ClosedIsTyped DEF FinishLink, Credential
<1>9. ASSUME NEW c \in Caller, GiveUp(c) PROVE [Next]_vars /\ DoorsTyped'
  BY <1>9, ClosedIsTyped DEF GiveUp, Next
<1>10. CASE Housekeeping
  BY <1>10 DEF Housekeeping, Next
<1>11. CASE UNCHANGED hybridVars
  BY <1>11 DEF hybridVars
<1> QED
  BY <1>1, <1>2, <1>3, <1>4, <1>5, <1>6, <1>7, <1>8, <1>9, <1>10, <1>11 DEF HybridNext

LEMMA HybridInitTyped == HybridInit => HybridTypeOK
BY SentinelsAreTyped, ClosedIsTyped DEF HybridInit, Init, HybridTypeOK, TypeOK

LEMMA HybridNextTyped == HybridTypeOK /\ [HybridNext]_hybridVars => HybridTypeOK'
<1> SUFFICES ASSUME HybridTypeOK, [HybridNext]_hybridVars PROVE HybridTypeOK'
  OBVIOUS
<1>1. [Next]_vars /\ DoorsTyped'
  BY HybridStep
<1>2. TypeOK'
  BY <1>1, NextTyped DEF HybridTypeOK
<1> QED BY <1>1, <1>2 DEF HybridTypeOK, DoorsTyped

\* Every reachable state of the hybrid is well typed.
THEOREM HybridTypeCorrect == HybridSpec => []HybridTypeOK
BY HybridInitTyped, HybridNextTyped, PTL DEF HybridSpec

\* Behind the doors the challenges take only the steps of Challenges.
THEOREM DoorsAreChallenges == HybridSpec => DoorsUseChallenges
<1>1. HybridInit => Init
  BY DEF HybridInit
<1>2. HybridTypeOK /\ [HybridNext]_hybridVars => [Next]_vars
  BY HybridStep
<1> QED BY <1>1, <1>2, HybridTypeCorrect, PTL DEF HybridSpec, DoorsUseChallenges, Spec

\* So the guesses at a hybrid code are budgeted too, whichever door is used.
THEOREM HybridImplementsTheBudget == HybridSpec => ImplementsBudget
<1>1. HybridSpec => Spec
  BY DoorsAreChallenges DEF DoorsUseChallenges
<1> QED BY <1>1, ImplementsTheBudget, PTL
-----------------------------------------------------------------------------
(* Rows and where they come from *)

\* The rows there are, in the table or in the hands of a request.
Rows == table \cup {call[c].row : c \in Verifying}

LinkRows == table \ Codes

\* The same row as far as claims and retirements tell: a guess lowers what a
\* row has left and a restore moves its expiry, no more.
SameRow(r, q) == r.secret = q.secret /\ r.identifier = q.identifier

KnownRow(r) == \E q \in Rows : SameRow(r, q)

\* A step that brings no row into being.
BringsNone ==
    /\ issued' = issued
    /\ minted' = minted
    /\ LinkRows' \subseteq LinkRows
    /\ \A r \in Rows' : KnownRow(r)

BringsCode(s, h) ==
    /\ h \in Handle \ issued
    /\ issued' = issued \cup {h}
    /\ minted' = minted
    /\ LinkRows' \subseteq LinkRows
    /\ \A r \in Rows' : KnownRow(r) \/ (r.secret = h /\ r.identifier = CodeOf(s))

BringsLink(s, k) ==
    /\ k \in Link \ minted
    /\ issued' = issued
    /\ minted' = minted \cup {k}
    /\ \E r : r.secret = k /\ LinkRows' \subseteq LinkRows \cup {r}
    /\ \A r \in Rows' : KnownRow(r) \/ (r.secret = k /\ r.identifier = LinkOf(s))

LEMMA IdentifiersTellApart ==
    /\ \A s, t : CodeOf(s) = CodeOf(t) => s = t
    /\ \A s, t : LinkOf(s) = LinkOf(t) => s = t
    /\ \A s, t : CodeOf(s) # LinkOf(t)
    /\ \A s : CodeOf(s).purpose = "code" /\ LinkOf(s).purpose = "link"
BY DEF CodeOf, LinkOf, IdentifierOf

\* Code rows have handles for secrets, link rows have links.
LEMMA SecretsOfRows ==
    ASSUME TypeOK
    PROVE  /\ \A v \in Codes : v.secret \in Handle /\ v.secret \notin Link
           /\ \A v \in LinkRows : v.secret \in Link /\ v.secret \notin Handle
           /\ \A c \in Caller : call[c].row.secret \in Handle
<1>1. \A v \in Codes : v.secret \in Handle
  BY CodesAreTyped DEF CodeRow
<1>2. \A v \in LinkRows : v.secret \in Link
  BY CodesAreTyped DEF LinkRow, LinkRows
<1>3. \A c \in Caller : call[c].row.secret \in Handle
  BY DEF TypeOK, CallState, CodeRow
<1> QED BY <1>1, <1>2, <1>3, SecretsApart

LEMMA RestoringKeepsTheRow ==
    ASSUME TypeOK, NEW c \in Caller, NEW k \in 1..Attempts
    PROVE  /\ SameRow(Restoring(c, k).row, call[c].row)
           /\ Restoring(c, k).subject = call[c].subject
           /\ Restoring(c, k).at = "restore"
<1>1. call[c] \in CallState /\ call[c].row \in CodeRow
  BY DEF TypeOK, CallState
<1> DEFINE row == [call[c].row EXCEPT !.payload = k]
           ttl == call[c].row.expiresAt - now
<1>2. row.identifier = call[c].row.identifier /\ row.secret = call[c].row.secret
  BY <1>1 DEF CodeRow
<1>3. Restoring(c, k) = [call[c] EXCEPT !.at = "restore", !.ttl = ttl, !.row = row]
  BY DEF Restoring
<1> HIDE DEF row, ttl
<1> QED BY <1>1, <1>2, <1>3 DEF CallState, SameRow

\* Nothing new where the table only loses rows and the requests keep theirs.
LEMMA LosingBringsNone ==
    ASSUME LetsGo, table' \subseteq table, minted' = minted
    PROVE  BringsNone
<1>1. LinkRows' \subseteq LinkRows
  BY DEF LinkRows, Codes
<1>2. ASSUME NEW r \in Rows' PROVE KnownRow(r)
  BY <1>2 DEF Rows, KnownRow, SameRow, LetsGo
<1> QED BY <1>1, <1>2 DEF BringsNone, LetsGo

LEMMA InsertBringsACode ==
    ASSUME Inv, NEW c \in Caller, InsertCode(c)
    PROVE  \E h \in Handle : /\ BringsCode(call[c].subject, h)
                             /\ call'[c].row.secret = h
                             /\ call'[c].at = "return"
                             /\ call'[c].subject = call[c].subject
                             /\ \A d \in Caller \ {c} : call'[d] = call[d]
<1> DEFINE s == call[c].subject
<1>1. PICK h \in Handle \ issued :
        /\ table' = Issued(table, CodeOf(s), h, Attempts, Ttl, now)
        /\ issued' = issued \cup {h}
        /\ call' = [call EXCEPT ![c] = [@ EXCEPT !.at = "return",
                        !.row = Row(CodeOf(s), h, Attempts, now + Ttl)]]
  BY DEF InsertCode
<1> DEFINE row == Row(CodeOf(s), h, Attempts, now + Ttl)
           r == [call[c] EXCEPT !.at = "return", !.row = row]
<1>2. r.at = "return" /\ r.subject = s /\ r.row = row
  BY DEF Inv, TypeOK, CallState
<1>3. /\ table' = table \cup {row} /\ row.secret = h /\ row.identifier = CodeOf(s)
      /\ Codes' = Codes \cup {row}
  BY <1>1, WritingACode DEF Issued, Row
<1> HIDE DEF row, r
<1>4. call' = [call EXCEPT ![c] = r]
  BY <1>1 DEF row, r
<1>5. \A d \in Verifying' : d \in Verifying /\ call'[d] = call[d]
  BY <1>2, <1>4, IdleVerifiesNothing DEF Inv
<1>6. LinkRows' \subseteq LinkRows
  BY <1>3 DEF LinkRows
<1>7. \A q \in Rows' : KnownRow(q) \/ (q.secret = h /\ q.identifier = CodeOf(s))
  BY <1>3, <1>5 DEF Rows, KnownRow, SameRow
<1>8. BringsCode(s, h)
  BY <1>1, <1>6, <1>7 DEF BringsCode, InsertCode
<1>9. /\ call'[c].row.secret = h /\ call'[c].at = "return" /\ call'[c].subject = s
      /\ \A d \in Caller \ {c} : call'[d] = call[d]
  BY <1>2, <1>3, <1>4 DEF Inv, TypeOK
<1> QED BY <1>8, <1>9

LEMMA MintingBringsALink ==
    ASSUME Inv, NEW s \in Subject, MintLink(s)
    PROVE  \E k \in Link : BringsLink(s, k)
<1>1. PICK k \in Link \ minted :
        /\ minted' = minted \cup {k}
        /\ table' = Issued(table, LinkOf(s), k, 0, Ttl, now)
  BY DEF MintLink
<1> DEFINE row == Row(LinkOf(s), k, 0, now + Ttl)
<1>2. /\ table' = table \cup {row} /\ row.secret = k /\ row.identifier = LinkOf(s)
  BY <1>1 DEF Issued, Row
<1> HIDE DEF row
<1>3. issued' = issued /\ call' = call
  BY DEF MintLink
<1>4. LinkRows' \subseteq LinkRows \cup {row}
  BY <1>2 DEF LinkRows, Codes
<1>5. \A r \in Rows' : KnownRow(r) \/ (r.secret = k /\ r.identifier = LinkOf(s))
  BY <1>2, <1>3 DEF Rows, KnownRow, SameRow, Verifying
<1> QED BY <1>1, <1>2, <1>3, <1>4, <1>5 DEF BringsLink

\* Claiming, comparing and writing back move a row and bring none.
LEMMA GuessingBringsNone ==
    ASSUME Inv, NEW c \in Caller,
           \/ \E h \in Handle : Claim(c, h)
           \/ CompareWrong(c)
           \/ CompareFault(c)
           \/ Restore(c)
    PROVE  BringsNone
<1>1. ASSUME NEW h \in Handle, Claim(c, h) PROVE BringsNone
  <2>1. PICK row \in Codes : /\ row.secret = h
                             /\ Verifying' = Verifying \cup {c}
                             /\ call'[c].row = row
                             /\ \A d \in Verifying : d # c /\ call'[d] = call[d]
    BY <1>1, ClaimKeeps
  <2>2. table' \subseteq table /\ issued' = issued /\ minted' = minted
    BY <1>1 DEF Claim
  <2>3. LinkRows' \subseteq LinkRows
    BY <2>2 DEF LinkRows, Codes
  <2>4. \A r \in Rows' : r \in Rows
    BY <2>1, <2>2 DEF Rows, Codes
  <2> QED BY <2>2, <2>3, <2>4 DEF BringsNone, KnownRow, SameRow
<1>2. ASSUME NEW r, call' = [call EXCEPT ![c] = r], c \in Verifying,
             r.at \in {"compare", "restore"} => SameRow(r.row, call[c].row),
             table' = table, issued' = issued, minted' = minted
      PROVE  BringsNone
  <2>1. LinkRows' = LinkRows
    BY <1>2 DEF LinkRows, Codes
  <2>2. ASSUME NEW q \in Rows' PROVE KnownRow(q)
    <3>1. CASE q \in table'
      BY <1>2, <3>1 DEF Rows, KnownRow, SameRow
    <3>2. ASSUME NEW d \in Verifying', q = call'[d].row PROVE KnownRow(q)
      <4>1. CASE d = c
        <5>1. call'[c] = r
          BY <1>2 DEF Inv, TypeOK
        <5>2. r.at \in {"compare", "restore"}
          BY <3>2, <4>1, <5>1 DEF Verifying
        <5>3. SameRow(q, call[c].row)
          BY <1>2, <3>2, <4>1, <5>1, <5>2
        <5> QED BY <1>2, <5>3 DEF Rows, KnownRow
      <4>2. CASE d # c
        <5>1. call'[d] = call[d] /\ d \in Verifying
          BY <1>2, <3>2, <4>2 DEF Inv, TypeOK, Verifying
        <5> QED BY <3>2, <5>1 DEF Rows, KnownRow, SameRow
      <4> QED BY <4>1, <4>2
    <3> QED BY <2>2, <3>1, <3>2 DEF Rows
  <2> QED BY <1>2, <2>1, <2>2 DEF BringsNone
<1>3. call[c].row.payload \in 1..Attempts /\ Attempts \in Nat
  BY BudgetIsPositive DEF Inv, TypeOK, CallState, CodeRow
<1>4. ASSUME CompareWrong(c) PROVE BringsNone
  <2> DEFINE p == call[c].row.payload
             r == IF p > 1 THEN Restoring(c, p - 1) ELSE NoCall
  <2>1. p > 1 => p - 1 \in 1..Attempts
    BY <1>3
  <2>2. r.at \in {"compare", "restore"} => SameRow(r.row, call[c].row)
    BY <2>1, RestoringKeepsTheRow DEF Inv, NoCall
  <2>3. /\ call' = [call EXCEPT ![c] = r] /\ c \in Verifying
        /\ table' = table /\ issued' = issued /\ minted' = minted
    BY <1>4 DEF CompareWrong, Verifying
  <2> HIDE DEF r
  <2> QED BY <1>2, <2>2, <2>3
<1>5. ASSUME CompareFault(c) PROVE BringsNone
  <2> DEFINE r == Restoring(c, call[c].row.payload)
  <2>1. SameRow(r.row, call[c].row)
    BY <1>3, RestoringKeepsTheRow DEF Inv
  <2>2. /\ call' = [call EXCEPT ![c] = r] /\ c \in Verifying
        /\ table' = table /\ issued' = issued /\ minted' = minted
    BY <1>5 DEF CompareFault, Verifying
  <2> HIDE DEF r
  <2> QED BY <1>2, <2>1, <2>2
<1>6. ASSUME Restore(c) PROVE BringsNone
  <2> DEFINE row == call[c].row
             v == Row(row.identifier, row.secret, row.payload, now + call[c].ttl)
  <2>1. table' = table \cup {v} /\ SameRow(v, row)
    BY <1>6 DEF Restore, Issued, Row, SameRow
  <2>2. issued' = issued /\ minted' = minted
    BY <1>6 DEF Restore
  <2>3. /\ c \in Verifying /\ Verifying' = Verifying \ {c}
        /\ \A d \in Verifying' : call'[d] = call[d]
    BY <1>6, RestoreKeeps
  <2>4. row.identifier.purpose = "code"
    BY IdentifiersTellApart DEF Inv, TypeOK, CallState, CodeRow
  <2>5. v.identifier.purpose = "code"
    BY <2>1, <2>4 DEF SameRow
  <2>6. row \in Rows
    BY <2>3 DEF Rows
  <2> HIDE DEF v, row
  <2>7. LinkRows' \subseteq LinkRows
    BY <2>1, <2>5 DEF LinkRows, Codes
  <2>8. \A r \in Rows' : KnownRow(r)
    BY <2>1, <2>3, <2>6 DEF Rows, KnownRow, SameRow
  <2> QED BY <2>2, <2>7, <2>8 DEF BringsNone
<1> QED BY <1>1, <1>4, <1>5, <1>6
\* Every step brings no row, or one fresh code, or one fresh link.
LEMMA WhereRowsComeFrom ==
    ASSUME Inv, [Next]_vars
    PROVE  \/ BringsNone
           \/ \E c \in Caller, h \in Handle : InsertCode(c) /\ BringsCode(call[c].subject, h)
           \/ \E s \in Subject, k \in Link : MintLink(s) /\ BringsLink(s, k)
<1>1. ASSUME NEW c \in Caller, InsertCode(c)
      PROVE  \E h \in Handle : BringsCode(call[c].subject, h)
  BY <1>1, InsertBringsACode
<1>2. ASSUME NEW s \in Subject, MintLink(s) PROVE \E k \in Link : BringsLink(s, k)
  BY <1>2, MintingBringsALink
<1>3. ASSUME NEW c \in Caller,
             (\E h \in Handle : Claim(c, h)) \/ CompareWrong(c) \/ CompareFault(c) \/ Restore(c)
      PROVE  BringsNone
  BY <1>3, GuessingBringsNone
<1>4. ASSUME [Next]_vars,
             ~ \E c \in Caller : \/ InsertCode(c) \/ CompareWrong(c) \/ CompareFault(c)
                                 \/ (\E h \in Handle : Claim(c, h)) \/ Restore(c),
             ~ \E s \in Subject : MintLink(s)
      PROVE  BringsNone
  <2>1. LetsGo
    BY <1>4, LettingGo DEF Inv, Next, IssueCode, VerifyCode
  <2>2. table' \subseteq table /\ minted' = minted
    BY <1>4 DEF Next, IssueCode, VerifyCode, Tick, RetireLinks, RetireCodes, ReturnCode,
                CompareRight, Abandon, Retire, Retired, ClaimLink, DeleteExpired, Swept, vars
  <2> QED BY <2>1, <2>2, LosingBringsNone
<1> QED BY <1>1, <1>2, <1>3, <1>4

\* Every row was issued or minted, and a link is in one row at most.
Ledger ==
    /\ \A r \in Rows : r.secret \in issued \cup minted
    /\ \A v, w \in LinkRows : v.secret = w.secret => v = w

\* Once there and nowhere any more.
Gone(x) ==
    /\ x \in issued \cup minted
    /\ \A r \in Rows : r.secret # x

\* What is gone stays gone: whatever a step brings is fresh.
LEMMA GoneForGood ==
    ASSUME Inv, Ledger, [Next]_vars
    PROVE  Ledger' /\ \A x : Gone(x) => Gone(x)'
<1>0. issued \subseteq Handle /\ minted \subseteq Link /\ Handle \cap Link = {}
  BY SecretsApart DEF Inv, TypeOK
<1>1. CASE BringsNone
  BY <1>1 DEF BringsNone, Ledger, Gone, KnownRow, SameRow
<1>2. ASSUME NEW s, NEW h, BringsCode(s, h) PROVE Ledger' /\ \A x : Gone(x) => Gone(x)'
  BY <1>0, <1>2 DEF BringsCode, Ledger, Gone, KnownRow, SameRow
<1>3. ASSUME NEW s, NEW k, BringsLink(s, k) PROVE Ledger' /\ \A x : Gone(x) => Gone(x)'
  <2>1. PICK r : r.secret = k /\ LinkRows' \subseteq LinkRows \cup {r}
    BY <1>3 DEF BringsLink
  <2>2. \A v \in LinkRows : v.secret # k
    BY <1>0, <1>3 DEF BringsLink, Ledger, Rows, LinkRows
  <2>3. \A v, w \in LinkRows' : v.secret = w.secret => v = w
    BY <2>1, <2>2 DEF Ledger
  <2>4. \A q \in Rows' : q.secret \in issued' \cup minted'
    BY <1>3 DEF BringsLink, Ledger, KnownRow, SameRow
  <2>5. \A x : Gone(x) => Gone(x)'
    BY <1>0, <1>3 DEF BringsLink, Gone, KnownRow, SameRow
  <2> QED BY <2>3, <2>4, <2>5 DEF Ledger
<1> QED BY <1>1, <1>2, <1>3, WhereRowsComeFrom

-----------------------------------------------------------------------------
(* Each door once, and shut for good *)

Finishing == {c \in Caller : door[c].at \in {"retireLinks", "retireCodes"}}

\* A credential somebody is signing in with is gone, is one request's, and has
\* signed nobody in yet; one that has is gone; one that the other door retired is
\* gone as well, and nobody is signing in with it.
Spent ==
    /\ \A c \in Finishing : Gone(door[c].via) /\ entries[door[c].via] = 0
    /\ \A c, d \in Finishing : door[c].via = door[d].via => c = d
    /\ \A x \in Credential : entries[x] = 0 \/ (entries[x] = 1 /\ Gone(x))
    /\ \A x \in shut : Gone(x) /\ \A c \in Finishing : door[c].via # x

\* Each code belongs to one subject: its rows, the request that issues it, the
\* links beside it and the requests that finish one of the two all say so.
RowsOwned(owner) ==
    \A r \in Rows : r.secret \in Handle => r.identifier = CodeOf(owner[r.secret])

IssuersOwned(owner) ==
    \A c \in Caller : call[c].at = "return" =>
        call[c].row.secret \in issued /\ call[c].subject = owner[call[c].row.secret]

LinksOwned(owner) ==
    \A h \in Handle : \A k \in beside[h] :
        /\ h \in issued
        /\ k \in minted
        /\ \A r \in Rows : r.secret = k => r.identifier = LinkOf(owner[h])

DoorsOwned(owner) ==
    \A c \in Caller :
        /\ door[c].at = "retireLinks" => door[c].subject = owner[door[c].via]
        /\ door[c].at = "retireCodes" =>
             \A h \in Handle : door[c].via \in beside[h] => door[c].subject = owner[h]

OwnedBy(owner) ==
    RowsOwned(owner) /\ IssuersOwned(owner) /\ LinksOwned(owner) /\ DoorsOwned(owner)

Owned == \E owner \in [Handle -> Subject] : OwnedBy(owner)

\* A request that guesses at a code does so for the subject of its row.
Aimed == \A c \in Verifying : call[c].row.identifier = CodeOf(call[c].subject)

DoorsInv == HybridTypeOK /\ Inv /\ Ledger /\ Aimed /\ Spent /\ Owned

\* The one row of a link is gone once it was claimed.
LEMMA FollowedIsGone ==
    ASSUME Inv, Ledger, NEW s \in Subject, NEW k \in Link, ClaimLink(s, k)
    PROVE  ~Gone(k) /\ Gone(k)' /\ \E r \in Rows : r.secret = k /\ r.identifier = LinkOf(s)
<1>1. PICK v \in Claimable(table, LinkOf(s), k, now) : TRUE
  BY DEF ClaimLink
<1>2. v \in table /\ v.secret = k /\ v.identifier = LinkOf(s)
  BY <1>1 DEF Claimable
<1>3. v \in Rows /\ k \in issued \cup minted
  BY <1>2 DEF Rows, Ledger
<1>4. table' \subseteq table \ {v} /\ call' = call /\ issued' = issued /\ minted' = minted
  BY <1>1 DEF ClaimLink
<1>5. \A w \in table : w.secret = k => w = v
  <2>1. v \notin Codes
    BY <1>2, SecretsOfRows DEF Inv
  <2>2. \A w \in table : w.secret = k => w \in LinkRows
    BY SecretsOfRows DEF Inv, LinkRows
  <2> QED BY <1>2, <2>1, <2>2 DEF Ledger, LinkRows
<1>6. \A c \in Caller : call[c].row.secret # k
  BY SecretsOfRows, SecretsApart DEF Inv
<1>7. \A r \in Rows' : r.secret # k
  BY <1>4, <1>5, <1>6 DEF Rows, Verifying
<1> QED BY <1>2, <1>3, <1>4, <1>7 DEF Gone

\* The one row of a code is gone once it was answered.
LEMMA AnsweredIsGone ==
    ASSUME Inv, Ledger, NEW c \in Caller, CompareRight(c), NEW h, h = call[c].row.secret
    PROVE  ~Gone(h) /\ Gone(h)'
<1>1. h \in Handle
  BY SecretsOfRows DEF Inv
<1>2. /\ c \in Verifying /\ call' = [call EXCEPT ![c] = NoCall]
      /\ table' = table /\ issued' = issued /\ minted' = minted
  BY DEF CompareRight, Verifying
<1>3. NoCall.at = "idle"
  BY DEF NoCall
<1>4. \A d \in Verifying' : d # c /\ d \in Verifying /\ call'[d] = call[d]
  BY <1>2, <1>3 DEF Verifying, Inv, TypeOK
<1>5. call[c].row \in Rows /\ h \in issued
  BY <1>2 DEF Rows, Inv, Carried, Known
<1>6. \A v \in table : v.secret # h
  BY <1>1, <1>2, SecretsOfRows DEF Inv, Carried, OneCarrier, LinkRows
<1>7. \A d \in Verifying' : call'[d].row.secret # h
  BY <1>2, <1>4 DEF Inv, Carried, OneCarrier
<1>8. \A r \in Rows' : r.secret # h
  BY <1>2, <1>6, <1>7 DEF Rows
<1> QED BY <1>2, <1>5, <1>8 DEF Gone

\* A step that takes on no debt and lets nobody in spends nothing twice.
LEMMA IdleSpendsNothing ==
    ASSUME Spent, \A x : Gone(x) => Gone(x)',
           entries' = entries, shut' = shut,
           \A c \in Finishing' : c \in Finishing /\ door'[c] = door[c]
    PROVE  Spent'
BY DEF Spent

\* A request that takes on a credential just gone is the only one to have it.
LEMMA TakingSpendsOnce ==
    ASSUME Spent, \A x : Gone(x) => Gone(x)', door \in [Caller -> DoorState],
           NEW c \in Caller, NEW x \in Credential, NEW d,
           ~Gone(x), Gone(x)', d.via = x, door' = [door EXCEPT ![c] = d],
           entries' = entries, shut' = shut
    PROVE  Spent'
<1>1. \A e \in Finishing' : e # c => e \in Finishing /\ door'[e] = door[e]
  BY DEF Finishing
<1>2. door'[c].via = x
  OBVIOUS
<1>3. entries[x] = 0 /\ x \notin shut /\ \A e \in Finishing : door[e].via # x
  BY DEF Spent
<1> QED BY <1>1, <1>2, <1>3 DEF Spent

\* A request that is done signs in once with what it had, and may shut more.
LEMMA DoneSpendsOnce ==
    ASSUME Spent, \A x : Gone(x) => Gone(x)',
           door \in [Caller -> DoorState], entries \in [Credential -> Nat],
           NEW c \in Finishing, door' = [door EXCEPT ![c] = Closed],
           Enter(door[c].via),
           \A x \in shut' : \/ x \in shut
                            \/ Gone(x)' /\ \A e \in Finishing : door[e].via # x
    PROVE  Spent'
<1>0. PICK x : x = door[c].via
  OBVIOUS
<1>1. c \in Caller /\ x \in Credential
  BY <1>0 DEF Finishing, DoorState
<1>2. Gone(x)' /\ entries[x] = 0
  BY <1>0 DEF Spent
<1>3. Closed.at = "none"
  BY DEF Closed
<1>4. \A e \in Finishing' : e # c /\ e \in Finishing /\ door'[e] = door[e]
  BY <1>1, <1>3 DEF Finishing
<1>5. \A e \in Finishing' : door'[e].via # x
  BY <1>0, <1>4 DEF Spent
<1>6. \A y \in Credential : y # x => entries'[y] = entries[y]
  BY <1>0, <1>1 DEF Enter
<1>7. entries'[x] \in {0, 1}
  BY <1>0, <1>1, <1>2 DEF Enter
<1>8. (\A e \in Finishing : Gone(door[e].via) /\ entries[door[e].via] = 0)'
  <2> SUFFICES ASSUME NEW e \in Finishing'
               PROVE  (Gone(door[e].via) /\ entries[door[e].via] = 0)'
    OBVIOUS
  <2>0. PICK y : y = door[e].via
    OBVIOUS
  <2>1. e \in Finishing /\ door'[e] = door[e] /\ y # x
    BY <1>4, <1>5, <2>0
  <2>2. y \in Credential
    BY <2>0, <2>1 DEF Finishing, DoorState
  <2>3. Gone(y)' /\ entries'[y] = 0
    BY <1>6, <2>0, <2>1, <2>2 DEF Spent
  <2> QED BY <2>0, <2>1, <2>3
<1>9. \A e, f \in Finishing' : door'[e].via = door'[f].via => e = f
  BY <1>4 DEF Spent
<1>10. \A y \in Credential : entries'[y] = 0 \/ (entries'[y] = 1 /\ Gone(y)')
  BY <1>2, <1>6, <1>7 DEF Spent
<1>11. \A y \in shut' : Gone(y)' /\ \A e \in Finishing' : door'[e].via # y
  BY <1>4 DEF Spent
<1> QED BY <1>8, <1>9, <1>10, <1>11 DEF Spent
\* A guess keeps its aim, and a request is about to answer with a handle only
\* when it has just inserted it.
LEMMA CallsMove ==
    ASSUME Inv, Aimed, [Next]_vars
    PROVE  /\ Aimed'
           /\ \A d \in Caller : call'[d].at = "return" => call'[d] = call[d] \/ InsertCode(d)
<1> DEFINE Goal == /\ Aimed'
                   /\ \A d \in Caller :
                        call'[d].at = "return" => call'[d] = call[d] \/ InsertCode(d)
<1> SUFFICES Goal
  OBVIOUS
<1>1. ASSUME NEW c \in Caller, NEW r, call' = [call EXCEPT ![c] = r],
             r.at \in {"compare", "restore"} => r.row.identifier = CodeOf(r.subject),
             r.at = "return" => InsertCode(c)
      PROVE  Goal
  <2>1. call'[c] = r /\ \A d \in Caller : d # c => call'[d] = call[d]
    BY <1>1 DEF Inv, TypeOK
  <2> QED BY <1>1, <2>1 DEF Aimed, Verifying
<1>2. ASSUME call' = call PROVE Goal
  BY <1>2 DEF Aimed, Verifying
<1>3. NoCall.at = "idle"
  BY DEF NoCall
<1>4. ASSUME NEW c \in Caller, NEW s \in Subject, RetireLinks(c, s) PROVE Goal
  <2> DEFINE r == [NoCall EXCEPT !.at = "retire", !.subject = s]
  <2>1. r.at = "retire" /\ call' = [call EXCEPT ![c] = r]
    BY <1>4, SentinelsAreTyped DEF CallState, RetireLinks
  <2> HIDE DEF r, Goal
  <2> QED BY <1>1, <2>1
<1>5. ASSUME NEW c \in Caller, RetireCodes(c) PROVE Goal
  <2> DEFINE r == [call[c] EXCEPT !.at = "insert"]
  <2>1. r.at = "insert" /\ call' = [call EXCEPT ![c] = r]
    BY <1>5 DEF Inv, TypeOK, CallState, RetireCodes
  <2> HIDE DEF r, Goal
  <2> QED BY <1>1, <2>1
<1>6. ASSUME NEW c \in Caller, InsertCode(c) PROVE Goal
  <2>1. call'[c].at = "return" /\ \A d \in Caller \ {c} : call'[d] = call[d]
    BY <1>6, InsertBringsACode
  <2> QED BY <1>6, <2>1 DEF Aimed, Verifying
<1>7. ASSUME NEW c \in Caller, ReturnCode(c) \/ CompareRight(c) \/ Abandon(c) \/ Restore(c)
      PROVE  Goal
  <2>1. call' = [call EXCEPT ![c] = NoCall]
    BY <1>7 DEF ReturnCode, CompareRight, Abandon, Restore
  <2> HIDE DEF Goal
  <2> QED BY <1>1, <1>3, <2>1
<1>8. ASSUME NEW c \in Caller, NEW h \in Handle, Claim(c, h) PROVE Goal
  <2>1. PICK s \in Subject : \E row \in Claimable(table, CodeOf(s), h, now) :
          call' = [call EXCEPT ![c] = [NoCall EXCEPT !.at = "compare", !.subject = s,
                                                     !.row = row]]
    BY <1>8 DEF Claim
  <2>2. PICK row \in Claimable(table, CodeOf(s), h, now) :
          call' = [call EXCEPT ![c] = [NoCall EXCEPT !.at = "compare", !.subject = s,
                                                     !.row = row]]
    BY <2>1
  <2> DEFINE r == [NoCall EXCEPT !.at = "compare", !.subject = s, !.row = row]
  <2>3. r.at = "compare" /\ r.subject = s /\ r.row = row /\ row.identifier = CodeOf(s)
    BY <2>2, SentinelsAreTyped DEF CallState, Claimable
  <2> HIDE DEF r, Goal
  <2>4. call' = [call EXCEPT ![c] = r]
    BY <2>2 DEF r
  <2> QED BY <1>1, <2>3, <2>4
<1>9. ASSUME NEW c \in Caller, CompareWrong(c) \/ CompareFault(c) PROVE Goal
  <2> DEFINE p == call[c].row.payload
  <2>1. p \in 1..Attempts /\ Attempts \in Nat /\ c \in Verifying
    BY <1>9, BudgetIsPositive DEF CompareWrong, CompareFault, Verifying, Inv, TypeOK,
                                  CallState, CodeRow
  <2>2. PICK r : /\ call' = [call EXCEPT ![c] = r]
                 /\ r = NoCall \/ \E k \in 1..Attempts : r = Restoring(c, k)
    <3>1. p > 1 => p - 1 \in 1..Attempts
      BY <2>1
    <3> QED BY <1>9, <2>1, <3>1 DEF CompareWrong, CompareFault
  <2>3. ASSUME NEW k \in 1..Attempts, r = Restoring(c, k)
        PROVE  r.at = "restore" /\ r.row.identifier = CodeOf(r.subject)
    BY <2>1, <2>3, RestoringKeepsTheRow DEF Inv, SameRow, Aimed
  <2> HIDE DEF Goal
  <2> QED BY <1>1, <1>3, <2>2, <2>3
<1>10. ASSUME \/ Tick \/ DeleteExpired \/ UNCHANGED vars
              \/ \E s \in Subject : Retire(CodeOf(s)) \/ Retire(LinkOf(s)) \/ MintLink(s)
              \/ \E s \in Subject, k \in Link : ClaimLink(s, k)
       PROVE  Goal
  <2>1. call' = call
    BY <1>10 DEF Tick, DeleteExpired, vars, Retire, MintLink, ClaimLink
  <2> QED BY <1>2, <2>1
<1> HIDE DEF Goal
<1> QED
  BY <1>4, <1>5, <1>6, <1>7, <1>8, <1>9, <1>10 DEF Next, IssueCode, VerifyCode

\* Where no row is brought and no door takes on a debt, ownership stays.
LEMMA QuietIsOwned ==
    ASSUME NEW owner, OwnedBy(owner), BringsNone, beside' = beside, DoorsOwned(owner)',
           \A d \in Caller : call'[d].at = "return" => call'[d] = call[d]
    PROVE  OwnedBy(owner)'
<1>1. RowsOwned(owner)'
  BY DEF OwnedBy, RowsOwned, BringsNone, KnownRow, SameRow
<1>2. IssuersOwned(owner)'
  BY DEF OwnedBy, IssuersOwned, BringsNone
<1>3. LinksOwned(owner)'
  BY DEF OwnedBy, LinksOwned, BringsNone, KnownRow, SameRow
<1> QED BY <1>1, <1>2, <1>3 DEF OwnedBy

LEMMA IdleDoorsAreOwned ==
    ASSUME NEW owner, DoorsOwned(owner), beside' = beside,
           \A c \in Finishing' : c \in Finishing /\ door'[c] = door[c]
    PROVE  DoorsOwned(owner)'
BY DEF DoorsOwned, Finishing

\* A code just inserted is its issuer's subject's; nothing spoke of it before.
LEMMA InsertedIsOwned ==
    ASSUME DoorsInv, NEW c \in Caller, InsertCode(c), UNCHANGED <<door, beside>>, Aimed',
           \A d \in Caller : call'[d].at = "return" => call'[d] = call[d] \/ InsertCode(d)
    PROVE  Owned'
<1>1. PICK owner \in [Handle -> Subject] : OwnedBy(owner)
  BY DEF DoorsInv, Owned
<1>2. PICK h \in Handle : /\ BringsCode(call[c].subject, h)
                          /\ call'[c].row.secret = h
                          /\ call'[c].subject = call[c].subject
                          /\ \A d \in Caller \ {c} : call'[d] = call[d]
  BY InsertBringsACode DEF DoorsInv
<1>3. PICK s \in Subject : s = call[c].subject
  BY DEF DoorsInv, Inv, TypeOK, CallState
<1> DEFINE o == [owner EXCEPT ![h] = s]
<1>4. /\ o \in [Handle -> Subject] /\ o[h] = s
      /\ \A g \in Handle : g # h => o[g] = owner[g]
  OBVIOUS
<1>5. h \notin issued /\ issued' = issued \cup {h} /\ minted' = minted
  BY <1>2 DEF BringsCode
<1> HIDE DEF o
<1>6. RowsOwned(o)'
  <2> SUFFICES ASSUME NEW r \in Rows', r.secret \in Handle
               PROVE  r.identifier = CodeOf(o[r.secret])
    BY DEF RowsOwned
  <2>1. CASE KnownRow(r)
    <3>1. PICK q \in Rows : q.secret = r.secret /\ q.identifier = r.identifier
      BY <2>1 DEF KnownRow, SameRow
    <3>2. q.secret # h
      BY <1>5, <3>1, SecretsApart DEF DoorsInv, Ledger, Inv, TypeOK
    <3> QED BY <1>1, <1>4, <3>1, <3>2 DEF OwnedBy, RowsOwned
  <2>2. CASE r.secret = h /\ r.identifier = CodeOf(call[c].subject)
    BY <1>3, <1>4, <2>2
  <2> QED BY <1>2, <2>1, <2>2 DEF BringsCode
<1>7. IssuersOwned(o)'
  <2> SUFFICES ASSUME NEW d \in Caller, call'[d].at = "return"
               PROVE  call'[d].row.secret \in issued' /\ call'[d].subject = o[call'[d].row.secret]
    BY DEF IssuersOwned
  <2>1. CASE d = c
    BY <1>2, <1>3, <1>4, <1>5, <2>1
  <2>2. CASE d # c
    <3>1. call'[d] = call[d]
      BY <1>2, <2>2
    <3>2. call[d].row.secret \in issued /\ call[d].subject = owner[call[d].row.secret]
      BY <1>1, <3>1 DEF OwnedBy, IssuersOwned
    <3>3. call[d].row.secret \in Handle
      BY SecretsOfRows DEF DoorsInv, Inv
    <3> QED BY <1>4, <1>5, <3>1, <3>2, <3>3
  <2> QED BY <2>1, <2>2
<1>8. LinksOwned(o)'
  <2> SUFFICES ASSUME NEW g \in Handle, NEW k \in beside'[g]
               PROVE  /\ g \in issued' /\ k \in minted'
                      /\ \A r \in Rows' : r.secret = k => r.identifier = LinkOf(o[g])
    BY DEF LinksOwned
  <2>1. k \in beside[g]
    OBVIOUS
  <2>2. /\ g \in issued /\ k \in minted
        /\ \A r \in Rows : r.secret = k => r.identifier = LinkOf(owner[g])
    BY <1>1, <2>1 DEF OwnedBy, LinksOwned
  <2>3. k # h
    BY <2>2, SecretsApart DEF DoorsInv, Inv, TypeOK
  <2> QED BY <1>2, <1>4, <1>5, <2>2, <2>3 DEF BringsCode, KnownRow, SameRow
<1>9. DoorsOwned(o)'
  <2> SUFFICES ASSUME NEW d \in Caller
               PROVE  /\ door[d].at = "retireLinks" => door[d].subject = o[door[d].via]
                      /\ door[d].at = "retireCodes" =>
                           \A g \in Handle : door[d].via \in beside[g] => door[d].subject = o[g]
    BY DEF DoorsOwned
  <2>1. door[d].at = "retireLinks" => door[d].subject = o[door[d].via]
    <3> HAVE door[d].at = "retireLinks"
    <3>1. door[d].via \in Handle /\ door[d].via \in issued \cup minted
      BY DEF DoorsInv, HybridTypeOK, Spent, Finishing, Gone
    <3>2. door[d].via # h
      BY <1>5, <3>1, SecretsApart DEF DoorsInv, Inv, TypeOK
    <3> QED BY <1>1, <1>4, <3>1, <3>2 DEF OwnedBy, DoorsOwned
  <2>2. ASSUME NEW g \in Handle, door[d].at = "retireCodes", door[d].via \in beside[g]
        PROVE  door[d].subject = o[g]
    <3>1. g \in issued /\ door[d].subject = owner[g]
      BY <1>1, <2>2 DEF OwnedBy, LinksOwned, DoorsOwned
    <3> QED BY <1>4, <1>5, <3>1
  <2> QED BY <2>1, <2>2
<1> QED BY <1>4, <1>6, <1>7, <1>8, <1>9 DEF Owned, OwnedBy
\* A link just minted beside a code is the code's subject's.
LEMMA MintedIsOwned ==
    ASSUME DoorsInv, NEW c \in Caller, MintBeside(c)
    PROVE  Owned' /\ Spent'
<1>1. PICK owner \in [Handle -> Subject] : OwnedBy(owner)
  BY DEF DoorsInv, Owned
<1>2. PICK s \in Subject : s = call[c].subject
  BY DEF DoorsInv, Inv, TypeOK, CallState
<1>3. PICK h \in Handle : h = call[c].row.secret
  BY SecretsOfRows DEF DoorsInv, Inv
<1>4. MintLink(s) /\ call' = call /\ issued' = issued
  BY <1>2 DEF MintBeside, MintLink
<1>5. PICK k \in Link : BringsLink(s, k)
  BY <1>4, MintingBringsALink DEF DoorsInv
<1>6. k \notin minted /\ minted' = minted \cup {k} /\ minted' \ minted = {k}
  BY <1>5 DEF BringsLink
<1>7. beside' = [beside EXCEPT ![h] = @ \cup {k}]
  BY <1>3, <1>6 DEF MintBeside
<1>8. h \in issued /\ s = owner[h]
  BY <1>1, <1>2, <1>3 DEF OwnedBy, IssuersOwned, MintBeside
<1>9. /\ beside \in [Handle -> SUBSET Link]
      /\ \A g \in Handle : beside'[g] = IF g = h THEN beside[g] \cup {k} ELSE beside[g]
  BY <1>7 DEF DoorsInv, HybridTypeOK
<1>10. \A r \in Rows : r.secret # k
  BY <1>6, SecretsApart DEF DoorsInv, Ledger, Inv, TypeOK
<1>11. \A d \in Finishing : door[d].via # k
  BY <1>6, SecretsApart DEF DoorsInv, Spent, Gone, Inv, TypeOK
<1>12. Finishing' \subseteq Finishing /\ \A d \in Finishing' : door'[d] = door[d]
  <2>1. Owing("minted", s, h).at = "minted"
    BY DEF Owing
  <2>2. door' = [door EXCEPT ![c] = Owing("minted", s, h)]
    BY <1>2, <1>3 DEF MintBeside
  <2> QED BY <2>1, <2>2 DEF Finishing, DoorsInv, HybridTypeOK
<1>13. RowsOwned(owner)'
  BY <1>1, <1>5, SecretsApart DEF OwnedBy, RowsOwned, BringsLink, KnownRow, SameRow
<1>14. IssuersOwned(owner)'
  BY <1>1, <1>4 DEF OwnedBy, IssuersOwned
<1>15. LinksOwned(owner)'
  <2> SUFFICES ASSUME NEW g \in Handle, NEW l \in beside'[g]
               PROVE  /\ g \in issued' /\ l \in minted'
                      /\ \A r \in Rows' : r.secret = l => r.identifier = LinkOf(owner[g])
    BY DEF LinksOwned
  <2>1. CASE l = k
    <3>1. g = h
      BY <1>1, <1>6, <1>9, <2>1 DEF OwnedBy, LinksOwned
    <3>2. \A r \in Rows' : r.secret = k => r.identifier = LinkOf(s)
      BY <1>5, <1>10 DEF BringsLink, KnownRow, SameRow
    <3> QED BY <1>4, <1>6, <1>8, <2>1, <3>1, <3>2
  <2>2. CASE l # k
    <3>1. l \in beside[g]
      BY <1>9, <2>2
    <3>2. /\ g \in issued /\ l \in minted
          /\ \A r \in Rows : r.secret = l => r.identifier = LinkOf(owner[g])
      BY <1>1, <3>1 DEF OwnedBy, LinksOwned
    <3> QED BY <1>4, <1>5, <1>6, <2>2, <3>2 DEF BringsLink, KnownRow, SameRow
  <2> QED BY <2>1, <2>2
<1>16. DoorsOwned(owner)'
  <2> SUFFICES ASSUME NEW d \in Caller
               PROVE  /\ door'[d].at = "retireLinks" => door'[d].subject = owner[door'[d].via]
                      /\ door'[d].at = "retireCodes" =>
                           \A g \in Handle :
                               door'[d].via \in beside'[g] => door'[d].subject = owner[g]
    BY DEF DoorsOwned
  <2>1. CASE d \in Finishing'
    <3>1. door'[d] = door[d] /\ door[d].via # k
      BY <1>11, <1>12, <2>1
    <3>2. \A g \in Handle : door'[d].via \in beside'[g] => door[d].via \in beside[g]
      BY <1>9, <3>1
    <3> QED BY <1>1, <3>1, <3>2 DEF OwnedBy, DoorsOwned
  <2>2. CASE d \notin Finishing'
    BY <2>2 DEF Finishing
  <2> QED BY <2>1, <2>2
<1>17. Owned'
  BY <1>13, <1>14, <1>15, <1>16 DEF Owned, OwnedBy
<1>18. Spent'
  <2>1. [Next]_vars
    BY <1>4 DEF Next
  <2>2. \A x : Gone(x) => Gone(x)'
    BY <2>1, GoneForGood DEF DoorsInv
  <2>3. entries' = entries /\ shut' = shut
    BY DEF MintBeside
  <2> QED BY <1>12, <2>2, <2>3, IdleSpendsNothing DEF DoorsInv
<1> QED BY <1>17, <1>18

\* What every step of Challenges that inserts and mints nothing leaves to show.
LEMMA QuietStep ==
    ASSUME DoorsInv, NEW owner \in [Handle -> Subject], OwnedBy(owner),
           [Next]_vars, beside' = beside, DoorsOwned(owner)', BringsNone,
           ~ \E c \in Caller : InsertCode(c)
    PROVE  Owned'
<1>1. \A d \in Caller : call'[d].at = "return" => call'[d] = call[d]
  BY CallsMove DEF DoorsInv
<1>2. OwnedBy(owner)'
  BY <1>1, QuietIsOwned
<1> QED BY <1>2 DEF Owned

LEMMA AnswerKeeps ==
    ASSUME DoorsInv, NEW c \in Caller, AnswerCode(c)
    PROVE  Owned' /\ Spent'
<1>1. PICK owner \in [Handle -> Subject] : OwnedBy(owner)
  BY DEF DoorsInv, Owned
<1>2. PICK h \in Handle : h = call[c].row.secret
  BY SecretsOfRows DEF DoorsInv, Inv
<1>3. PICK s \in Subject : s = call[c].subject
  BY DEF DoorsInv, Inv, TypeOK, CallState
<1>4. CompareRight(c) /\ beside' = beside /\ entries' = entries /\ shut' = shut
  BY DEF AnswerCode
<1>5. /\ [Next]_vars /\ BringsNone
      /\ \A x : Gone(x) => Gone(x)'
  <2>1. [Next]_vars
    BY <1>4 DEF Next, VerifyCode
  <2>2. LetsGo
    BY <1>4, LettingGo DEF DoorsInv, Inv
  <2>3. table' \subseteq table /\ minted' = minted
    BY <1>4 DEF CompareRight
  <2> QED BY <2>1, <2>2, <2>3, LosingBringsNone, GoneForGood DEF DoorsInv
<1>6. ~Gone(h) /\ Gone(h)'
  BY <1>2, <1>4, AnsweredIsGone DEF DoorsInv
<1>7. s = owner[h]
  <2>1. c \in Verifying /\ call[c].row \in Rows
    BY <1>4 DEF CompareRight, Verifying, Rows
  <2>2. call[c].row.identifier = CodeOf(s) /\ call[c].row.identifier = CodeOf(owner[h])
    BY <1>1, <1>2, <1>3, <2>1 DEF DoorsInv, Aimed, OwnedBy, RowsOwned
  <2> QED BY <2>2, IdentifiersTellApart
<1>8. PICK d : /\ door' = [door EXCEPT ![c] = d]
               /\ d = Closed \/ d = Owing("retireLinks", s, h)
  BY <1>2, <1>3 DEF AnswerCode
<1>9. /\ door \in [Caller -> DoorState] /\ door'[c] = d
      /\ \A e \in Caller : e # c => door'[e] = door[e]
  BY <1>8 DEF DoorsInv, HybridTypeOK
<1>10. DoorsOwned(owner)'
  BY <1>1, <1>4, <1>7, <1>8, <1>9 DEF OwnedBy, DoorsOwned, Closed, Owing
<1>11. ~ \E e \in Caller : InsertCode(e)
  <2>1. issued' = issued
    BY <1>5 DEF BringsNone
  <2> QED BY <2>1 DEF InsertCode
<1>12. Owned'
  BY <1>1, <1>4, <1>5, <1>10, <1>11, QuietStep
<1>13. CASE d = Closed
  <2>1. \A e \in Finishing' : e \in Finishing /\ door'[e] = door[e]
    BY <1>9, <1>13 DEF Finishing, Closed
  <2> QED BY <1>4, <1>5, <1>12, <2>1, IdleSpendsNothing DEF DoorsInv
<1>14. CASE d = Owing("retireLinks", s, h)
  <2>1. d.via = h /\ h \in Credential
    BY <1>14 DEF Owing, Credential
  <2> QED BY <1>4, <1>5, <1>6, <1>8, <1>9, <1>12, <2>1, TakingSpendsOnce DEF DoorsInv
<1> QED BY <1>8, <1>13, <1>14

LEMMA FollowKeeps ==
    ASSUME DoorsInv, NEW c \in Caller, NEW k \in Link, Follow(c, k)
    PROVE  Owned' /\ Spent'
<1>1. PICK owner \in [Handle -> Subject] : OwnedBy(owner)
  BY DEF DoorsInv, Owned
<1>2. PICK s \in Subject : /\ ClaimLink(s, k)
                           /\ door' = [door EXCEPT ![c] = Owing("retireCodes", s, k)]
  BY DEF Follow
<1>3. beside' = beside /\ entries' = entries /\ shut' = shut
  BY DEF Follow
<1>4. /\ [Next]_vars /\ BringsNone
      /\ \A x : Gone(x) => Gone(x)'
  <2>1. [Next]_vars
    BY <1>2 DEF Next
  <2>2. LetsGo
    BY <1>2, LettingGo DEF DoorsInv, Inv
  <2>3. table' \subseteq table /\ minted' = minted
    BY <1>2 DEF ClaimLink
  <2> QED BY <2>1, <2>2, <2>3, LosingBringsNone, GoneForGood DEF DoorsInv
<1>5. /\ ~Gone(k) /\ Gone(k)'
      /\ \E r \in Rows : r.secret = k /\ r.identifier = LinkOf(s)
  BY <1>2, FollowedIsGone DEF DoorsInv
<1>6. \A h \in Handle : k \in beside[h] => s = owner[h]
  <2> TAKE h \in Handle
  <2> HAVE k \in beside[h]
  <2>1. LinkOf(s) = LinkOf(owner[h])
    BY <1>1, <1>5 DEF OwnedBy, LinksOwned
  <2> QED BY <2>1, IdentifiersTellApart
<1> DEFINE d == Owing("retireCodes", s, k)
<1>7. d.at = "retireCodes" /\ d.subject = s /\ d.via = k /\ k \in Credential
  BY DEF Owing, Credential
<1> HIDE DEF d
<1>8. /\ door \in [Caller -> DoorState] /\ door'[c] = d
      /\ \A e \in Caller : e # c => door'[e] = door[e]
  BY <1>2 DEF DoorsInv, HybridTypeOK, d
<1>9. DoorsOwned(owner)'
  BY <1>1, <1>3, <1>6, <1>7, <1>8 DEF OwnedBy, DoorsOwned
<1>10. ~ \E e \in Caller : InsertCode(e)
  <2>1. issued' = issued
    BY <1>4 DEF BringsNone
  <2> QED BY <2>1 DEF InsertCode
<1>11. Owned'
  BY <1>1, <1>3, <1>4, <1>9, <1>10, QuietStep
<1>12. Spent'
  <2>1. door' = [door EXCEPT ![c] = d]
    BY <1>2 DEF d
  <2> QED BY <1>3, <1>4, <1>5, <1>7, <1>8, <2>1, TakingSpendsOnce DEF DoorsInv
<1> QED BY <1>11, <1>12
\* Finishing through one door: the other's credentials are shut, and gone.
LEMMA FinishKeeps ==
    ASSUME DoorsInv, NEW c \in Caller, FinishCode(c) \/ FinishLink(c)
    PROVE  Owned' /\ Spent'
<1>1. PICK owner \in [Handle -> Subject] : OwnedBy(owner)
  BY DEF DoorsInv, Owned
<1>2. PICK s \in Subject : s = door[c].subject
  BY DEF DoorsInv, HybridTypeOK, DoorState
<1>3. PICK x : x = door[c].via
  OBVIOUS
<1>4. /\ c \in Finishing /\ beside' = beside /\ door' = [door EXCEPT ![c] = Closed]
      /\ Enter(x)
  BY <1>3 DEF FinishCode, FinishLink, Finishing
<1>5. PICK i : /\ Retire(i) /\ i \in {CodeOf(s), LinkOf(s)}
               /\ FinishCode(c) => i = LinkOf(s)
               /\ FinishLink(c) => i = CodeOf(s)
  BY <1>2 DEF FinishCode, FinishLink
<1>6. /\ table' = {v \in table : v.identifier # i} /\ call' = call
      /\ issued' = issued /\ minted' = minted
  BY <1>5 DEF Retire, Retired
<1>7. /\ [Next]_vars /\ BringsNone
      /\ \A y : Gone(y) => Gone(y)'
  <2>1. [Next]_vars
    BY <1>5 DEF Next
  <2>2. LetsGo
    BY <1>5, LettingGo DEF DoorsInv, Inv
  <2>3. table' \subseteq table
    BY <1>6
  <2> QED BY <1>6, <2>1, <2>2, <2>3, LosingBringsNone, GoneForGood DEF DoorsInv
<1>8. \A e \in Finishing' : e \in Finishing /\ door'[e] = door[e]
  BY <1>4 DEF Finishing, DoorsInv, HybridTypeOK, Closed
<1>9. Owned'
  <2>1. DoorsOwned(owner)'
    BY <1>1, <1>4, <1>8, IdleDoorsAreOwned DEF OwnedBy
  <2>2. ~ \E e \in Caller : InsertCode(e)
    BY <1>6 DEF InsertCode
  <2> QED BY <1>1, <1>4, <1>7, <2>1, <2>2, QuietStep
<1>10. \A y \in shut' : \/ y \in shut
                        \/ Gone(y)' /\ \A e \in Finishing : door[e].via # y
  <2> SUFFICES ASSUME NEW y \in shut', y \notin shut
               PROVE  Gone(y)' /\ \A e \in Finishing : door[e].via # y
    OBVIOUS
  <2>0. ~InHand(y) /\ \A e \in Finishing : door[e].via # y
    <3>1. ~InHand(y)
      BY DEF FinishCode, FinishLink
    <3> QED BY <3>1 DEF InHand, Finishing
  <2>1. CASE FinishCode(c)
    <3>1. x \in Handle /\ s = owner[x] /\ y \in beside[x]
      BY <1>1, <1>2, <1>3, <2>1
         DEF FinishCode, OwnedBy, DoorsOwned, DoorsInv, HybridTypeOK
    <3>2. y \in minted /\ \A r \in Rows : r.secret = y => r.identifier = LinkOf(s)
      BY <1>1, <3>1 DEF OwnedBy, LinksOwned
    <3>3. \A r \in table' : r.secret # y
      BY <1>5, <1>6, <2>1, <3>2 DEF Rows
    <3>4. \A d \in Caller : call'[d].row.secret # y
      BY <1>6, <3>2, SecretsOfRows, SecretsApart DEF DoorsInv, Inv, TypeOK
    <3> QED BY <1>6, <2>0, <3>2, <3>3, <3>4 DEF Gone, Rows, Verifying
  <2>2. CASE FinishLink(c)
    <3>1. y \in Handle /\ x \in beside[y]
      BY <1>3, <2>2 DEF FinishLink
    <3>2. s = owner[y]
      BY <1>1, <1>2, <1>3, <2>2, <3>1 DEF FinishLink, OwnedBy, DoorsOwned
    <3>3. y \in issued /\ \A r \in Rows : r.secret = y => r.identifier = CodeOf(s)
      BY <1>1, <3>1, <3>2 DEF OwnedBy, LinksOwned, RowsOwned
    <3>4. \A r \in table' : r.secret # y
      BY <1>5, <1>6, <2>2, <3>3 DEF Rows
    <3>5. \A d \in Verifying' : call'[d].row.secret # y
      BY <1>6, <2>0 DEF InHand, Verifying
    <3>6. Gone(y)'
      BY <1>6, <3>3, <3>4, <3>5 DEF Gone, Rows
    <3> QED BY <2>0, <3>6
  <2> QED BY <2>1, <2>2
<1>11. Spent'
  <2>1. Spent /\ door \in [Caller -> DoorState] /\ entries \in [Credential -> Nat]
    BY DEF DoorsInv, HybridTypeOK
  <2>2. c \in Finishing /\ door' = [door EXCEPT ![c] = Closed] /\ Enter(door[c].via)
    BY <1>3, <1>4
  <2>3. \A y : Gone(y) => Gone(y)'
    BY <1>7
  <2> QED BY <1>10, <2>1, <2>2, <2>3, DoneSpendsOnce
<1> QED BY <1>9, <1>11

\* Every other step leaves the histories alone and can only close doors.
LEMMA OtherwiseKeeps ==
    ASSUME DoorsInv, [Next]_vars, UNCHANGED <<beside, entries, shut>>,
           ~ \E s \in Subject : MintLink(s),
           \A c \in Finishing' : c \in Finishing /\ door'[c] = door[c],
           (\E c \in Caller : InsertCode(c)) => door' = door
    PROVE  Owned' /\ Spent'
<1>1. \A x : Gone(x) => Gone(x)'
  BY GoneForGood DEF DoorsInv
<1>2. Spent'
  BY <1>1, IdleSpendsNothing DEF DoorsInv
<1>3. ASSUME NEW c \in Caller, InsertCode(c) PROVE Owned'
  BY <1>3, CallsMove, InsertedIsOwned DEF DoorsInv
<1>4. CASE ~ \E c \in Caller : InsertCode(c)
  <2>1. BringsNone
    BY <1>4, WhereRowsComeFrom DEF DoorsInv
  <2>2. PICK owner \in [Handle -> Subject] : OwnedBy(owner)
    BY DEF DoorsInv, Owned
  <2>3. DoorsOwned(owner)'
    BY <2>2, IdleDoorsAreOwned DEF OwnedBy
  <2> QED BY <1>2, <1>4, <2>1, <2>2, <2>3, QuietStep
<1> QED BY <1>2, <1>3, <1>4

LEMMA HybridKeeps ==
    ASSUME DoorsInv, [HybridNext]_hybridVars
    PROVE  Owned' /\ Spent'
<1>0. [Next]_vars
  BY HybridStep DEF DoorsInv
<1>1. ASSUME minted' = minted PROVE ~ \E s \in Subject : MintLink(s)
  BY <1>1 DEF MintLink
<1>2. ASSUME NEW c \in Caller, Challenge(c) \/ Guess(c) PROVE Owned' /\ Spent'
  <2>1. minted' = minted
    BY <1>2 DEF Challenge, RetireLinks, RetireCodes, InsertCode, Guess, Claim,
                CompareWrong, CompareFault, Restore
  <2>2. UNCHANGED <<door, beside, entries, shut>>
    BY <1>2 DEF Challenge, Guess
  <2> QED BY <1>0, <1>1, <2>1, <2>2, OtherwiseKeeps DEF Finishing
<1>3. ASSUME NEW c \in Caller, Send(c) \/ GiveUp(c) PROVE Owned' /\ Spent'
  <2>1. minted' = minted /\ issued' = issued /\ UNCHANGED <<beside, entries, shut>>
    BY <1>3 DEF Send, ReturnCode, GiveUp, Abandon, vars
  <2>2. door' = [door EXCEPT ![c] = Closed]
    BY <1>3 DEF Send, GiveUp
  <2>3. \A d \in Finishing' : d \in Finishing /\ door'[d] = door[d]
    BY <2>2 DEF Finishing, DoorsInv, HybridTypeOK, Closed
  <2>4. ~ \E d \in Caller : InsertCode(d)
    BY <2>1 DEF InsertCode
  <2> QED BY <1>0, <1>1, <2>1, <2>3, <2>4, OtherwiseKeeps
<1>4. ASSUME Housekeeping \/ UNCHANGED hybridVars PROVE Owned' /\ Spent'
  <2>1. minted' = minted /\ UNCHANGED <<door, beside, entries, shut>>
    BY <1>4 DEF Housekeeping, Tick, DeleteExpired, hybridVars, vars
  <2> QED BY <1>0, <1>1, <2>1, OtherwiseKeeps DEF Finishing
<1> QED
  BY <1>2, <1>3, <1>4, MintedIsOwned, AnswerKeeps, FollowKeeps, FinishKeeps DEF HybridNext

LEMMA HybridInitDoors == HybridInit => DoorsInv
<1> SUFFICES ASSUME HybridInit PROVE DoorsInv
  OBVIOUS
<1>1. HybridTypeOK /\ Inv
  BY HybridInitTyped, InitInv DEF HybridInit
<1>2. /\ Rows = {} /\ LinkRows = {} /\ Verifying = {} /\ Finishing = {}
  BY DEF HybridInit, Init, Rows, LinkRows, Verifying, Finishing, NoCall, Closed
<1>3. Ledger /\ Aimed
  BY <1>2 DEF Ledger, Aimed
<1>4. Spent
  BY <1>2 DEF Spent, HybridInit
<1>5. Owned
  <2>1. PICK s \in Subject : TRUE
    BY SomeSubject
  <2> DEFINE o == [h \in Handle |-> s]
  <2>2. o \in [Handle -> Subject]
    BY <2>1
  <2> HIDE DEF o
  <2>3. OwnedBy(o)
    BY <1>2 DEF OwnedBy, RowsOwned, IssuersOwned, LinksOwned, DoorsOwned, HybridInit, Init,
                NoCall, Closed
  <2> QED BY <2>2, <2>3 DEF Owned
<1> QED BY <1>1, <1>3, <1>4, <1>5 DEF DoorsInv

LEMMA HybridNextDoors == DoorsInv /\ [HybridNext]_hybridVars => DoorsInv'
<1> SUFFICES ASSUME DoorsInv, [HybridNext]_hybridVars PROVE DoorsInv'
  OBVIOUS
<1>1. [Next]_vars
  BY HybridStep DEF DoorsInv
<1>2. HybridTypeOK' /\ Inv' /\ Ledger' /\ Aimed'
  BY <1>1, HybridNextTyped, NextInv, GoneForGood, CallsMove DEF DoorsInv
<1> QED BY <1>2, HybridKeeps DEF DoorsInv

THEOREM DoorsInvariant == HybridSpec => []DoorsInv
BY HybridInitDoors, HybridNextDoors, PTL DEF HybridSpec

\* A code signs in once and a link signs in once, whoever races whom with it.
THEOREM DoorsOpenOnce == HybridSpec => []EachDoorOnce
<1>1. DoorsInv => EachDoorOnce
  BY DEF DoorsInv, Spent, EachDoorOnce
<1> QED BY <1>1, DoorsInvariant, PTL

\* What a step adds to what a credential has done, a request does that is signing
\* in with it.
LEMMA OnlyFinishingEnters ==
    ASSUME DoorsInv, HybridNext
    PROVE  entries' = entries \/ \E c \in Finishing : Enter(door[c].via)
BY DEF HybridNext, Challenge, MintBeside, Send, Guess, AnswerCode, FinishCode, Follow,
       FinishLink, GiveUp, Housekeeping, Finishing

\* What the other door retired signs nobody in afterwards: not the link beside an
\* answered code, nor the code beside a followed link, whatever is answered and
\* followed then, unless somebody was guessing at it or signing in with it when it
\* was retired.
THEOREM DoorsStayShut == HybridSpec => ShutStaysShut
<1>1. ASSUME DoorsInv, HybridNext
      PROVE  \A x \in shut : entries'[x] = entries[x]
  <2> SUFFICES ASSUME NEW c \in Finishing, Enter(door[c].via), NEW x \in shut
               PROVE  entries'[x] = entries[x]
    BY <1>1, OnlyFinishingEnters
  <2>1. x # door[c].via /\ x \in Credential /\ entries \in [Credential -> Nat]
    BY <1>1 DEF DoorsInv, Spent, HybridTypeOK
  <2> QED BY <2>1 DEF Enter
<1>2. DoorsInv /\ [HybridNext]_hybridVars
        => [\A x \in shut : entries'[x] = entries[x]]_hybridVars
  BY <1>1
<1> QED BY <1>2, DoorsInvariant, PTL DEF HybridSpec, ShutStaysShut

-----------------------------------------------------------------------------
(* Passkeys: what a request holds, by the step it is at *)

\* Past the claim of its ceremony.
PastClaim(q) == q.at \in {"store", "find", "verify", "record", "find user", "settle"}

Asserted(q) == q.at \in {"verify", "record", "find user", "settle"}

\* What a request holds, by the step it is at.
Backed(q) ==
    /\ q.at \in {"create handle", "find again", "issue"} => q.user \in User /\ q.handle \in Id
    /\ q.at \in {"claim registration", "store"} => q.user \in User
    /\ q.at \in {"claim registration", "claim authentication"} \/ PastClaim(q) =>
          /\ q.ceremony \in Ceremony /\ asked[q.ceremony] # None
          /\ q.credential \in CredentialId /\ made[q.credential] # None
    /\ q.at = "store" =>
          /\ asked[q.ceremony].ceremony = "registration"
          /\ asked[q.ceremony].user = q.user
          /\ made[q.credential].ceremony = q.ceremony
    /\ q.at = "find" \/ Asserted(q) => asked[q.ceremony].ceremony = "authentication"
    /\ Asserted(q) =>
          /\ q.stored \in Passkey
          /\ q.stored.credential = q.credential
          /\ made[q.credential].user = q.stored.user
          /\ Bound(q.ceremony, q.stored)
    /\ q.at = "record" =>
          /\ q.use \in PasskeyUse
          /\ q.use.signCount >= q.stored.signCount
          /\ q.stored.uvInitialised => q.use.uvInitialised

\* A credential is of the ceremony it was made in.
MadeAsAsked ==
    \A k \in CredentialId : made[k] # None /\ made[k].ceremony # None =>
        LET a == asked[made[k].ceremony] IN
        /\ a # None /\ a.ceremony = "registration"
        /\ a.user = made[k].user /\ a.handle = made[k].handle

\* A passkey is of whom its credential was made for, and its id is its own.
RegisteredAsMade ==
    /\ \A x \in passkeys : made[x.credential] # None /\ made[x.credential].user = x.user
    /\ \A x \in passkeys : x.id \in Request => req[x.id].at = "done"
    /\ \A x, y \in passkeys : x.id = y.id => x = y

\* A ceremony is in its row, with the request that claimed it, or has an outcome.
InOnePlace ==
    /\ \A c \in ceremonies : asked[c] # None
    /\ \A r \in Request : PastClaim(req[r]) => req[r].ceremony \notin ceremonies
    /\ \A q, r \in Request :
          PastClaim(req[q]) /\ PastClaim(req[r]) /\ req[q].ceremony = req[r].ceremony => q = r
    /\ \A o \in outcomes :
          /\ asked[o.ceremony] # None /\ made[o.credential] # None
          /\ o.ceremony \notin ceremonies
          /\ \A r \in Request : PastClaim(req[r]) => req[r].ceremony # o.ceremony

\* Whoever is about to tell an authenticator a handle tells the one that stays.
HandlesAgree ==
    /\ \A c \in Ceremony : asked[c] # None /\ asked[c].ceremony = "registration" =>
          /\ asked[c].user \in User /\ asked[c].handle \in Id
          /\ asked[c].user \in people => asked[c].handle = handles[asked[c].user]
    /\ \A r \in Request :
          /\ At(r, "find again") /\ req[r].user \in people => handles[req[r].user] # None
          /\ At(r, "issue") /\ req[r].user \in people => req[r].handle = handles[req[r].user]

IInv ==
    /\ CeremoniesTypeOK
    /\ \A r \in Request : Backed(req[r])
    /\ MadeAsAsked
    /\ RegisteredAsMade
    /\ InOnePlace
    /\ HandlesAgree
    /\ HandleIsKept
    /\ OneUsePerCeremony
    /\ OutcomeIsOfItsCeremony

-----------------------------------------------------------------------------
(* One request moves *)

LEMMA Idle == NoRequest \in RequestState /\ NoRequest.at = "idle"
BY DEF NoRequest, RequestState

LEMMA NoneIsNothing ==
    /\ None \notin Id /\ None \notin User /\ None \notin Ceremony
    /\ None \notin PasskeyChallengePayload /\ None \notin Made
BY NoneIsNone

LEMMA Moves ==
    ASSUME CeremoniesTypeOK, NEW r \in Request, NEW q, Becomes(r, q)
    PROVE  /\ req'[r] = q
           /\ \A p \in Request : p # r => req'[p] = req[p]
BY DEF CeremoniesTypeOK, Becomes

LEMMA EndsIn ==
    ASSUME CeremoniesTypeOK, NEW r \in Request, Ends(r)
    PROVE  /\ req'[r] \in RequestState /\ req'[r].at = "done"
           /\ \A p \in Request : p # r => req'[p] = req[p]
           /\ req' \in [Request -> RequestState]
BY DEF CeremoniesTypeOK, Ends, Becomes, NoRequest, RequestState

LEMMA GoesIn ==
    ASSUME CeremoniesTypeOK, NEW r \in Request, NEW step, GoesTo(r, step),
           step \in {"issue", "find again", "store", "find", "settle"}
    PROVE  /\ req'[r].at = step
           /\ req'[r].user = req[r].user /\ req'[r].handle = req[r].handle
           /\ req'[r].ceremony = req[r].ceremony /\ req'[r].credential = req[r].credential
           /\ req'[r].stored = req[r].stored /\ req'[r].use = req[r].use
           /\ \A p \in Request : p # r => req'[p] = req[p]
           /\ req' \in [Request -> RequestState]
<1> DEFINE q == [req[r] EXCEPT !.at = step]
<1>1. req[r] \in RequestState
  BY DEF CeremoniesTypeOK
<1>2. /\ q \in RequestState /\ q.at = step
      /\ q.user = req[r].user /\ q.handle = req[r].handle
      /\ q.ceremony = req[r].ceremony /\ q.credential = req[r].credential
      /\ q.stored = req[r].stored /\ q.use = req[r].use
  BY <1>1 DEF RequestState
<1>3. Becomes(r, q)
  BY DEF GoesTo
<1> HIDE DEF q
<1>4. req'[r] = q /\ \A p \in Request : p # r => req'[p] = req[p]
  BY <1>3, Moves
<1>5. req' \in [Request -> RequestState]
  BY <1>2, <1>3 DEF CeremoniesTypeOK, Becomes
<1> QED BY <1>2, <1>4, <1>5

LEMMA OthersTyped ==
    ASSUME CeremoniesTypeOK, NEW r \in Request, NEW q \in RequestState, Becomes(r, q)
    PROVE  req' \in [Request -> RequestState]
BY DEF CeremoniesTypeOK, Becomes

-----------------------------------------------------------------------------
(* Types *)

\* What the steps of a request write into it is of its type.
LEMMA OptionsTyped ==
    ASSUME CeremoniesTypeOK, NEW r \in Request, NEW u \in User, RegistrationOptions(r, u)
    PROVE  /\ req' \in [Request -> RequestState]
           /\ \A p \in Request : p # r => req'[p] = req[p]
           /\ req'[r].at \in {"create handle", "issue"}
           /\ req'[r].user = u /\ req'[r].handle \in Id
           /\ req'[r].at = "issue" => req'[r].handle = handles[u]
<1> DEFINE q == [NoRequest EXCEPT !.user = u, !.handle = IF handles[u] = None THEN r ELSE handles[u],
                                  !.at = IF handles[u] = None THEN "create handle" ELSE "issue"]
<1>1. handles[u] \in Id \cup {None} /\ r \in Id
  BY DEF CeremoniesTypeOK, Id
<1>2. /\ q \in RequestState /\ q.at \in {"create handle", "issue"}
      /\ q.user = u /\ q.handle \in Id
      /\ q.at = "issue" => q.handle = handles[u]
  BY <1>1 DEF NoRequest, RequestState
<1>3. Becomes(r, q)
  BY DEF RegistrationOptions
<1> HIDE DEF q
<1> QED BY <1>2, <1>3, Moves, OthersTyped

LEMMA FindAgainTyped ==
    ASSUME CeremoniesTypeOK, NEW r \in Request, req[r].handle \in Id, req[r].user \in User, FindAgain(r)
    PROVE  /\ req' \in [Request -> RequestState]
           /\ \A p \in Request : p # r => req'[p] = req[p]
           /\ req'[r].at = "issue"
           /\ req'[r].user = req[r].user /\ req'[r].handle \in Id
           /\ handles[req[r].user] # None => req'[r].handle = handles[req[r].user]
<1> DEFINE h == IF handles[req[r].user] = None THEN req[r].handle ELSE handles[req[r].user]
           q == [req[r] EXCEPT !.handle = h, !.at = "issue"]
<1>1. req[r] \in RequestState /\ h \in Id
  BY DEF CeremoniesTypeOK
<1>2. h = handles[req[r].user] \/ handles[req[r].user] = None
  OBVIOUS
<1>3. Becomes(r, q)
  BY DEF FindAgain
<1> HIDE DEF h
<1>4. q \in RequestState /\ q.at = "issue" /\ q.user = req[r].user /\ q.handle = h
  BY <1>1 DEF RequestState
<1> HIDE DEF q
<1> QED BY <1>1, <1>2, <1>3, <1>4, Moves, OthersTyped

LEMMA VerifyTyped ==
    ASSUME CeremoniesTypeOK, NEW r \in Request, NEW u \in User \cup {None}, NEW c \in Ceremony,
           NEW k \in CredentialId,
           (VerifyRegistration(r, u, c, k) /\ u \in User) \/ Authenticate(r, u, c, k)
    PROVE  /\ req' \in [Request -> RequestState]
           /\ \A p \in Request : p # r => req'[p] = req[p]
           /\ req'[r].at \in {"claim registration", "claim authentication"}
           /\ req'[r].at = "claim registration" => req'[r].user \in User
           /\ req'[r].ceremony = c /\ req'[r].credential = k
           /\ asked[c] # None /\ made[k] # None
<1> DEFINE q(step) == [NoRequest EXCEPT !.user = u, !.ceremony = c, !.credential = k, !.at = step]
<1>1. \A step \in {"claim registration", "claim authentication"} :
        /\ q(step) \in RequestState /\ q(step).at = step
        /\ q(step).user = u /\ q(step).ceremony = c /\ q(step).credential = k
  BY DEF NoRequest, RequestState
<1>2. /\ asked[c] # None /\ made[k] # None
      /\ \/ Becomes(r, q("claim registration")) /\ u \in User
         \/ Becomes(r, q("claim authentication"))
  BY DEF VerifyRegistration, Authenticate
<1> HIDE DEF q
<1>3. CASE Becomes(r, q("claim registration")) /\ u \in User
  BY <1>1, <1>2, <1>3, Moves, OthersTyped
<1>4. CASE Becomes(r, q("claim authentication"))
  <2>1. q("claim authentication").at # "claim registration"
    BY <1>1
  <2> QED BY <1>1, <1>2, <1>4, <2>1, Moves, OthersTyped
<1> QED BY <1>2, <1>3, <1>4

LEMMA FoundTyped ==
    ASSUME CeremoniesTypeOK, NEW r \in Request, NEW x \in passkeys,
           Becomes(r, [req[r] EXCEPT !.stored = x, !.at = "verify"])
    PROVE  /\ req' \in [Request -> RequestState]
           /\ \A p \in Request : p # r => req'[p] = req[p]
           /\ req'[r].at = "verify" /\ req'[r].stored = x
           /\ req'[r].ceremony = req[r].ceremony /\ req'[r].credential = req[r].credential
<1> DEFINE q == [req[r] EXCEPT !.stored = x, !.at = "verify"]
<1>1. req[r] \in RequestState /\ x \in Passkey
  BY DEF CeremoniesTypeOK
<1>2. /\ q \in RequestState /\ q.at = "verify" /\ q.stored = x
      /\ q.ceremony = req[r].ceremony /\ q.credential = req[r].credential
  BY <1>1 DEF RequestState
<1> HIDE DEF q
<1> QED BY <1>2, Moves, OthersTyped DEF q

LEMMA MarkIsHigh ==
    ASSUME NEW x \in Passkey, NEW n \in Count
    PROVE  HighWaterMark(x, n) \in Count /\ HighWaterMark(x, n) >= x.signCount
BY CountsAreNumbers DEF HighWaterMark, Passkey, Count

LEMMA UseTyped ==
    ASSUME CeremoniesTypeOK, NEW r \in Request, NEW n \in Count, NEW uv \in BOOLEAN,
           req[r].stored \in Passkey,
           Becomes(r, [req[r] EXCEPT
                !.use = [signCount |-> HighWaterMark(req[r].stored, n),
                         uvInitialised |-> req[r].stored.uvInitialised \/ uv],
                !.at = "record"])
    PROVE  /\ req' \in [Request -> RequestState]
           /\ \A p \in Request : p # r => req'[p] = req[p]
           /\ req'[r].at = "record" /\ req'[r].stored = req[r].stored
           /\ req'[r].ceremony = req[r].ceremony /\ req'[r].credential = req[r].credential
           /\ req'[r].use \in PasskeyUse
           /\ req'[r].use.signCount >= req[r].stored.signCount
           /\ req[r].stored.uvInitialised => req'[r].use.uvInitialised
<1> DEFINE v == [signCount |-> HighWaterMark(req[r].stored, n),
                 uvInitialised |-> req[r].stored.uvInitialised \/ uv]
           q == [req[r] EXCEPT !.use = v, !.at = "record"]
<1>1. req[r] \in RequestState /\ req[r].stored.uvInitialised \in BOOLEAN
  BY DEF CeremoniesTypeOK, Passkey
<1>2. /\ v \in PasskeyUse /\ v.signCount >= req[r].stored.signCount
      /\ req[r].stored.uvInitialised => v.uvInitialised
  BY <1>1, MarkIsHigh DEF PasskeyUse
<1>3. Becomes(r, q)
  OBVIOUS
<1> HIDE DEF v
<1>4. /\ q \in RequestState /\ q.at = "record" /\ q.use = v /\ q.stored = req[r].stored
      /\ q.ceremony = req[r].ceremony /\ q.credential = req[r].credential
  BY <1>1, <1>2 DEF RequestState
<1> HIDE DEF q
<1> QED BY <1>2, <1>3, <1>4, Moves, OthersTyped

LEMMA RecordTyped ==
    ASSUME CeremoniesTypeOK, NEW r \in Request, RecordUse(r)
    PROVE  /\ req' \in [Request -> RequestState]
           /\ \A p \in Request : p # r => req'[p] = req[p]
           /\ req'[r].at = "find user" /\ req'[r].stored = req[r].stored
           /\ req'[r].ceremony = req[r].ceremony /\ req'[r].credential = req[r].credential
<1> DEFINE q == [req[r] EXCEPT !.use = None, !.at = "find user"]
<1>1. req[r] \in RequestState /\ Becomes(r, q)
  BY DEF CeremoniesTypeOK, RecordUse
<1>2. /\ q \in RequestState /\ q.at = "find user" /\ q.stored = req[r].stored
      /\ q.ceremony = req[r].ceremony /\ q.credential = req[r].credential
  BY <1>1 DEF RequestState
<1> HIDE DEF q
<1> QED BY <1>1, <1>2, Moves, OthersTyped

-----------------------------------------------------------------------------
(* The parts of the invariant, by what a step leaves alone *)

\* What was asked of an authenticator, and what it made, stays.
Grows ==
    /\ \A c \in Ceremony : asked[c] # None => asked'[c] = asked[c]
    /\ \A k \in CredentialId : made[k] # None => made'[k] = made[k]

\* At most one request moves, and one that has ended does not.  Where nobody moves,
\* r is no request.
OneMoves(r) ==
    /\ r \in Request => req[r].at # "done"
    /\ \A p \in Request : p # r => req'[p] = req[p]

LEMMA BackedKept ==
    ASSUME IInv, Grows, NEW r, OneMoves(r), r \in Request => Backed(req'[r])
    PROVE  (\A p \in Request : Backed(req[p]))'
<1> SUFFICES ASSUME NEW p \in Request PROVE Backed(req[p])'
  OBVIOUS
<1>1. CASE p # r
  <2>1. req'[p] = req[p] /\ Backed(req[p])
    BY <1>1 DEF OneMoves, IInv
  <2> QED BY <2>1 DEF Backed, Grows, PastClaim, Asserted, Bound
<1>2. CASE p = r
  BY <1>2 DEF Backed, Grows, PastClaim, Asserted, Bound
<1> QED BY <1>1, <1>2

LEMMA MadeKept ==
    ASSUME IInv, Grows, UNCHANGED made
    PROVE  MadeAsAsked'
<1> SUFFICES ASSUME NEW k \in CredentialId, made[k] # None, made[k].ceremony # None
             PROVE  LET a == asked'[made[k].ceremony] IN
                    /\ a # None /\ a.ceremony = "registration"
                    /\ a.user = made[k].user /\ a.handle = made[k].handle
  BY DEF MadeAsAsked
<1>1. made[k].ceremony \in Ceremony
  BY DEF IInv, CeremoniesTypeOK, Made
<1> QED BY <1>1 DEF IInv, MadeAsAsked, Grows

LEMMA RegisteredKept ==
    ASSUME IInv, Grows, NEW r, OneMoves(r), passkeys' \subseteq passkeys
    PROVE  RegisteredAsMade'
<1>1. \A x \in passkeys : x.credential \in CredentialId
  BY DEF IInv, CeremoniesTypeOK, Passkey
<1>2. \A x \in passkeys' : made'[x.credential] # None /\ made'[x.credential].user = x.user
  BY <1>1 DEF IInv, RegisteredAsMade, Grows
<1>3. \A x \in passkeys' : x.id \in Request => req'[x.id].at = "done"
  BY DEF IInv, RegisteredAsMade, OneMoves
<1>4. \A x, y \in passkeys' : x.id = y.id => x = y
  BY DEF IInv, RegisteredAsMade
<1> QED BY <1>2, <1>3, <1>4 DEF RegisteredAsMade

\* A request that is past its claim after the step had claimed before, or claims now.
ClaimsRightly(r) ==
    PastClaim(req'[r]) =>
        /\ req'[r].ceremony \notin ceremonies'
        /\ \/ PastClaim(req[r]) /\ req'[r].ceremony = req[r].ceremony
           \/ req'[r].ceremony \in ceremonies

LEMMA PlaceKept ==
    ASSUME IInv, Grows, NEW r, OneMoves(r), UNCHANGED outcomes,
           ceremonies' \subseteq ceremonies, r \in Request => ClaimsRightly(r)
    PROVE  InOnePlace'
<1> USE DEF IInv, InOnePlace, OneMoves, ClaimsRightly
<1>1. (\A c \in ceremonies : asked[c] # None)'
  BY DEF CeremoniesTypeOK, Grows
<1>2. (\A p \in Request : PastClaim(req[p]) => req[p].ceremony \notin ceremonies)'
  BY DEF PastClaim
<1>3. (\A p, q \in Request :
          PastClaim(req[p]) /\ PastClaim(req[q]) /\ req[p].ceremony = req[q].ceremony => p = q)'
  <2> SUFFICES ASSUME NEW p \in Request, NEW q \in Request, p # q,
                      PastClaim(req'[p]), PastClaim(req'[q]), req'[p].ceremony = req'[q].ceremony
               PROVE  FALSE
    BY DEF PastClaim
  <2>1. CASE p = r
    BY <2>1
  <2>2. CASE q = r
    BY <2>2
  <2>3. CASE p # r /\ q # r
    BY <2>3
  <2> QED BY <2>1, <2>2, <2>3
<1>4. (\A o \in outcomes :
          /\ asked[o.ceremony] # None /\ made[o.credential] # None
          /\ o.ceremony \notin ceremonies
          /\ \A p \in Request : PastClaim(req[p]) => req[p].ceremony # o.ceremony)'
  <2> SUFFICES ASSUME NEW o \in outcomes
               PROVE  /\ asked'[o.ceremony] # None /\ made'[o.credential] # None
                      /\ o.ceremony \notin ceremonies'
                      /\ \A p \in Request : PastClaim(req'[p]) => req'[p].ceremony # o.ceremony
    BY DEF PastClaim
  <2>1. o.ceremony \in Ceremony /\ o.credential \in CredentialId
    BY DEF CeremoniesTypeOK
  <2>2. asked'[o.ceremony] # None /\ made'[o.credential] # None
    BY <2>1 DEF Grows
  <2>3. ASSUME NEW p \in Request, PastClaim(req'[p]) PROVE req'[p].ceremony # o.ceremony
    <3>1. CASE p = r
      BY <2>3, <3>1
    <3>2. CASE p # r
      BY <2>3, <3>2
    <3> QED BY <3>1, <3>2
  <2> QED BY <2>2, <2>3
<1> QED BY <1>1, <1>2, <1>3, <1>4

LEMMA HandlesKept ==
    ASSUME IInv, Grows, NEW r, OneMoves(r), UNCHANGED asked,
           people' \subseteq people,
           \A u \in people' : handles[u] # None => handles'[u] = handles[u],
           r \in Request =>
           /\ req'[r].at = "find again" /\ req'[r].user \in people' => handles'[req'[r].user] # None
           /\ req'[r].at = "issue" /\ req'[r].user \in people' =>
                 req'[r].handle = handles'[req'[r].user]
    PROVE  HandlesAgree'
<1> USE DEF IInv, HandlesAgree, OneMoves, At
<1>1. \A c \in Ceremony : asked[c] # None /\ asked[c].ceremony = "registration" =>
          /\ asked[c].user \in User /\ asked[c].handle \in Id
          /\ asked[c].user \in people' => asked[c].handle = handles'[asked[c].user]
  <2> SUFFICES ASSUME NEW c \in Ceremony, asked[c] # None, asked[c].ceremony = "registration"
               PROVE  /\ asked[c].user \in User /\ asked[c].handle \in Id
                      /\ asked[c].user \in people' => asked[c].handle = handles'[asked[c].user]
    OBVIOUS
  <2>1. asked[c].user \in User /\ asked[c].handle \in Id
    OBVIOUS
  <2>2. asked[c].handle # None
    BY <2>1, NoneIsNothing
  <2> QED BY <2>1, <2>2
<1>2. ASSUME NEW p \in Request, p # r
      PROVE  /\ req[p].at = "find again" /\ req[p].user \in people' => handles'[req[p].user] # None
             /\ req[p].at = "issue" /\ req[p].user \in people' =>
                   req[p].handle = handles'[req[p].user]
  <2>1. Backed(req[p])
    OBVIOUS
  <2>2. req[p].at = "issue" => req[p].handle # None
    BY <2>1, NoneIsNone DEF Backed
  <2> QED BY <2>2
<1>3. \A p \in Request :
          /\ req'[p].at = "find again" /\ req'[p].user \in people' => handles'[req'[p].user] # None
          /\ req'[p].at = "issue" /\ req'[p].user \in people' =>
                req'[p].handle = handles'[req'[p].user]
  BY <1>2
<1> QED BY <1>1, <1>3

LEMMA HandleKept ==
    ASSUME IInv, UNCHANGED made, people' \subseteq people,
           \A u \in people' : handles[u] # None => handles'[u] = handles[u]
    PROVE  HandleIsKept'
<1> SUFFICES ASSUME NEW k \in CredentialId, made[k] # None, made[k].user \in people'
             PROVE  made[k].handle = handles'[made[k].user]
  BY DEF HandleIsKept
<1>1. made[k] \in Made
  BY DEF IInv, CeremoniesTypeOK
<1>2. made[k].handle \in Id
  BY <1>1 DEF Made
<1>3. made[k].handle # None
  BY <1>2, NoneIsNone
<1>4. made[k].handle = handles[made[k].user]
  BY DEF IInv, HandleIsKept
<1> QED BY <1>3, <1>4

LEMMA OutcomesKept ==
    ASSUME IInv, Grows, UNCHANGED outcomes
    PROVE  OneUsePerCeremony' /\ OutcomeIsOfItsCeremony'
<1>1. OneUsePerCeremony'
  BY DEF IInv, OneUsePerCeremony
<1>2. ASSUME NEW o \in outcomes
      PROVE  asked'[o.ceremony] = asked[o.ceremony] /\ made'[o.credential] = made[o.credential]
  <2>1. o.ceremony \in Ceremony /\ o.credential \in CredentialId
    BY DEF IInv, CeremoniesTypeOK
  <2> QED BY <2>1 DEF IInv, InOnePlace, Grows
<1> QED BY <1>1, <1>2 DEF IInv, OutcomeIsOfItsCeremony

LEMMA SameGrows == UNCHANGED <<asked, made>> => Grows
BY DEF Grows

\* A request moves on, and nothing else happens but that a ceremony may go.
LEMMA Onward ==
    ASSUME IInv, NEW r \in Request, OneMoves(r), req' \in [Request -> RequestState],
           UNCHANGED <<asked, handles, passkeys, people, made, outcomes>>,
           ceremonies' \subseteq ceremonies,
           Backed(req'[r]), ClaimsRightly(r),
           /\ req'[r].at = "find again" /\ req'[r].user \in people => handles[req'[r].user] # None
           /\ req'[r].at = "issue" /\ req'[r].user \in people =>
                 req'[r].handle = handles[req'[r].user]
    PROVE  IInv'
<1>1. Grows
  BY SameGrows
<1>2. CeremoniesTypeOK'
  BY DEF IInv, CeremoniesTypeOK
<1>3. (\A p \in Request : Backed(req[p]))'
  BY <1>1, BackedKept
<1>4. HandlesAgree' /\ HandleIsKept'
  BY <1>1, HandlesKept, HandleKept
<1> QED BY <1>1, <1>2, <1>3, <1>4, MadeKept, RegisteredKept, PlaceKept, OutcomesKept DEF IInv

\* So does one that ends.
LEMMA EndsKeeps ==
    ASSUME IInv, NEW r \in Request, Ends(r), req[r].at # "done",
           UNCHANGED <<asked, handles, passkeys, people, made, outcomes>>,
           ceremonies' \subseteq ceremonies
    PROVE  IInv'
<1>1. /\ req'[r].at = "done" /\ req' \in [Request -> RequestState] /\ OneMoves(r)
  BY EndsIn DEF IInv, OneMoves
<1>2. Backed(req'[r]) /\ ClaimsRightly(r)
  BY <1>1 DEF Backed, PastClaim, Asserted, ClaimsRightly
<1> QED BY <1>1, <1>2, Onward

-----------------------------------------------------------------------------
(* Registration *)

LEMMA RegistrationOptionsKeeps ==
    ASSUME IInv, NEW r \in Request, NEW u \in User, RegistrationOptions(r, u)
    PROVE  IInv'
<1>1. /\ req' \in [Request -> RequestState] /\ OneMoves(r)
      /\ req'[r].at \in {"create handle", "issue"}
      /\ req'[r].user = u /\ req'[r].handle \in Id
      /\ req'[r].at = "issue" => req'[r].handle = handles[u]
  BY OptionsTyped DEF IInv, OneMoves, RegistrationOptions, At
<1>2. Backed(req'[r]) /\ ClaimsRightly(r)
  BY <1>1 DEF Backed, PastClaim, Asserted, ClaimsRightly
<1>3. UNCHANGED <<ceremonies, asked, handles, passkeys, people, made, outcomes>>
  BY DEF RegistrationOptions
<1> QED BY <1>1, <1>2, <1>3, Onward

\* To a step at which only the handle of the user matters.
LEMMA ToHandle ==
    ASSUME IInv, NEW r \in Request, NEW step, GoesTo(r, step),
           req[r].at \in {"create handle", "find again"}, step \in {"issue", "find again"}
    PROVE  /\ req' \in [Request -> RequestState] /\ OneMoves(r)
           /\ req'[r].at = step /\ req'[r].user = req[r].user /\ req'[r].handle = req[r].handle
           /\ Backed(req'[r]) /\ ClaimsRightly(r)
<1>1. /\ req' \in [Request -> RequestState] /\ OneMoves(r)
      /\ req'[r].at = step /\ req'[r].user = req[r].user /\ req'[r].handle = req[r].handle
  BY GoesIn DEF IInv, OneMoves
<1>2. Backed(req[r])
  BY DEF IInv
<1> QED BY <1>1, <1>2 DEF Backed, PastClaim, Asserted, ClaimsRightly

LEMMA CreateHandleKeeps ==
    ASSUME IInv, NEW r \in Request, CreateHandle(r)
    PROVE  IInv'
<1> DEFINE u == req[r].user
<1>1. At(r, "create handle") /\ UNCHANGED <<ceremonies, asked, passkeys, people, made, outcomes>>
  BY DEF CreateHandle
<1>2. u \in User /\ req[r].handle \in Id
  BY <1>1 DEF IInv, Backed, At
<1>3. CASE u \notin people /\ Ends(r) /\ UNCHANGED handles
  BY <1>1, <1>3, EndsKeeps DEF At
<1>4. CASE u \in people /\ handles[u] # None /\ GoesTo(r, "find again") /\ UNCHANGED handles
  <2>1. /\ req' \in [Request -> RequestState] /\ OneMoves(r)
        /\ req'[r].at = "find again" /\ req'[r].user = u
        /\ Backed(req'[r]) /\ ClaimsRightly(r)
    BY <1>1, <1>4, ToHandle DEF At
  <2> QED BY <1>1, <1>4, <2>1, Onward
<1>5. CASE /\ u \in people /\ handles[u] = None
           /\ handles' = [handles EXCEPT ![u] = req[r].handle]
           /\ GoesTo(r, "issue")
  <2>1. /\ req' \in [Request -> RequestState] /\ OneMoves(r)
        /\ req'[r].at = "issue" /\ req'[r].user = u /\ req'[r].handle = req[r].handle
        /\ Backed(req'[r]) /\ ClaimsRightly(r)
    BY <1>1, <1>5, ToHandle DEF At
  <2>2. handles'[u] = req[r].handle /\ \A v \in User : v # u => handles'[v] = handles[v]
    BY <1>2, <1>5 DEF IInv, CeremoniesTypeOK
  <2>3. handles' \in [User -> Id \cup {None}]
    BY <1>2, <1>5 DEF IInv, CeremoniesTypeOK
  <2>4. \A v \in people' : handles[v] # None => handles'[v] = handles[v]
    BY <1>1, <1>5, <2>2 DEF IInv, CeremoniesTypeOK
  <2>5. CeremoniesTypeOK'
    BY <1>1, <2>1, <2>3 DEF IInv, CeremoniesTypeOK
  <2>6. Grows
    BY <1>1, SameGrows
  <2>7. (\A p \in Request : Backed(req[p]))'
    BY <2>1, <2>6, BackedKept
  <2>8. HandlesAgree'
    BY <1>1, <2>1, <2>2, <2>4, <2>6, HandlesKept
  <2>9. HandleIsKept'
    BY <1>1, <2>4, HandleKept
  <2> QED BY <1>1, <2>1, <2>5, <2>6, <2>7, <2>8, <2>9, MadeKept, RegisteredKept, PlaceKept, OutcomesKept
          DEF IInv
<1> QED BY <1>3, <1>4, <1>5 DEF CreateHandle

LEMMA FindAgainKeeps ==
    ASSUME IInv, NEW r \in Request, FindAgain(r)
    PROVE  IInv'
<1>1. req[r].at = "find again" /\ UNCHANGED <<ceremonies, asked, handles, passkeys, people, made, outcomes>>
  BY DEF FindAgain, At
<1>2. /\ req[r].user \in User /\ req[r].handle \in Id
      /\ req[r].user \in people => handles[req[r].user] # None
  BY <1>1 DEF IInv, Backed, HandlesAgree, At
<1>3. /\ req' \in [Request -> RequestState] /\ OneMoves(r)
      /\ req'[r].at = "issue" /\ req'[r].user = req[r].user /\ req'[r].handle \in Id
      /\ handles[req[r].user] # None => req'[r].handle = handles[req[r].user]
  BY <1>1, <1>2, FindAgainTyped DEF IInv, OneMoves
<1>4. Backed(req'[r]) /\ ClaimsRightly(r)
  BY <1>2, <1>3 DEF Backed, PastClaim, Asserted, ClaimsRightly
<1> QED BY <1>1, <1>2, <1>3, <1>4, Onward

LEMMA VerifyKeeps ==
    ASSUME IInv, NEW r \in Request, NEW u \in User \cup {None}, NEW c \in Ceremony,
           NEW k \in CredentialId,
           (VerifyRegistration(r, u, c, k) /\ u \in User) \/ Authenticate(r, u, c, k)
    PROVE  IInv'
<1>1. req[r].at = "idle" /\ UNCHANGED <<ceremonies, asked, handles, passkeys, people, made, outcomes>>
  BY DEF VerifyRegistration, Authenticate, At
<1>2. /\ req' \in [Request -> RequestState] /\ OneMoves(r)
      /\ req'[r].at \in {"claim registration", "claim authentication"}
      /\ req'[r].at = "claim registration" => req'[r].user \in User
      /\ req'[r].ceremony = c /\ req'[r].credential = k
      /\ asked[c] # None /\ made[k] # None
  BY <1>1, VerifyTyped DEF IInv, OneMoves
<1>3. Backed(req'[r]) /\ ClaimsRightly(r)
  BY <1>2 DEF Backed, PastClaim, Asserted, ClaimsRightly
<1> QED BY <1>1, <1>2, <1>3, Onward

LEMMA ClaimCeremonyKeeps ==
    ASSUME IInv, NEW r \in Request, ClaimRegistration(r) \/ ClaimAuthentication(r)
    PROVE  IInv'
<1> DEFINE c == req[r].ceremony
<1>1. /\ UNCHANGED <<asked, handles, passkeys, people, made, outcomes>>
      /\ ceremonies' = ceremonies \ {c}
      /\ req[r].at \in {"claim registration", "claim authentication"}
  BY DEF ClaimRegistration, ClaimAuthentication, Claimed, At
<1>2. CASE Ends(r)
  BY <1>1, <1>2, EndsKeeps
<1>3. ASSUME NEW step, GoesTo(r, step), c \in ceremonies,
             \/ /\ step = "store" /\ req[r].at = "claim registration"
                /\ asked[c].ceremony = "registration" /\ asked[c].user = req[r].user
                /\ made[req[r].credential].ceremony = c
             \/ step = "find" /\ asked[c].ceremony = "authentication"
      PROVE  IInv'
  <2>1. /\ req' \in [Request -> RequestState] /\ OneMoves(r) /\ req'[r].at = step
        /\ req'[r].user = req[r].user
        /\ req'[r].ceremony = c /\ req'[r].credential = req[r].credential
    BY <1>1, <1>3, GoesIn DEF IInv, OneMoves
  <2>2. Backed(req[r])
    BY DEF IInv
  <2>3. Backed(req'[r])
    BY <1>1, <1>3, <2>1, <2>2 DEF Backed, PastClaim, Asserted
  <2>4. ClaimsRightly(r)
    BY <1>1, <1>3, <2>1 DEF ClaimsRightly
  <2>5. req'[r].at \notin {"find again", "issue"}
    BY <1>3, <2>1
  <2> QED BY <1>1, <2>1, <2>3, <2>4, <2>5, Onward
<1> QED BY <1>2, <1>3 DEF ClaimRegistration, ClaimAuthentication, TagAgrees, At

\* A new ceremony is with nobody yet.
LEMMA IssuesKeeps ==
    ASSUME IInv, NEW c \in Ceremony, NEW ceremony \in {"registration", "authentication"},
           NEW u \in User \cup {None}, NEW h \in Id \cup {None}, NEW r,
           Issues(c, ceremony, u, h), OneMoves(r), r \in Request => req'[r].at = "done",
           req' \in [Request -> RequestState],
           UNCHANGED <<handles, passkeys, people, made, outcomes>>,
           ceremony = "registration" =>
              u \in User /\ h \in Id /\ (u \in people => h = handles[u])
    PROVE  IInv'
<1> DEFINE a == [ceremony |-> ceremony, user |-> u, handle |-> h]
<1>1. a \in PasskeyChallengePayload /\ a # None
  BY NoneIsNothing DEF PasskeyChallengePayload
<1>2. /\ asked[c] = None /\ ceremonies' = ceremonies \cup {c}
      /\ asked' \in [Ceremony -> PasskeyChallengePayload \cup {None}]
      /\ asked'[c] = a /\ \A d \in Ceremony : d # c => asked'[d] = asked[d]
  BY <1>1 DEF IInv, CeremoniesTypeOK, Issues
<1>3. a.ceremony = ceremony /\ a.user = u /\ a.handle = h
  OBVIOUS
<1> HIDE DEF a
<1>4. Grows
  BY <1>2 DEF Grows
<1>5. CeremoniesTypeOK'
  BY <1>2 DEF IInv, CeremoniesTypeOK
<1>6. r \in Request => Backed(req'[r]) /\ ~PastClaim(req'[r])
  BY DEF Backed, PastClaim, Asserted
<1>7. (\A p \in Request : Backed(req[p]))'
  BY <1>4, <1>6, BackedKept
<1>8. \A p \in Request : PastClaim(req'[p]) =>
         PastClaim(req[p]) /\ req'[p] = req[p] /\ req[p].ceremony # c
  BY <1>2, <1>6 DEF IInv, Backed, OneMoves
<1>9. \A o \in outcomes : o.ceremony # c
  BY <1>2 DEF IInv, InOnePlace
<1>10. InOnePlace'
  <2>1. (\A d \in ceremonies : asked[d] # None)'
    BY <1>1, <1>2 DEF IInv, InOnePlace, CeremoniesTypeOK
  <2>2. (\A p \in Request : PastClaim(req[p]) => req[p].ceremony \notin ceremonies)'
    BY <1>2, <1>8 DEF IInv, InOnePlace, PastClaim
  <2>3. (\A p, q \in Request :
            PastClaim(req[p]) /\ PastClaim(req[q]) /\ req[p].ceremony = req[q].ceremony => p = q)'
    <3> SUFFICES ASSUME NEW p \in Request, NEW q \in Request, PastClaim(req'[p]), PastClaim(req'[q]),
                        req'[p].ceremony = req'[q].ceremony
                 PROVE  p = q
      BY DEF PastClaim
    <3>1. PastClaim(req[p]) /\ PastClaim(req[q]) /\ req[p].ceremony = req[q].ceremony
      BY <1>8
    <3> QED BY <3>1 DEF IInv, InOnePlace
  <2>4. (\A o \in outcomes :
            /\ asked[o.ceremony] # None /\ made[o.credential] # None
            /\ o.ceremony \notin ceremonies
            /\ \A p \in Request : PastClaim(req[p]) => req[p].ceremony # o.ceremony)'
    <3> SUFFICES ASSUME NEW o \in outcomes
                 PROVE  /\ asked'[o.ceremony] # None /\ made[o.credential] # None
                        /\ o.ceremony \notin ceremonies'
                        /\ \A p \in Request : PastClaim(req'[p]) => req'[p].ceremony # o.ceremony
      BY DEF PastClaim
    <3>1. o.ceremony \in Ceremony /\ o.ceremony # c
      BY <1>9 DEF IInv, CeremoniesTypeOK
    <3> QED BY <1>2, <1>8, <3>1 DEF IInv, InOnePlace
  <2> QED BY <2>1, <2>2, <2>3, <2>4 DEF InOnePlace
<1>11. HandlesAgree'
  <2>1. ASSUME NEW d \in Ceremony, asked'[d] # None, asked'[d].ceremony = "registration"
        PROVE  /\ asked'[d].user \in User /\ asked'[d].handle \in Id
               /\ asked'[d].user \in people => asked'[d].handle = handles[asked'[d].user]
    <3>1. CASE d = c
      BY <1>2, <1>3, <2>1, <3>1
    <3>2. CASE d # c
      BY <1>2, <2>1, <3>2 DEF IInv, HandlesAgree
    <3> QED BY <3>1, <3>2
  <2>2. ASSUME NEW p \in Request
        PROVE  /\ req'[p].at = "find again" /\ req'[p].user \in people => handles[req'[p].user] # None
               /\ req'[p].at = "issue" /\ req'[p].user \in people =>
                     req'[p].handle = handles[req'[p].user]
    BY DEF IInv, HandlesAgree, OneMoves, At
  <2> QED BY <2>1, <2>2 DEF HandlesAgree, At
<1>12. HandleIsKept'
  BY HandleKept
<1> QED BY <1>4, <1>5, <1>7, <1>10, <1>11, <1>12, MadeKept, RegisteredKept, OutcomesKept DEF IInv

LEMMA NobodyMoves == UNCHANGED req => OneMoves(Initial) /\ Initial \notin Request
BY InitialIsNew DEF OneMoves

LEMMA IssueRegistrationKeeps ==
    ASSUME IInv, NEW r \in Request, NEW c \in Ceremony, IssueRegistration(r, c)
    PROVE  IInv'
<1>1. /\ req[r].at = "issue" /\ Ends(r)
      /\ Issues(c, "registration", req[r].user, req[r].handle)
      /\ UNCHANGED <<handles, passkeys, people, made, outcomes>>
  BY DEF IssueRegistration, At
<1>2. /\ req[r].user \in User /\ req[r].handle \in Id
      /\ req[r].user \in people => req[r].handle = handles[req[r].user]
  BY <1>1 DEF IInv, Backed, HandlesAgree, At
<1>3. OneMoves(r) /\ req'[r].at = "done" /\ req' \in [Request -> RequestState]
  BY <1>1, EndsIn DEF IInv, OneMoves
<1> QED BY <1>1, <1>2, <1>3, IssuesKeeps

LEMMA AuthenticationOptionsKeeps ==
    ASSUME IInv, NEW c \in Ceremony, NEW u \in User \cup {None}, AuthenticationOptions(c, u)
    PROVE  IInv'
<1>1. /\ Issues(c, "authentication", u, None)
      /\ UNCHANGED <<handles, passkeys, people, made, req, outcomes>>
  BY DEF AuthenticationOptions
<1>2. req' \in [Request -> RequestState]
  BY <1>1 DEF IInv, CeremoniesTypeOK
<1> QED BY <1>1, <1>2, NobodyMoves, IssuesKeeps

\* The authenticator makes a credential that was not there.
LEMMA MakeKeeps ==
    ASSUME IInv, NEW k \in CredentialId, NEW c \in Ceremony, Make(k, c)
    PROVE  IInv'
<1> DEFINE d == [ceremony |-> c, user |-> asked[c].user, handle |-> asked[c].handle]
<1>1. /\ made[k] = None /\ asked[c] # None /\ asked[c].ceremony = "registration"
      /\ made' = [made EXCEPT ![k] = d]
      /\ UNCHANGED <<ceremonies, asked, handles, passkeys, people, req, outcomes>>
  BY DEF Make
<1>2. /\ asked[c].user \in User /\ asked[c].handle \in Id
      /\ asked[c].user \in people => asked[c].handle = handles[asked[c].user]
  BY <1>1 DEF IInv, HandlesAgree
<1>3. d \in Made /\ d.ceremony = c /\ d.user = asked[c].user /\ d.handle = asked[c].handle
  BY <1>2 DEF Made
<1> HIDE DEF d
<1>4. /\ made'[k] = d /\ \A j \in CredentialId : j # k => made'[j] = made[j]
      /\ made' \in [CredentialId -> Made \cup {None}]
  BY <1>1, <1>3 DEF IInv, CeremoniesTypeOK
<1>5. Grows
  BY <1>1, <1>4 DEF Grows
<1>6. CeremoniesTypeOK'
  BY <1>1, <1>4 DEF IInv, CeremoniesTypeOK
<1>7. MadeAsAsked'
  <2> SUFFICES ASSUME NEW j \in CredentialId, made'[j] # None, made'[j].ceremony # None
               PROVE  LET a == asked[made'[j].ceremony] IN
                      /\ a # None /\ a.ceremony = "registration"
                      /\ a.user = made'[j].user /\ a.handle = made'[j].handle
    BY <1>1 DEF MadeAsAsked
  <2>1. CASE j = k
    BY <1>1, <1>3, <1>4, <2>1
  <2>2. CASE j # k
    BY <1>4, <2>2 DEF IInv, MadeAsAsked
  <2> QED BY <2>1, <2>2
<1>8. HandleIsKept'
  <2> SUFFICES ASSUME NEW j \in CredentialId, made'[j] # None, made'[j].user \in people
               PROVE  made'[j].handle = handles[made'[j].user]
    BY <1>1 DEF HandleIsKept
  <2>1. CASE j = k
    BY <1>2, <1>3, <1>4, <2>1
  <2>2. CASE j # k
    BY <1>4, <2>2 DEF IInv, HandleIsKept
  <2> QED BY <2>1, <2>2
<1>9. HandlesAgree'
  BY <1>1 DEF IInv, HandlesAgree, At
<1> QED BY <1>1, <1>5, <1>6, <1>7, <1>8, <1>9, NobodyMoves, BackedKept, RegisteredKept, PlaceKept,
           OutcomesKept DEF IInv

\* The outcome of a request that had claimed its ceremony, and ends.
LEMMA OutcomeKeeps ==
    ASSUME IInv, NEW r \in Request, Ends(r), req[r].at \in {"store", "settle"},
           NEW u \in User, NEW how \in {"registered", "elevated", "signed in"},
           outcomes' = outcomes \cup {Outcome(r, u, how)},
           UNCHANGED <<ceremonies, asked, handles, people, made>>,
           passkeys' \subseteq Passkey, RegisteredAsMade',
           asked[req[r].ceremony].ceremony = IF how = "registered" THEN "registration" ELSE "authentication",
           asked[req[r].ceremony].user \in {None, u},
           made[req[r].credential].user = u,
           how = "registered" => made[req[r].credential].ceremony = req[r].ceremony
    PROVE  IInv'
<1> DEFINE n == Outcome(r, u, how)
<1>1. Backed(req[r]) /\ PastClaim(req[r])
  BY DEF IInv, PastClaim
<1>2. /\ req[r].ceremony \in Ceremony /\ asked[req[r].ceremony] # None
      /\ req[r].credential \in CredentialId /\ made[req[r].credential] # None
  BY <1>1 DEF Backed
<1>3. /\ n.ceremony = req[r].ceremony /\ n.credential = req[r].credential
      /\ n.user = u /\ n.how = how
      /\ n \in [ceremony : Ceremony, by : Request, user : User, credential : CredentialId,
                how : {"registered", "elevated", "signed in"}]
  BY <1>2 DEF Outcome
<1> HIDE DEF n
<1>4. req'[r].at = "done" /\ OneMoves(r) /\ req' \in [Request -> RequestState]
  BY EndsIn DEF IInv, OneMoves
<1>5. outcomes' = outcomes \cup {n}
  BY DEF n
<1>6. Grows
  BY SameGrows
<1>7. CeremoniesTypeOK'
  BY <1>3, <1>4, <1>5 DEF IInv, CeremoniesTypeOK
<1>8. Backed(req'[r]) /\ ~PastClaim(req'[r])
  BY <1>4 DEF Backed, PastClaim, Asserted
<1>9. (\A p \in Request : Backed(req[p]))'
  BY <1>4, <1>6, <1>8, BackedKept
<1>10. \A p \in Request : PastClaim(req'[p]) => p # r /\ req'[p] = req[p] /\ PastClaim(req[p])
  BY <1>4, <1>8 DEF OneMoves
<1>11. InOnePlace'
  <2>1. (\A c \in ceremonies : asked[c] # None)'
    BY DEF IInv, InOnePlace
  <2>2. (\A p \in Request : PastClaim(req[p]) => req[p].ceremony \notin ceremonies)'
    BY <1>10 DEF IInv, InOnePlace, PastClaim
  <2>3. (\A p, q \in Request :
            PastClaim(req[p]) /\ PastClaim(req[q]) /\ req[p].ceremony = req[q].ceremony => p = q)'
    <3> SUFFICES ASSUME NEW p \in Request, NEW q \in Request, PastClaim(req'[p]), PastClaim(req'[q]),
                        req'[p].ceremony = req'[q].ceremony
                 PROVE  p = q
      BY DEF PastClaim
    <3> QED BY <1>10 DEF IInv, InOnePlace
  <2>4. (\A o \in outcomes :
            /\ asked[o.ceremony] # None /\ made[o.credential] # None
            /\ o.ceremony \notin ceremonies
            /\ \A p \in Request : PastClaim(req[p]) => req[p].ceremony # o.ceremony)'
    <3> SUFFICES ASSUME NEW o \in outcomes'
                 PROVE  /\ asked[o.ceremony] # None /\ made[o.credential] # None
                        /\ o.ceremony \notin ceremonies
                        /\ \A p \in Request : PastClaim(req'[p]) => req'[p].ceremony # o.ceremony
      BY DEF PastClaim
    <3>1. CASE o = n
      BY <1>1, <1>2, <1>3, <1>10, <3>1 DEF IInv, InOnePlace
    <3>2. CASE o \in outcomes
      BY <1>10, <3>2 DEF IInv, InOnePlace
    <3> QED BY <1>5, <3>1, <3>2
  <2> QED BY <2>1, <2>2, <2>3, <2>4 DEF InOnePlace
<1>12. OneUsePerCeremony'
  <2>1. \A o \in outcomes : o.ceremony # n.ceremony
    BY <1>1, <1>3 DEF IInv, InOnePlace
  <2> QED BY <1>5, <2>1 DEF IInv, OneUsePerCeremony
<1>13. OutcomeIsOfItsCeremony'
  <2>1. ASSUME NEW o \in outcomes'
        PROVE  /\ asked[o.ceremony].ceremony =
                     IF o.how = "registered" THEN "registration" ELSE "authentication"
               /\ asked[o.ceremony].user \in {None, o.user}
               /\ made[o.credential].user = o.user
               /\ o.how = "registered" => made[o.credential].ceremony = o.ceremony
    <3>1. CASE o = n
      BY <1>3, <3>1
    <3>2. CASE o \in outcomes
      BY <3>2 DEF IInv, OutcomeIsOfItsCeremony
    <3> QED BY <1>5, <3>1, <3>2
  <2> QED BY <2>1 DEF OutcomeIsOfItsCeremony
<1>14. HandlesAgree' /\ HandleIsKept'
  BY <1>4, <1>6, HandlesKept, HandleKept
<1> QED BY <1>6, <1>7, <1>9, <1>11, <1>12, <1>13, <1>14, MadeKept DEF IInv

LEMMA StorePasskeyKeeps ==
    ASSUME IInv, NEW r \in Request, NEW n \in Count, NEW uv \in BOOLEAN, StorePasskey(r, n, uv)
    PROVE  IInv'
<1> DEFINE u == req[r].user
           k == req[r].credential
           x == [id |-> r, user |-> u, credential |-> k, signCount |-> n, uvInitialised |-> uv]
<1>1. /\ req[r].at = "store" /\ Ends(r)
      /\ UNCHANGED <<ceremonies, asked, handles, people, made>>
  BY DEF StorePasskey, At
<1>2. /\ u \in User /\ k \in CredentialId /\ made[k] # None
      /\ req[r].ceremony \in Ceremony
      /\ asked[req[r].ceremony].ceremony = "registration"
      /\ asked[req[r].ceremony].user = u
      /\ made[k].ceremony = req[r].ceremony
  BY <1>1 DEF IInv, Backed, PastClaim
<1>3. made[k].user = u
  BY <1>2, NoneIsNothing DEF IInv, MadeAsAsked
<1>4. CASE UNCHANGED <<passkeys, outcomes>>
  BY <1>1, <1>4, EndsKeeps
<1>5. CASE /\ passkeys' = passkeys \cup {x}
           /\ outcomes' = outcomes \cup {Outcome(r, u, "registered")}
  <2>1. x \in Passkey /\ x.id = r /\ x.credential = k /\ x.user = u
    BY <1>2 DEF Passkey, Id
  <2> HIDE DEF x
  <2>2. passkeys' \subseteq Passkey
    BY <1>5, <2>1 DEF IInv, CeremoniesTypeOK
  <2>3. req'[r].at = "done" /\ \A p \in Request : p # r => req'[p] = req[p]
    BY <1>1, EndsIn DEF IInv
  <2>4. \A y \in passkeys : y.id # r
    BY <1>1 DEF IInv, RegisteredAsMade
  <2>5. RegisteredAsMade'
    <3>1. \A y \in passkeys' : made[y.credential] # None /\ made[y.credential].user = y.user
      BY <1>2, <1>3, <1>5, <2>1 DEF IInv, RegisteredAsMade
    <3>2. \A y \in passkeys' : y.id \in Request => req'[y.id].at = "done"
      BY <1>5, <2>1, <2>3 DEF IInv, RegisteredAsMade
    <3>3. \A y, z \in passkeys' : y.id = z.id => y = z
      BY <1>5, <2>1, <2>4 DEF IInv, RegisteredAsMade
    <3> QED BY <1>1, <3>1, <3>2, <3>3 DEF RegisteredAsMade
  <2> HIDE DEF u, k
  <2>6. /\ req[r].user = u /\ req[r].credential = k
    BY DEF u, k
  <2> QED BY <1>1, <1>2, <1>3, <1>5, <2>2, <2>5, <2>6, OutcomeKeeps
<1> QED BY <1>4, <1>5 DEF StorePasskey

-----------------------------------------------------------------------------
(* Authentication *)

LEMMA FindCredentialKeeps ==
    ASSUME IInv, NEW r \in Request, FindCredential(r)
    PROVE  IInv'
<1>1. req[r].at = "find" /\ UNCHANGED <<ceremonies, asked, handles, passkeys, people, made, outcomes>>
  BY DEF FindCredential, At
<1>2. CASE Ends(r)
  BY <1>1, <1>2, EndsKeeps
<1>3. ASSUME NEW x \in passkeys, x.credential = req[r].credential, Bound(req[r].ceremony, x),
             Becomes(r, [req[r] EXCEPT !.stored = x, !.at = "verify"])
      PROVE  IInv'
  <2>1. /\ req' \in [Request -> RequestState] /\ OneMoves(r)
        /\ req'[r].at = "verify" /\ req'[r].stored = x
        /\ req'[r].ceremony = req[r].ceremony /\ req'[r].credential = req[r].credential
    BY <1>1, <1>3, FoundTyped DEF IInv, OneMoves
  <2>2. Backed(req[r])
    BY DEF IInv
  <2>3. x \in Passkey /\ made[x.credential].user = x.user
    BY DEF IInv, CeremoniesTypeOK, RegisteredAsMade
  <2>4. Backed(req'[r])
    BY <1>1, <1>3, <2>1, <2>2, <2>3 DEF Backed, PastClaim, Asserted
  <2>5. ClaimsRightly(r)
    BY <1>1, <2>1 DEF IInv, InOnePlace, ClaimsRightly, PastClaim
  <2> QED BY <1>1, <2>1, <2>4, <2>5, Onward
<1> QED BY <1>2, <1>3 DEF FindCredential

LEMMA VerifyAssertionKeeps ==
    ASSUME IInv, NEW r \in Request, NEW told \in BOOLEAN, NEW signed \in BOOLEAN,
           NEW n \in Count, NEW uv \in BOOLEAN, VerifyAssertion(r, told, signed, n, uv)
    PROVE  IInv'
<1> DEFINE Recording ==
        Becomes(r, [req[r] EXCEPT
            !.use = [signCount |-> HighWaterMark(req[r].stored, n),
                     uvInitialised |-> req[r].stored.uvInitialised \/ uv],
            !.at = "record"])
<1>1. req[r].at = "verify" /\ UNCHANGED <<ceremonies, asked, handles, passkeys, people, made, outcomes>>
  BY DEF VerifyAssertion, At
<1>2. CASE Ends(r)
  BY <1>1, <1>2, EndsKeeps
<1>3. CASE Recording
  <2>1. Backed(req[r])
    BY DEF IInv
  <2>2. req[r].stored \in Passkey
    BY <1>1, <2>1 DEF Backed, Asserted
  <2>3. /\ req' \in [Request -> RequestState] /\ OneMoves(r)
        /\ req'[r].at = "record" /\ req'[r].stored = req[r].stored
        /\ req'[r].ceremony = req[r].ceremony /\ req'[r].credential = req[r].credential
        /\ req'[r].use \in PasskeyUse
        /\ req'[r].use.signCount >= req[r].stored.signCount
        /\ req[r].stored.uvInitialised => req'[r].use.uvInitialised
    BY <1>1, <1>3, <2>2, UseTyped DEF IInv, OneMoves
  <2>4. Backed(req'[r])
    BY <1>1, <2>1, <2>3 DEF Backed, PastClaim, Asserted
  <2>5. ClaimsRightly(r)
    BY <1>1, <2>3 DEF IInv, InOnePlace, ClaimsRightly, PastClaim
  <2> QED BY <1>1, <2>3, <2>4, <2>5, Onward
<1> QED BY <1>2, <1>3 DEF VerifyAssertion

\* What recordUse writes is of one passkey, and leaves alone whose it is.
RecordedAs(r, x) ==
    IF x.id = req[r].stored.id
    THEN [x EXCEPT !.signCount = req[r].use.signCount, !.uvInitialised = req[r].use.uvInitialised]
    ELSE x

LEMMA RecordWrites ==
    ASSUME IInv, NEW r \in Request, RecordUse(r)
    PROVE  /\ passkeys' = {RecordedAs(r, x) : x \in passkeys}
           /\ \A x \in passkeys :
                 /\ RecordedAs(r, x) \in Passkey
                 /\ RecordedAs(r, x).id = x.id /\ RecordedAs(r, x).user = x.user
                 /\ RecordedAs(r, x).credential = x.credential
                 /\ x.id # req[r].stored.id => RecordedAs(r, x) = x
                 /\ x.id = req[r].stored.id =>
                       /\ RecordedAs(r, x).signCount = req[r].use.signCount
                       /\ RecordedAs(r, x).uvInitialised = req[r].use.uvInitialised
<1>1. passkeys' = {RecordedAs(r, x) : x \in passkeys}
  BY DEF RecordUse, RecordedAs
<1>2. req[r].use \in PasskeyUse
  BY DEF IInv, Backed, RecordUse, At
<1>3. \A x \in passkeys : x \in Passkey
  BY DEF IInv, CeremoniesTypeOK
<1> QED BY <1>1, <1>2, <1>3 DEF RecordedAs, Passkey, PasskeyUse

LEMMA RecordUseKeeps ==
    ASSUME IInv, NEW r \in Request, RecordUse(r)
    PROVE  IInv'
<1>1. /\ req[r].at = "record"
      /\ UNCHANGED <<ceremonies, asked, handles, people, made, outcomes>>
  BY DEF RecordUse, At
<1>2. /\ req' \in [Request -> RequestState] /\ OneMoves(r)
      /\ req'[r].at = "find user" /\ req'[r].stored = req[r].stored
      /\ req'[r].ceremony = req[r].ceremony /\ req'[r].credential = req[r].credential
  BY <1>1, RecordTyped DEF IInv, OneMoves
<1>3. Backed(req[r])
  BY DEF IInv
<1>4. Backed(req'[r])
  BY <1>1, <1>2, <1>3 DEF Backed, PastClaim, Asserted
<1>5. ClaimsRightly(r)
  BY <1>1, <1>2 DEF IInv, InOnePlace, ClaimsRightly, PastClaim
<1>6. Grows
  BY <1>1, SameGrows
<1>7. CeremoniesTypeOK'
  <2>1. passkeys' \subseteq Passkey
    BY RecordWrites
  <2> QED BY <1>1, <1>2, <2>1 DEF IInv, CeremoniesTypeOK
<1>8. RegisteredAsMade'
  <2>1. \A y \in passkeys' : \E x \in passkeys :
          y = RecordedAs(r, x) /\ y.id = x.id /\ y.user = x.user /\ y.credential = x.credential
    BY RecordWrites
  <2>2. \A y \in passkeys' : made[y.credential] # None /\ made[y.credential].user = y.user
    BY <2>1 DEF IInv, RegisteredAsMade
  <2>3. ASSUME NEW y \in passkeys', y.id \in Request PROVE req'[y.id].at = "done"
    <3>1. PICK x \in passkeys : y.id = x.id
      BY <2>1
    <3>2. req[y.id].at = "done"
      BY <2>3, <3>1 DEF IInv, RegisteredAsMade
    <3>3. y.id # r
      BY <1>1, <3>2
    <3>4. \A q \in Request : q # r => req'[q] = req[q]
      BY <1>2 DEF OneMoves
    <3> QED BY <2>3, <3>2, <3>3, <3>4
  <2>4. \A y, z \in passkeys' : y.id = z.id => y = z
    BY <2>1 DEF IInv, RegisteredAsMade
  <2> QED BY <1>1, <2>2, <2>3, <2>4 DEF RegisteredAsMade
<1>9. (\A p \in Request : Backed(req[p]))'
  BY <1>2, <1>4, <1>6, BackedKept
<1>10. HandlesAgree' /\ HandleIsKept'
  BY <1>1, <1>2, <1>6, HandlesKept, HandleKept
<1> QED BY <1>1, <1>2, <1>5, <1>6, <1>7, <1>8, <1>9, <1>10, MadeKept, PlaceKept, OutcomesKept DEF IInv

LEMMA FindUserKeeps ==
    ASSUME IInv, NEW r \in Request, FindUser(r)
    PROVE  IInv'
<1>1. /\ req[r].at = "find user"
      /\ UNCHANGED <<ceremonies, asked, handles, passkeys, people, made, outcomes>>
  BY DEF FindUser, At
<1>2. CASE Ends(r)
  BY <1>1, <1>2, EndsKeeps
<1>3. CASE GoesTo(r, "settle")
  <2>1. /\ req' \in [Request -> RequestState] /\ OneMoves(r)
        /\ req'[r].at = "settle" /\ req'[r].stored = req[r].stored
        /\ req'[r].ceremony = req[r].ceremony /\ req'[r].credential = req[r].credential
    BY <1>1, <1>3, GoesIn DEF IInv, OneMoves
  <2>2. Backed(req[r])
    BY DEF IInv
  <2>3. Backed(req'[r])
    BY <1>1, <2>1, <2>2 DEF Backed, PastClaim, Asserted
  <2>4. ClaimsRightly(r)
    BY <1>1, <2>1 DEF IInv, InOnePlace, ClaimsRightly, PastClaim
  <2> QED BY <1>1, <2>1, <2>3, <2>4, Onward
<1> QED BY <1>2, <1>3 DEF FindUser

LEMMA SettleKeeps ==
    ASSUME IInv, NEW r \in Request, Settle(r)
    PROVE  IInv'
<1> DEFINE u == req[r].stored.user
           how == IF req[r].user = u THEN "elevated" ELSE "signed in"
<1>1. /\ req[r].at = "settle" /\ Ends(r)
      /\ outcomes' = outcomes \cup {Outcome(r, u, how)}
      /\ UNCHANGED <<ceremonies, asked, handles, passkeys, people, made>>
  BY DEF Settle, At
<1>2. how \in {"registered", "elevated", "signed in"} /\ how # "registered"
  OBVIOUS
<1>3. /\ u \in User
      /\ asked[req[r].ceremony].ceremony = "authentication"
      /\ asked[req[r].ceremony].user \in {None, u}
      /\ made[req[r].credential].user = u
  BY <1>1 DEF IInv, Backed, Asserted, Bound, Passkey
<1> HIDE DEF u, how
<1>4. OneMoves(r)
  BY <1>1, EndsIn DEF IInv, OneMoves
<1>5. passkeys' \subseteq Passkey /\ RegisteredAsMade'
  BY <1>1, <1>4, SameGrows, RegisteredKept DEF IInv, CeremoniesTypeOK
<1> QED BY <1>1, <1>2, <1>3, <1>5, OutcomeKeeps

-----------------------------------------------------------------------------
(* Rows that go *)

LEMMA RowsGo ==
    ASSUME IInv, ceremonies' \subseteq ceremonies, passkeys' \subseteq passkeys,
           UNCHANGED <<asked, handles, people, made, req, outcomes>>
    PROVE  IInv'
<1>1. OneMoves(Initial) /\ Initial \notin Request /\ Grows
  BY NobodyMoves, SameGrows
<1>2. CeremoniesTypeOK'
  BY DEF IInv, CeremoniesTypeOK
<1>3. HandlesAgree' /\ HandleIsKept'
  BY <1>1, HandlesKept, HandleKept
<1> QED BY <1>1, <1>2, <1>3, BackedKept, MadeKept, RegisteredKept, PlaceKept, OutcomesKept DEF IInv

LEMMA DeleteUserKeeps ==
    ASSUME IInv, NEW u \in User, DeleteUser(u)
    PROVE  IInv'
<1>1. /\ passkeys' \subseteq passkeys /\ people' = people \ {u}
      /\ handles' = [handles EXCEPT ![u] = None]
      /\ UNCHANGED <<ceremonies, asked, made, req, outcomes>>
  BY DEF DeleteUser
<1>2. OneMoves(Initial) /\ Initial \notin Request /\ Grows
  BY <1>1, NobodyMoves, SameGrows
<1>3. handles' \in [User -> Id \cup {None}] /\ \A v \in people' : handles'[v] = handles[v]
  BY <1>1 DEF IInv, CeremoniesTypeOK
<1>4. CeremoniesTypeOK'
  BY <1>1, <1>3 DEF IInv, CeremoniesTypeOK
<1>5. HandlesAgree' /\ HandleIsKept'
  BY <1>1, <1>2, <1>3, HandlesKept, HandleKept
<1> QED BY <1>1, <1>2, <1>4, <1>5, BackedKept, MadeKept, RegisteredKept, PlaceKept, OutcomesKept DEF IInv

-----------------------------------------------------------------------------
(* The invariant *)

LEMMA IdleIsBacked == Backed(NoRequest) /\ ~PastClaim(NoRequest)
BY Idle DEF Backed, PastClaim, Asserted

LEMMA InvInit == CeremoniesInit => IInv
<1> SUFFICES ASSUME CeremoniesInit PROVE IInv
  OBVIOUS
<1> USE DEF CeremoniesInit
<1>1. Initial \in Id
  BY DEF Id
<1>2. \/ passkeys = {}
      \/ \E x \in Passkey : passkeys = {x} /\ x.id = Initial
  <2>1. ASSUME NEW u \in User, NEW k \in CredentialId
        PROVE  /\ [id |-> Initial, user |-> u, credential |-> k, signCount |-> 0,
                   uvInitialised |-> FALSE] \in Passkey
               /\ [id |-> Initial, user |-> u, credential |-> k, signCount |-> 0,
                   uvInitialised |-> FALSE].id = Initial
    BY <1>1, CountsAreNumbers DEF Passkey, Count
  <2>2. CASE passkeys = {}
    BY <2>2
  <2>3. CASE passkeys # {}
    <3>1. PICK u \in User, k \in CredentialId :
            passkeys = {[id |-> Initial, user |-> u, credential |-> k, signCount |-> 0,
                         uvInitialised |-> FALSE]}
      BY <2>3
    <3> QED BY <2>1, <3>1
  <2> QED BY <2>2, <2>3
<1>3. \A x \in passkeys : x \in Passkey /\ x.id = Initial /\ x = CHOOSE y \in passkeys : TRUE
  BY <1>2
<1>4. ASSUME NEW k \in CredentialId
      PROVE  /\ made[k] = None => \A x \in passkeys : x.credential # k
             /\ made[k] # None =>
                   /\ made[k] \in Made /\ made[k].ceremony = None /\ made[k].handle = Initial
                   /\ \E x \in passkeys : x.credential = k /\ x.user = made[k].user
  <2>1. CASE \E x \in passkeys : x.credential = k
    <3>1. PICK x \in passkeys : x.credential = k
      BY <2>1
    <3>2. made[k] = [ceremony |-> None, user |-> x.user, handle |-> Initial] /\ x.user \in User
      BY <1>3, <3>1 DEF Passkey
    <3>3. made[k] \in Made
      BY <1>1, <3>2 DEF Made
    <3> QED BY <3>1, <3>2, <3>3, NoneIsNothing
  <2>2. CASE ~\E x \in passkeys : x.credential = k
    BY <2>2
  <2> QED BY <2>1, <2>2
<1>5. CeremoniesTypeOK
  BY <1>1, <1>3, <1>4, Idle DEF CeremoniesTypeOK
<1>6. \A r \in Request : Backed(req[r]) /\ ~PastClaim(req[r])
  BY IdleIsBacked
<1>7. MadeAsAsked
  BY <1>4 DEF MadeAsAsked
<1>8. RegisteredAsMade
  <2>1. ASSUME NEW x \in passkeys PROVE made[x.credential] # None /\ made[x.credential].user = x.user
    <3>1. x.credential \in CredentialId
      BY <1>3 DEF Passkey
    <3> QED BY <1>3, <1>4, <3>1
  <2>2. \A x \in passkeys : x.id \in Request => req[x.id].at = "done"
    BY <1>3, InitialIsNew
  <2>3. \A x, y \in passkeys : x.id = y.id => x = y
    BY <1>3
  <2> QED BY <2>1, <2>2, <2>3 DEF RegisteredAsMade
<1>9. InOnePlace
  BY <1>6 DEF InOnePlace
<1>10. HandlesAgree
  BY Idle DEF HandlesAgree, At
<1>11. HandleIsKept
  BY <1>1, <1>4 DEF HandleIsKept
<1>12. OneUsePerCeremony /\ OutcomeIsOfItsCeremony
  BY DEF OneUsePerCeremony, OutcomeIsOfItsCeremony
<1> QED BY <1>5, <1>6, <1>7, <1>8, <1>9, <1>10, <1>11, <1>12 DEF IInv

LEMMA ServeKeeps ==
    ASSUME IInv, NEW r \in Request, Serve(r)
    PROVE  IInv'
<1>1. ASSUME NEW u \in User, RegistrationOptions(r, u) PROVE IInv'
  BY <1>1, RegistrationOptionsKeeps
<1>2. CASE CreateHandle(r)
  BY <1>2, CreateHandleKeeps
<1>3. CASE FindAgain(r)
  BY <1>3, FindAgainKeeps
<1>4. ASSUME NEW c \in Ceremony, IssueRegistration(r, c) PROVE IInv'
  BY <1>4, IssueRegistrationKeeps
<1>5. ASSUME NEW u \in User, NEW c \in Ceremony, NEW k \in CredentialId, VerifyRegistration(r, u, c, k)
      PROVE  IInv'
  BY <1>5, VerifyKeeps
<1>6. CASE ClaimRegistration(r) \/ ClaimAuthentication(r)
  BY <1>6, ClaimCeremonyKeeps
<1>7. ASSUME NEW n \in Count, NEW uv \in BOOLEAN, StorePasskey(r, n, uv) PROVE IInv'
  BY <1>7, StorePasskeyKeeps
<1>8. ASSUME NEW u \in User \cup {None}, NEW c \in Ceremony, NEW k \in CredentialId,
             Authenticate(r, u, c, k)
      PROVE  IInv'
  BY <1>8, VerifyKeeps
<1>9. CASE FindCredential(r)
  BY <1>9, FindCredentialKeeps
<1>10. ASSUME NEW told \in BOOLEAN, NEW signed \in BOOLEAN, NEW n \in Count, NEW uv \in BOOLEAN,
              VerifyAssertion(r, told, signed, n, uv)
       PROVE  IInv'
  BY <1>10, VerifyAssertionKeeps
<1>11. CASE RecordUse(r)
  BY <1>11, RecordUseKeeps
<1>12. CASE FindUser(r)
  BY <1>12, FindUserKeeps
<1>13. CASE Settle(r)
  BY <1>13, SettleKeeps
<1>14. CASE LeaveCeremony(r)
  BY <1>14, EndsKeeps DEF LeaveCeremony
<1> QED BY <1>1, <1>2, <1>3, <1>4, <1>5, <1>6, <1>7, <1>8, <1>9, <1>10, <1>11, <1>12, <1>13, <1>14
        DEF Serve

LEMMA InvNext == IInv /\ [CeremoniesNext]_ceremonyVars => IInv'
<1> SUFFICES ASSUME IInv, [CeremoniesNext]_ceremonyVars PROVE IInv'
  OBVIOUS
<1>1. ASSUME NEW r \in Request, Serve(r) PROVE IInv'
  BY <1>1, ServeKeeps
<1>2. ASSUME NEW k \in CredentialId, NEW c \in Ceremony, Make(k, c) PROVE IInv'
  BY <1>2, MakeKeeps
<1>3. ASSUME NEW c \in Ceremony, NEW u \in User \cup {None}, AuthenticationOptions(c, u) PROVE IInv'
  BY <1>3, AuthenticationOptionsKeeps
<1>4. ASSUME NEW c \in Ceremony, Lapse(c) PROVE IInv'
  BY <1>4, RowsGo DEF Lapse
<1>5. ASSUME NEW x \in passkeys, Remove(x) PROVE IInv'
  BY <1>5, RowsGo DEF Remove
<1>6. ASSUME NEW u \in User, DeleteUser(u) PROVE IInv'
  BY <1>6, DeleteUserKeeps
<1>7. CASE UNCHANGED ceremonyVars
  <2>1. UNCHANGED <<ceremonies, asked, handles, passkeys, people, made, req, outcomes>>
    BY <1>7 DEF ceremonyVars
  <2> QED BY <2>1, RowsGo
<1> QED BY <1>1, <1>2, <1>3, <1>4, <1>5, <1>6, <1>7 DEF CeremoniesNext

LEMMA InvHolds == CeremoniesSpec => []IInv
BY InvInit, InvNext, PTL DEF CeremoniesSpec

\* Every reachable state is well typed.
THEOREM CeremoniesTypeCorrect == CeremoniesSpec => []CeremoniesTypeOK
<1>1. IInv => CeremoniesTypeOK
  BY DEF IInv
<1> QED BY <1>1, InvHolds, PTL

\* claim spends a ceremony before anything is looked at: it comes to one thing at most.
THEOREM CeremoniesEndOnce == CeremoniesSpec => []OneUsePerCeremony
<1>1. IInv => OneUsePerCeremony
  BY DEF IInv
<1> QED BY <1>1, InvHolds, PTL

\* A ceremony is completed only as what it was, by and for whom it was minted.
THEOREM OutcomesOfTheirCeremonies == CeremoniesSpec => []OutcomeIsOfItsCeremony
<1>1. IInv => OutcomeIsOfItsCeremony
  BY DEF IInv
<1> QED BY <1>1, InvHolds, PTL

\* ensureHandle: whoever wins the race for the handle, everybody is told the winner's.
THEOREM HandlesStay == CeremoniesSpec => []HandleIsKept
<1>1. IInv => HandleIsKept
  BY DEF IInv
<1> QED BY <1>1, InvHolds, PTL

\* A passkey that is there before and after a step was not stored by it.
LEMMA StoredIsNew ==
    ASSUME IInv, NEW r \in Request, NEW n \in Count, NEW uv \in BOOLEAN, StorePasskey(r, n, uv),
           NEW x \in passkeys, NEW y \in passkeys', x.id = y.id
    PROVE  y = x
<1>1. req[r].at = "store"
  BY DEF StorePasskey, At
<1>2. x.id # r
  BY <1>1 DEF IInv, RegisteredAsMade
<1>3. y \in passkeys
  BY <1>2 DEF StorePasskey
<1> QED BY <1>3 DEF IInv, RegisteredAsMade

MarkKept ==
    \A x \in passkeys, y \in passkeys' :
        x.id = y.id =>
            \/ y.signCount >= x.signCount /\ (x.uvInitialised => y.uvInitialised)
            \/ \E r \in Request : At(r, "record") /\ req[r].stored.id = x.id /\ req[r].stored # x

LEMMA CountsOfRows == IInv => \A x \in passkeys : x.signCount \in Nat
<1> SUFFICES ASSUME IInv, NEW x \in passkeys PROVE x.signCount \in Nat
  OBVIOUS
<1>1. x \in Passkey
  BY DEF IInv, CeremoniesTypeOK
<1>2. x.signCount \in 0..MaxCount
  BY <1>1 DEF Passkey, Count
<1> QED BY <1>2, CountsAreNumbers

LEMMA RecordKeepsMark ==
    ASSUME IInv, NEW r \in Request, RecordUse(r)
    PROVE  MarkKept
<1> SUFFICES ASSUME NEW x \in passkeys, NEW y \in passkeys', x.id = y.id,
                    x.id = req[r].stored.id => req[r].stored = x
             PROVE  y.signCount >= x.signCount /\ (x.uvInitialised => y.uvInitialised)
  BY DEF MarkKept, RecordUse
<1>1. y = RecordedAs(r, x)
  <2>1. PICK z \in passkeys : y = RecordedAs(r, z) /\ y.id = z.id
    BY RecordWrites
  <2>2. z = x
    BY <2>1 DEF IInv, RegisteredAsMade
  <2> QED BY <2>1, <2>2
<1>2. x.signCount \in Nat
  BY CountsOfRows
<1>3. CASE x.id # req[r].stored.id
  BY <1>1, <1>2, <1>3, RecordWrites
<1>4. CASE x.id = req[r].stored.id
  <2>1. req[r].at = "record"
    BY DEF RecordUse, At
  <2>2. /\ req[r].use.signCount >= x.signCount
        /\ x.uvInitialised => req[r].use.uvInitialised
    BY <1>4, <2>1 DEF IInv, Backed
  <2> QED BY <1>1, <1>4, <2>2, RecordWrites
<1> QED BY <1>3, <1>4

LEMMA NextKeepsMark == IInv /\ [CeremoniesNext]_ceremonyVars => MarkKept
<1> SUFFICES ASSUME IInv, [CeremoniesNext]_ceremonyVars PROVE MarkKept
  OBVIOUS
<1>1. ASSUME \A x \in passkeys, y \in passkeys' : x.id = y.id => y = x
      PROVE  MarkKept
  <2>1. \A x \in passkeys : x.signCount \in Nat
    BY CountsOfRows
  <2> QED BY <1>1, <2>1 DEF MarkKept
<1>2. CASE passkeys' \subseteq passkeys
  BY <1>1, <1>2 DEF IInv, RegisteredAsMade
<1>3. ASSUME NEW r \in Request, NEW n \in Count, NEW uv \in BOOLEAN, StorePasskey(r, n, uv)
      PROVE  MarkKept
  BY <1>1, <1>3, StoredIsNew
<1>4. ASSUME NEW r \in Request, RecordUse(r) PROVE MarkKept
  BY <1>4, RecordKeepsMark
<1>5. ASSUME NEW r \in Request, Serve(r), ~RecordUse(r),
             \A n \in Count, uv \in BOOLEAN : ~StorePasskey(r, n, uv)
      PROVE  passkeys' = passkeys
  BY <1>5 DEF Serve, RegistrationOptions, CreateHandle, FindAgain, IssueRegistration, VerifyRegistration,
     ClaimRegistration, Authenticate, ClaimAuthentication, FindCredential, VerifyAssertion, FindUser,
     Settle, LeaveCeremony
<1>6. CASE CeremoniesNext
  <2>1. CASE \E r \in Request : Serve(r)
    BY <1>2, <1>3, <1>4, <1>5, <2>1
  <2>2. CASE ~\E r \in Request : Serve(r)
    <3>1. passkeys' \subseteq passkeys
      BY <1>6, <2>2 DEF CeremoniesNext, Make, AuthenticationOptions, Lapse, Remove, DeleteUser
    <3> QED BY <1>2, <3>1
  <2> QED BY <2>1, <2>2
<1>7. CASE UNCHANGED ceremonyVars
  BY <1>2, <1>7 DEF ceremonyVars
<1> QED BY <1>6, <1>7

\* recordUse writes the larger of two counters, and the older of two histories stays in
\* it, so the mark of a passkey falls only where the ceremony had read another row.
THEOREM MarksAreKept == CeremoniesSpec => MarkIsKept
<1>1. IInv /\ [CeremoniesNext]_ceremonyVars => [MarkKept]_ceremonyVars
  BY NextKeepsMark
<1> QED BY <1>1, InvHolds, PTL DEF CeremoniesSpec, MarkIsKept, MarkKept
=============================================================================
