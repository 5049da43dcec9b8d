-------------------------- MODULE PasswordsProofs --------------------------
(***************************************************************************)
(* What holds of Passwords for any number of requests and passwords.       *)
(***************************************************************************)
EXTENDS Passwords, TLAPS

(* Types *)

LEMMA NoRequestIsTyped == NoRequest \in RequestState
<1>1. (CHOOSE p \in Password : TRUE) \in Password
  BY SomePassword
<1> QED BY <1>1 DEF NoRequest, RequestState, Op, Step, Writer

LEMMA InitTyped == Init => TypeOK
<1> SUFFICES ASSUME Init PROVE TypeOK
  OBVIOUS
<1>1. credential \in Credential \cup {NoCredential}
  BY DEF Init, Credential, Writer
<1>2. sessions \subseteq Session /\ links \subseteq Link
  BY DEF Init, Session, Link, Writer, Purpose
<1>3. req \in [Request -> RequestState]
  BY NoRequestIsTyped DEF Init
<1>4. before \in [Request -> [sessions : SUBSET Session, links : SUBSET Link]]
  BY DEF Init
<1> QED BY <1>1, <1>2, <1>3, <1>4, NobodyIsNoRequest DEF Init, TypeOK

\* What every step of a request leaves to the others.
LEMMA GoesTo ==
    ASSUME TypeOK, NEW r \in Request, NEW step \in Step, Goes(r, step)
    PROVE  /\ req' \in [Request -> RequestState]
           /\ req'[r].at = step
           /\ req'[r].op = req[r].op
           /\ req'[r].void = req[r].void
           /\ req'[r].drop = req[r].drop
           /\ req'[r].holding = req[r].holding
           /\ req'[r].revokes = req[r].revokes
           /\ \A q \in Request \ {r} : req'[q] = req[q]
<1>1. req' = [req EXCEPT ![r] = [req[r] EXCEPT !.at = step]]
  BY DEF Goes
<1>2. [req[r] EXCEPT !.at = step] \in RequestState
  BY DEF TypeOK, RequestState
<1>3. req[r] \in RequestState
  BY DEF TypeOK
<1>4. req'[r] = [req[r] EXCEPT !.at = step]
  BY <1>1 DEF TypeOK
<1>5. /\ req'[r].at = step
      /\ req'[r].op = req[r].op
      /\ req'[r].void = req[r].void
      /\ req'[r].drop = req[r].drop
      /\ req'[r].holding = req[r].holding
      /\ req'[r].revokes = req[r].revokes
  BY <1>3, <1>4 DEF RequestState
<1>6. \A q \in Request \ {r} : req'[q] = req[q]
  BY <1>1 DEF TypeOK
<1> QED BY <1>1, <1>2, <1>5, <1>6 DEF TypeOK

LEMMA WrittenIsTyped ==
    ASSUME TypeOK, NEW r \in Request
    PROVE  Written(r) \in Credential /\ Written(r).by = r
<1>1. req[r].password \in Password
  BY DEF TypeOK, RequestState
<1> QED BY <1>1 DEF Written, Credential, Writer

\* What Retire and Drop do to their request.
LEMMA RetireTo ==
    ASSUME TypeOK, NEW r \in Request, Retire(r)
    PROVE  /\ req' \in [Request -> RequestState]
           /\ req'[r].at = IF req[r].op = "reset" THEN "drop" ELSE "commit"
           /\ req'[r].op = req[r].op
           /\ req'[r].void = links
           /\ req'[r].drop = req[r].drop
           /\ \A q \in Request \ {r} : req'[q] = req[q]
<1> DEFINE next == [req[r] EXCEPT !.void = links,
                        !.at = IF req[r].op = "reset" THEN "drop" ELSE "commit"]
<1>1. req[r] \in RequestState /\ links \subseteq Link
  BY DEF TypeOK
<1>2. next \in RequestState
  BY <1>1 DEF RequestState, Step
<1>3. req' = [req EXCEPT ![r] = next]
  BY DEF Retire
<1>4. req'[r] = next /\ \A q \in Request \ {r} : req'[q] = req[q]
  BY <1>3 DEF TypeOK
<1>5. /\ next.at = IF req[r].op = "reset" THEN "drop" ELSE "commit"
      /\ next.op = req[r].op
      /\ next.void = links
      /\ next.drop = req[r].drop
  BY <1>1 DEF RequestState
<1> HIDE DEF next
<1> QED BY <1>2, <1>3, <1>4, <1>5 DEF TypeOK

LEMMA DropTo ==
    ASSUME TypeOK, NEW r \in Request, Drop(r)
    PROVE  /\ req' \in [Request -> RequestState]
           /\ req'[r].at = IF req[r].op = "reset" THEN "commit" ELSE "retire"
           /\ req'[r].op = req[r].op
           /\ req'[r].void = req[r].void
           /\ req'[r].drop = sessions
           /\ \A q \in Request \ {r} : req'[q] = req[q]
<1> DEFINE next == [req[r] EXCEPT !.drop = sessions,
                        !.at = IF req[r].op = "reset" THEN "commit" ELSE "retire"]
<1>1. req[r] \in RequestState /\ sessions \subseteq Session
  BY DEF TypeOK
<1>2. next \in RequestState
  BY <1>1 DEF RequestState, Step
<1>3. req' = [req EXCEPT ![r] = next]
  BY DEF Drop
<1>4. req'[r] = next /\ \A q \in Request \ {r} : req'[q] = req[q]
  BY <1>3 DEF TypeOK
<1>5. /\ next.at = IF req[r].op = "reset" THEN "commit" ELSE "retire"
      /\ next.op = req[r].op
      /\ next.void = req[r].void
      /\ next.drop = sessions
  BY <1>1 DEF RequestState
<1> HIDE DEF next
<1> QED BY <1>2, <1>3, <1>4, <1>5 DEF TypeOK

LEMMA StartTyped ==
    ASSUME TypeOK, NEW r \in Request, Start(r)
    PROVE  TypeOK'
<1> USE NobodyIsNoRequest
<1>1. ASSUME NEW p \in Password, SignIn(r, p) PROVE TypeOK'
  BY <1>1, NoRequestIsTyped
     DEF SignIn, TypeOK, RequestState, At, InTransaction, Has, Op, Step, Credential
<1>2. ASSUME NEW purpose \in Purpose, IssueLink(r, purpose) PROVE TypeOK'
  BY <1>2, GoesTo DEF IssueLink, TypeOK, At, InTransaction, Link, Step, Writer
<1>3. ASSUME NEW l \in links, NEW p \in Password, ClaimReset(r, l, p) PROVE TypeOK'
  BY <1>3, NoRequestIsTyped
     DEF ClaimReset, TypeOK, At, Begins, Remembers, RequestState, InTransaction, Op, Step
<1>4. ASSUME NEW s \in sessions, NEW current \in Password, NEW p \in Password,
             NEW revokes \in {"none", "others", "all"}, VerifyChange(r, s, current, p, revokes)
      PROVE TypeOK'
  BY <1>4, NoRequestIsTyped
     DEF VerifyChange, TypeOK, At, Has, Remembers, RequestState, InTransaction, Op, Step,
         Credential, Session
<1>5. ASSUME NEW s \in sessions, NEW p \in Password, CheckUnset(r, s, p) PROVE TypeOK'
  BY <1>5, NoRequestIsTyped
     DEF CheckUnset, TypeOK, At, Begins, RequestState, InTransaction, Op, Step
<1>6. CASE FindUser(r)
  BY <1>6, NoRequestIsTyped
     DEF FindUser, TypeOK, At, Remembers, RequestState, InTransaction, Op, Step
<1>7. CASE VerifyEmail(r)
  BY <1>7, GoesTo DEF VerifyEmail, TypeOK, At, InTransaction, Step
<1> QED BY <1>1, <1>2, <1>3, <1>4, <1>5, <1>6, <1>7 DEF Start

LEMMA ContinueTyped ==
    ASSUME TypeOK, NEW r \in Request, Continue(r) \/ Abandon(r)
    PROVE  TypeOK'
<1> USE NobodyIsNoRequest
<1>1. CASE Mint(r)
  <2>1. [id |-> r, via |-> req[r].via] \in Session
    BY DEF TypeOK, RequestState, Session, Writer
  <2> QED BY <2>1, <1>1, GoesTo DEF Mint, TypeOK, At, InTransaction, Step
<1>2. CASE UpdateHash(r)
  BY <1>2, GoesTo DEF UpdateHash, TypeOK, At, InTransaction, Step
<1>3. CASE LockUser(r)
  BY <1>3, GoesTo DEF LockUser, TypeOK, At, InTransaction, Step
<1>4. CASE InsertCredential(r)
  BY <1>4, GoesTo DEF InsertCredential, TypeOK, At, InTransaction, Step, Unlocks, Released
<1>5. CASE Retire(r)
  BY <1>5, RetireTo DEF Retire, TypeOK, At, InTransaction
<1>6. CASE Drop(r)
  BY <1>6, DropTo DEF Drop, TypeOK, At, InTransaction
<1>7. CASE CommitReset(r)
  BY <1>7, GoesTo, WrittenIsTyped
     DEF CommitReset, TypeOK, At, InTransaction, Step, Unlocks, Released, Credential
<1>8. CASE ChangeHash(r)
  BY <1>8, GoesTo, WrittenIsTyped DEF ChangeHash, TypeOK, At, InTransaction, Step
<1>9. CASE ChangeRetire(r)
  BY <1>9, GoesTo DEF ChangeRetire, TypeOK, At, InTransaction, Step
<1>10. CASE ChangeRevoke(r)
  <2>1. sessions' \subseteq sessions /\ Goes(r, "done")
    <3>1. req[r].revokes \in {"none", "others", "all"}
      BY DEF TypeOK, RequestState
    <3> QED BY <3>1, <1>10 DEF ChangeRevoke
  <2> QED BY <2>1, <1>10, GoesTo DEF ChangeRevoke, TypeOK, At, InTransaction, Step
<1>11. CASE SetHash(r)
  BY <1>11, GoesTo, WrittenIsTyped DEF SetHash, TypeOK, At, InTransaction, Step
<1>12. CASE CommitSet(r)
  BY <1>12, GoesTo, WrittenIsTyped DEF CommitSet, TypeOK, At, InTransaction, Step, Unlocks, Released
<1>13. CASE Sweep(r)
  BY <1>13, GoesTo DEF Sweep, TypeOK, At, InTransaction, Step
<1>14. CASE CommitReclaim(r)
  BY <1>14, GoesTo DEF CommitReclaim, TypeOK, At, InTransaction, Step, Unlocks, Released
<1>15. CASE Enter(r)
  BY <1>15, GoesTo DEF Enter, TypeOK, At, InTransaction, Step, Session, Link, Purpose, Writer
<1>16. CASE Abandon(r)
  BY <1>16, GoesTo DEF Abandon, TypeOK, At, InTransaction, Step, Unlocks, Released
<1> QED BY <1>1, <1>2, <1>3, <1>4, <1>5, <1>6, <1>7, <1>8, <1>9, <1>10, <1>11, <1>12, <1>13, <1>14, <1>15, <1>16 DEF Continue

\* Type correctness, and no lock outlives its transaction.
THEOREM TypeCorrect == Spec => []TypeOK
<1>1. TypeOK /\ [Next]_vars => TypeOK'
  <2> SUFFICES ASSUME TypeOK, [Next]_vars PROVE TypeOK'
    OBVIOUS
  <2>1. CASE UNCHANGED vars
    BY <2>1 DEF vars, TypeOK, InTransaction
  <2>2. CASE Next
    BY <2>2, StartTyped, ContinueTyped DEF Next
  <2> QED BY <2>1, <2>2
<1> QED BY InitTyped, <1>1, PTL DEF Spec

-----------------------------------------------------------------------------
(* What a step of a request does to what the others see *)

\* How a request starts.
LEMMA StartTo ==
    ASSUME TypeOK, NEW r \in Request, Start(r)
    PROVE  /\ At(r, "idle")
           /\ \A q \in Request \ {r} : req'[q] = req[q]
           /\ \/ req'[r].at = "done"
              \/ req'[r].op = "signIn" /\ req'[r].at = "mint"
              \/ req'[r].op = "reset" /\ req'[r].at = "update"
              \/ req'[r].op = "change" /\ req'[r].at = "changeHash"
              \/ req'[r].op = "set" /\ req'[r].at \in {"lock", "setHash"}
              \/ req'[r].op = "settle" /\ req'[r].at \in {"lock", "enter"}
<1>1. ASSUME NEW p \in Password, SignIn(r, p)
      PROVE  At(r, "idle") /\ (\A q \in Request \ {r} : req'[q] = req[q])
             /\ req'[r].op = "signIn" /\ req'[r].at = "mint"
  BY <1>1 DEF SignIn, TypeOK, NoRequest
<1>2. ASSUME NEW purpose \in Purpose, IssueLink(r, purpose)
      PROVE  At(r, "idle") /\ (\A q \in Request \ {r} : req'[q] = req[q])
             /\ req'[r].at = "done"
  BY <1>2, GoesTo DEF IssueLink, Step
<1>3. ASSUME NEW l \in links, NEW p \in Password, ClaimReset(r, l, p)
      PROVE  At(r, "idle") /\ (\A q \in Request \ {r} : req'[q] = req[q])
             /\ req'[r].op = "reset" /\ req'[r].at = "update"
  BY <1>3 DEF ClaimReset, Begins, TypeOK, NoRequest
<1>4. ASSUME NEW s \in sessions, NEW current \in Password, NEW p \in Password,
             NEW revokes \in {"none", "others", "all"}, VerifyChange(r, s, current, p, revokes)
      PROVE  At(r, "idle") /\ (\A q \in Request \ {r} : req'[q] = req[q])
             /\ req'[r].op = "change" /\ req'[r].at = "changeHash"
  BY <1>4 DEF VerifyChange, TypeOK, NoRequest
<1>5. ASSUME NEW s \in sessions, NEW p \in Password, CheckUnset(r, s, p)
      PROVE  At(r, "idle") /\ (\A q \in Request \ {r} : req'[q] = req[q])
             /\ req'[r].op = "set" /\ req'[r].at \in {"lock", "setHash"}
  BY <1>5 DEF CheckUnset, Begins, TypeOK, NoRequest
<1>6. ASSUME FindUser(r)
      PROVE  At(r, "idle") /\ (\A q \in Request \ {r} : req'[q] = req[q])
             /\ req'[r].op = "settle" /\ req'[r].at \in {"lock", "enter"}
  BY <1>6 DEF FindUser, TypeOK, NoRequest
<1>7. ASSUME VerifyEmail(r)
      PROVE  At(r, "idle") /\ (\A q \in Request \ {r} : req'[q] = req[q])
             /\ req'[r].at = "done"
  BY <1>7, GoesTo DEF VerifyEmail, Step
<1> QED BY <1>1, <1>2, <1>3, <1>4, <1>5, <1>6, <1>7 DEF Start

\* A request that is under way keeps its operation and is not done, and no other
\* request is moved.
LEMMA ContinueTo ==
    ASSUME TypeOK, NEW r \in Request, Continue(r) \/ Abandon(r)
    PROVE  /\ req[r].at \notin {"idle", "done"}
           /\ req'[r].at # "idle"
           /\ req'[r].op = req[r].op
           /\ \A q \in Request \ {r} : req'[q] = req[q]
<1>1. CASE Mint(r)
  BY <1>1, GoesTo DEF Mint, At, Step
<1>2. CASE UpdateHash(r)
  BY <1>2, GoesTo DEF UpdateHash, At, Step
<1>3. CASE LockUser(r)
  BY <1>3, GoesTo DEF LockUser, At, Step
<1>4. CASE InsertCredential(r)
  BY <1>4, GoesTo DEF InsertCredential, At, Step
<1>5. CASE Retire(r)
  <2>1. req[r].at = "retire"
    BY <1>5 DEF Retire, At
  <2> QED BY <2>1, <1>5, RetireTo
<1>6. CASE Drop(r)
  <2>1. req[r].at = "drop"
    BY <1>6 DEF Drop, At
  <2> QED BY <2>1, <1>6, DropTo
<1>7. CASE CommitReset(r)
  BY <1>7, GoesTo DEF CommitReset, At, Step
<1>8. CASE ChangeHash(r)
  BY <1>8, GoesTo DEF ChangeHash, At, Step
<1>9. CASE ChangeRetire(r)
  BY <1>9, GoesTo DEF ChangeRetire, At, Step
<1>10. CASE ChangeRevoke(r)
  BY <1>10, GoesTo DEF ChangeRevoke, At, Step
<1>11. CASE SetHash(r)
  BY <1>11, GoesTo DEF SetHash, At, Step
<1>12. CASE CommitSet(r)
  BY <1>12, GoesTo DEF CommitSet, At, Step
<1>13. CASE Sweep(r)
  BY <1>13, GoesTo DEF Sweep, At, Step
<1>14. CASE CommitReclaim(r)
  BY <1>14, GoesTo DEF CommitReclaim, At, Step
<1>15. CASE Enter(r)
  BY <1>15, GoesTo DEF Enter, At, Step
<1>16. CASE Abandon(r)
  BY <1>16, GoesTo DEF Abandon, At, Step
<1> QED BY <1>1, <1>2, <1>3, <1>4, <1>5, <1>6, <1>7, <1>8, <1>9, <1>10, <1>11, <1>12, <1>13, <1>14, <1>15, <1>16 DEF Continue

\* Who did what is told apart by the request that did it: what a step adds is of
\* a request that was not done before and is done after it.
LEMMA StepAdds ==
    ASSUME TypeOK, NEW r \in Request, Start(r) \/ Continue(r) \/ Abandon(r)
    PROVE  /\ \A s \in sessions' \ sessions : s.id = r /\ req'[r].at = "done"
           /\ \A l \in links' \ links : l.by = r /\ req'[r].at = "done"
           /\ \A q \in Request \ {r} : before'[q] = before[q]
           /\ ~At(r, "idle") => before' = before
           /\ before' = before \/ (/\ before'[r].sessions \subseteq sessions
                                   /\ before'[r].links \subseteq links)
<1> DEFINE Adds ==
           /\ \A s \in sessions' \ sessions : s.id = r /\ req'[r].at = "done"
           /\ \A l \in links' \ links : l.by = r /\ req'[r].at = "done"
           /\ \A q \in Request \ {r} : before'[q] = before[q]
           /\ ~At(r, "idle") => before' = before
           /\ before' = before \/ (/\ before'[r].sessions \subseteq sessions
                                   /\ before'[r].links \subseteq links)
<1>1. ASSUME NEW p \in Password, SignIn(r, p) PROVE Adds
  BY <1>1 DEF SignIn, TypeOK, Step
<1>2. ASSUME NEW purpose \in Purpose, IssueLink(r, purpose) PROVE Adds
  BY <1>2, GoesTo DEF IssueLink, TypeOK, Step
<1>3. ASSUME NEW l \in links, NEW p \in Password, ClaimReset(r, l, p) PROVE Adds
  BY <1>3 DEF ClaimReset, TypeOK, Step, Remembers, Begins, At
<1>4. ASSUME NEW s \in sessions, NEW current \in Password, NEW p \in Password,
             NEW revokes \in {"none", "others", "all"}, VerifyChange(r, s, current, p, revokes) PROVE Adds
  BY <1>4 DEF VerifyChange, TypeOK, Step, Remembers, Begins, At
<1>5. ASSUME NEW s \in sessions, NEW p \in Password, CheckUnset(r, s, p) PROVE Adds
  BY <1>5 DEF CheckUnset, TypeOK, Step
<1>6. ASSUME FindUser(r) PROVE Adds
  BY <1>6 DEF FindUser, TypeOK, Step, Remembers, Begins, At
<1>7. ASSUME VerifyEmail(r) PROVE Adds
  BY <1>7 DEF VerifyEmail, TypeOK, Step
<1>8. CASE Mint(r)
  BY <1>8, GoesTo DEF Mint, TypeOK, At, Step
<1>9. CASE UpdateHash(r)
  BY <1>9, GoesTo DEF UpdateHash, TypeOK, At, Step
<1>10. CASE LockUser(r)
  BY <1>10, GoesTo DEF LockUser, TypeOK, At, Step
<1>11. CASE InsertCredential(r)
  BY <1>11, GoesTo DEF InsertCredential, TypeOK, At, Step
<1>12. CASE Retire(r)
  BY <1>12, RetireTo DEF Retire, TypeOK, At, Step
<1>13. CASE Drop(r)
  BY <1>13, DropTo DEF Drop, TypeOK, At, Step
<1>14. CASE CommitReset(r)
  BY <1>14, GoesTo DEF CommitReset, TypeOK, At, Step
<1>15. CASE ChangeHash(r)
  BY <1>15, GoesTo DEF ChangeHash, TypeOK, At, Step
<1>16. CASE ChangeRetire(r)
  BY <1>16, GoesTo DEF ChangeRetire, TypeOK, At, Step
<1>17. CASE ChangeRevoke(r)
  <2>1. sessions' \subseteq sessions
    <3>1. req[r].revokes \in {"none", "others", "all"}
      BY DEF TypeOK, RequestState
    <3> QED BY <3>1, <1>17 DEF ChangeRevoke
  <2> QED BY <2>1, <1>17 DEF ChangeRevoke
<1>18. CASE SetHash(r)
  BY <1>18, GoesTo DEF SetHash, TypeOK, At, Step
<1>19. CASE CommitSet(r)
  BY <1>19, GoesTo DEF CommitSet, TypeOK, At, Step
<1>20. CASE Sweep(r)
  BY <1>20, GoesTo DEF Sweep, TypeOK, At, Step
<1>21. CASE CommitReclaim(r)
  BY <1>21, GoesTo DEF CommitReclaim, TypeOK, At, Step
<1>22. CASE Enter(r)
  BY <1>22, GoesTo DEF Enter, TypeOK, At, Step
<1>23. CASE Abandon(r)
  BY <1>23, GoesTo DEF Abandon, TypeOK, At, Step
<1> QED BY <1>1, <1>2, <1>3, <1>4, <1>5, <1>6, <1>7, <1>8, <1>9, <1>10, <1>11, <1>12, <1>13, <1>14, <1>15, <1>16, <1>17, <1>18, <1>19, <1>20, <1>21, <1>22, <1>23 DEF Start, Continue

-----------------------------------------------------------------------------
(* The invariant *)

\* Where a request is says what it is doing.
Roles ==
    \A r \in Request :
        /\ req[r].at = "update" => req[r].op = "reset"
        /\ req[r].at \in {"changeHash", "changeRetire", "changeRevoke"} => req[r].op = "change"
        /\ req[r].at = "setHash" => req[r].op = "set"
        /\ req[r].at \in {"lock", "commit"} => req[r].op \in {"reset", "set", "settle"}
        /\ req[r].at = "insert" => req[r].op \in {"reset", "set"}
        /\ req[r].at \in {"retire", "drop"} => req[r].op \in {"reset", "settle"}
        /\ req[r].at \in {"sweep", "enter"} => req[r].op = "settle"

\* A session or a link of a request, past or present, is of one that is done: so
\* what is added is in nobody's memory.
Old(x) == x \in Request => req[x].at = "done"

Fresh ==
    /\ \A s \in sessions : Old(s.id)
    /\ \A l \in links : Old(l.by)
    /\ \A r \in Request : \A s \in before[r].sessions : Old(s.id)
    /\ \A r \in Request : \A l \in before[r].links : Old(l.by)

LEMMA RolesStep ==
    ASSUME TypeOK, Roles, NEW r \in Request, Start(r) \/ Continue(r) \/ Abandon(r)
    PROVE  Roles'
<1>1. CASE Start(r)
  BY <1>1, StartTo DEF Roles
<1>2. CASE Mint(r)
  BY <1>2, GoesTo DEF Mint, At, Step, Roles
<1>3. CASE UpdateHash(r)
  BY <1>3, GoesTo DEF UpdateHash, At, Step, Roles
<1>4. CASE LockUser(r)
  BY <1>4, GoesTo DEF LockUser, At, Step, Roles
<1>5. CASE InsertCredential(r)
  BY <1>5, GoesTo DEF InsertCredential, At, Step, Roles
<1>6. CASE Retire(r)
  <2>1. req[r].at = "retire"
    BY <1>6 DEF Retire, At
  <2> QED BY <2>1, <1>6, RetireTo DEF Roles
<1>7. CASE Drop(r)
  <2>1. req[r].at = "drop"
    BY <1>7 DEF Drop, At
  <2> QED BY <2>1, <1>7, DropTo DEF Roles
<1>8. CASE CommitReset(r)
  BY <1>8, GoesTo DEF CommitReset, At, Step, Roles
<1>9. CASE ChangeHash(r)
  BY <1>9, GoesTo DEF ChangeHash, At, Step, Roles
<1>10. CASE ChangeRetire(r)
  BY <1>10, GoesTo DEF ChangeRetire, At, Step, Roles
<1>11. CASE ChangeRevoke(r)
  BY <1>11, GoesTo DEF ChangeRevoke, At, Step, Roles
<1>12. CASE SetHash(r)
  BY <1>12, GoesTo DEF SetHash, At, Step, Roles
<1>13. CASE CommitSet(r)
  BY <1>13, GoesTo DEF CommitSet, At, Step, Roles
<1>14. CASE Sweep(r)
  BY <1>14, GoesTo DEF Sweep, At, Step, Roles
<1>15. CASE CommitReclaim(r)
  BY <1>15, GoesTo DEF CommitReclaim, At, Step, Roles
<1>16. CASE Enter(r)
  BY <1>16, GoesTo DEF Enter, At, Step, Roles
<1>17. CASE Abandon(r)
  BY <1>17, GoesTo DEF Abandon, At, Step, Roles
<1> QED BY <1>1, <1>2, <1>3, <1>4, <1>5, <1>6, <1>7, <1>8, <1>9, <1>10, <1>11, <1>12, <1>13, <1>14, <1>15, <1>16, <1>17 DEF Continue

\* Who is done stays done, so what is old stays old.
LEMMA OldStaysOld ==
    ASSUME TypeOK, NEW r \in Request, Start(r) \/ Continue(r) \/ Abandon(r)
    PROVE  /\ req[r].at # "done"
           /\ \A x : Old(x) => Old(x)'
<1>1. req[r].at # "done" /\ \A q \in Request \ {r} : req'[q] = req[q]
  BY StartTo, ContinueTo DEF At
<1> QED BY <1>1 DEF Old

LEMMA FreshStep ==
    ASSUME TypeOK, Fresh, NEW r \in Request, Start(r) \/ Continue(r) \/ Abandon(r)
    PROVE  Fresh'
<1>1. \A x : Old(x) => Old(x)'
  BY OldStaysOld
<1>2. \A s \in sessions' : Old(s.id)'
  BY <1>1, StepAdds DEF Fresh, Old
<1>3. \A l \in links' : Old(l.by)'
  BY <1>1, StepAdds DEF Fresh, Old
<1>4. ASSUME NEW q \in Request
      PROVE  /\ \A s \in before'[q].sessions : Old(s.id)'
             /\ \A l \in before'[q].links : Old(l.by)'
  <2>1. /\ before'[q].sessions \subseteq before[q].sessions \cup sessions
        /\ before'[q].links \subseteq before[q].links \cup links
    BY StepAdds
  <2> QED BY <2>1, <1>1 DEF Fresh
<1> QED BY <1>2, <1>3, <1>4 DEF Fresh

\* Who holds which row when, and what a sweep of the account has seen so far.
Locked(r) ==
    /\ req[r].at = "insert" => userLock = r
    /\ req[r].at \in {"retire", "drop", "commit"} /\ req[r].op = "reset" => r \in {userLock, rowLock}
    /\ req[r].at = "commit" /\ req[r].op = "set" => userLock = r
    /\ req[r].at \in {"sweep", "drop", "retire", "commit"} /\ req[r].op = "settle" => userLock = r
    /\ req[r].at \in {"drop", "retire", "commit"} /\ req[r].op = "settle"
         => credential = NoCredential \/ rowLock = r
    /\ req[r].at \in {"retire", "commit"} /\ req[r].op = "settle" => sessions \subseteq req[r].drop

Locks ==
    /\ rowLock # Nobody => credential # NoCredential
    /\ \A r \in Request : Locked(r)

LEMMA StartShares ==
    ASSUME NEW r \in Request, Start(r)
    PROVE  UNCHANGED <<credential, sessions, userLock, rowLock, secured, replaced>>
  BY DEF Start, SignIn, IssueLink, ClaimReset, VerifyChange, CheckUnset, FindUser, VerifyEmail

\* Only a row that is there is locked.
LEMMA RowLockStep ==
    ASSUME TypeOK, Roles, Locks, NEW r \in Request, Start(r) \/ Continue(r) \/ Abandon(r)
    PROVE  rowLock' # Nobody => credential' # NoCredential
<1> USE NobodyIsNoRequest, NoCredentialIsNone
<1>1. CASE Start(r)
  BY <1>1, StartShares DEF Locks
<1>2. CASE Mint(r)
  BY <1>2, WrittenIsTyped DEF Mint, Locks, TypeOK, At, Unlocks, Released, MayWriteRow
<1>3. CASE UpdateHash(r)
  BY <1>3, WrittenIsTyped DEF UpdateHash, Locks, TypeOK, At, Unlocks, Released, MayWriteRow
<1>4. CASE LockUser(r)
  BY <1>4, WrittenIsTyped DEF LockUser, Locks, TypeOK, At, Unlocks, Released, MayWriteRow
<1>5. CASE InsertCredential(r)
  BY <1>5, WrittenIsTyped DEF InsertCredential, Locks, TypeOK, At, Unlocks, Released, MayWriteRow
<1>6. CASE Retire(r)
  BY <1>6, WrittenIsTyped DEF Retire, Locks, TypeOK, At, Unlocks, Released, MayWriteRow
<1>7. CASE Drop(r)
  BY <1>7, WrittenIsTyped DEF Drop, Locks, TypeOK, At, Unlocks, Released, MayWriteRow
<1>8. CASE CommitReset(r)
  BY <1>8, WrittenIsTyped DEF CommitReset, Locks, TypeOK, At, Unlocks, Released, MayWriteRow
<1>9. CASE ChangeHash(r)
  BY <1>9, WrittenIsTyped DEF ChangeHash, Locks, TypeOK, At, Unlocks, Released, MayWriteRow
<1>10. CASE ChangeRetire(r)
  BY <1>10, WrittenIsTyped DEF ChangeRetire, Locks, TypeOK, At, Unlocks, Released, MayWriteRow
<1>11. CASE ChangeRevoke(r)
  BY <1>11, WrittenIsTyped DEF ChangeRevoke, Locks, TypeOK, At, Unlocks, Released, MayWriteRow
<1>12. CASE SetHash(r)
  BY <1>12, WrittenIsTyped DEF SetHash, Locks, TypeOK, At, Unlocks, Released, MayWriteRow
<1>13. CASE CommitSet(r)
  BY <1>13, WrittenIsTyped DEF CommitSet, Locks, TypeOK, At, Unlocks, Released, MayWriteRow
<1>14. CASE Sweep(r)
  BY <1>14, WrittenIsTyped DEF Sweep, Locks, TypeOK, At, Unlocks, Released, MayWriteRow
<1>15. CASE CommitReclaim(r)
  BY <1>15, WrittenIsTyped DEF CommitReclaim, Locks, TypeOK, At, Unlocks, Released, MayWriteRow
<1>16. CASE Enter(r)
  BY <1>16, WrittenIsTyped DEF Enter, Locks, TypeOK, At, Unlocks, Released, MayWriteRow
<1>17. CASE Abandon(r)
  BY <1>17, WrittenIsTyped DEF Abandon, Locks, TypeOK, At, Unlocks, Released, MayWriteRow
<1> QED BY <1>1, <1>2, <1>3, <1>4, <1>5, <1>6, <1>7, <1>8, <1>9, <1>10, <1>11, <1>12, <1>13, <1>14, <1>15, <1>16, <1>17 DEF Continue

\* What one request holds, no other step takes; and while it holds the user row,
\* nobody else adds a session or a credential.
LEMMA HeldIsKept ==
    ASSUME TypeOK, Roles, Locks, NEW r \in Request, Start(r) \/ Continue(r) \/ Abandon(r),
           NEW q \in Request \ {r}
    PROVE  /\ rowLock = q => rowLock' = q
           /\ userLock = q => userLock' = q /\ sessions' \subseteq sessions
           /\ userLock = q /\ (credential = NoCredential \/ rowLock = q)
                => credential' = NoCredential \/ rowLock' = q
<1> USE NobodyIsNoRequest, NoCredentialIsNone
<1> DEFINE Kept ==
           /\ rowLock = q => rowLock' = q
           /\ userLock = q => userLock' = q /\ sessions' \subseteq sessions
           /\ userLock = q /\ (credential = NoCredential \/ rowLock = q)
                => credential' = NoCredential \/ rowLock' = q
<1>1. CASE Start(r)
  BY <1>1, StartShares
<1>2. CASE Mint(r)
  BY <1>2 DEF Mint, Locks, Locked, At, Unlocks, Released, MayWriteRow, MayReference
<1>3. CASE UpdateHash(r)
  BY <1>3 DEF UpdateHash, Locks, Locked, At, Unlocks, Released, MayWriteRow, MayReference
<1>4. CASE LockUser(r)
  BY <1>4 DEF LockUser, Locks, Locked, At, Unlocks, Released, MayWriteRow, MayReference
<1>5. CASE InsertCredential(r)
  BY <1>5 DEF InsertCredential, Locks, Locked, At, Unlocks, Released, MayWriteRow, MayReference
<1>6. CASE Retire(r)
  BY <1>6 DEF Retire, Locks, Locked, At, Unlocks, Released, MayWriteRow, MayReference
<1>7. CASE Drop(r)
  BY <1>7 DEF Drop, Locks, Locked, At, Unlocks, Released, MayWriteRow, MayReference
<1>8. CASE CommitReset(r)
  BY <1>8 DEF CommitReset, Locks, Locked, At, Unlocks, Released, MayWriteRow, MayReference
<1>9. CASE ChangeHash(r)
  BY <1>9 DEF ChangeHash, Locks, Locked, At, Unlocks, Released, MayWriteRow, MayReference
<1>10. CASE ChangeRetire(r)
  BY <1>10 DEF ChangeRetire, Locks, Locked, At, Unlocks, Released, MayWriteRow, MayReference
<1>11. CASE ChangeRevoke(r)
  <2>1. req[r].revokes \in {"none", "others", "all"}
    BY DEF TypeOK, RequestState
  <2> QED BY <2>1, <1>11 DEF ChangeRevoke, At
<1>12. CASE SetHash(r)
  BY <1>12 DEF SetHash, Locks, Locked, At, Unlocks, Released, MayWriteRow, MayReference
<1>13. CASE CommitSet(r)
  BY <1>13 DEF CommitSet, Locks, Locked, At, Unlocks, Released, MayWriteRow, MayReference
<1>14. CASE Sweep(r)
  BY <1>14 DEF Sweep, Locks, Locked, At, Unlocks, Released, MayWriteRow, MayReference
<1>15. CASE CommitReclaim(r)
  BY <1>15 DEF CommitReclaim, Locks, Locked, At, Unlocks, Released, MayWriteRow, MayReference
<1>16. CASE Enter(r)
  BY <1>16 DEF Enter, Locks, Locked, At, Unlocks, Released, MayWriteRow, MayReference
<1>17. CASE Abandon(r)
  BY <1>17 DEF Abandon, Locks, Locked, At, Unlocks, Released, MayWriteRow, MayReference
<1> QED BY <1>1, <1>2, <1>3, <1>4, <1>5, <1>6, <1>7, <1>8, <1>9, <1>10, <1>11, <1>12, <1>13, <1>14, <1>15, <1>16, <1>17 DEF Continue

LEMMA OwnLocksStep ==
    ASSUME TypeOK, Roles, Locks, NEW r \in Request, Start(r) \/ Continue(r) \/ Abandon(r)
    PROVE  Locked(r)'
<1>1. CASE Start(r)
  BY <1>1, StartTo DEF Locked
<1>2. CASE Mint(r)
  BY <1>2, GoesTo DEF Mint, Roles, Locks, Locked, At, Step, Unlocks, Released, MayWriteRow
<1>3. CASE UpdateHash(r)
  BY <1>3, GoesTo DEF UpdateHash, Roles, Locks, Locked, At, Step, Unlocks, Released, MayWriteRow
<1>4. CASE LockUser(r)
  BY <1>4, GoesTo DEF LockUser, Roles, Locks, Locked, At, Step, Unlocks, Released, MayWriteRow
<1>5. CASE InsertCredential(r)
  BY <1>5, GoesTo DEF InsertCredential, Roles, Locks, Locked, At, Step, Unlocks, Released, MayWriteRow
<1>6. CASE Retire(r)
  <2>1. req[r].at = "retire" /\ UNCHANGED <<credential, sessions, userLock, rowLock>>
    BY <1>6 DEF Retire, At
  <2> QED BY <2>1, <1>6, RetireTo DEF Roles, Locks, Locked
<1>7. CASE Drop(r)
  <2>1. req[r].at = "drop" /\ UNCHANGED <<credential, sessions, userLock, rowLock>>
    BY <1>7 DEF Drop, At
  <2> QED BY <2>1, <1>7, DropTo DEF Roles, Locks, Locked
<1>8. CASE CommitReset(r)
  BY <1>8, GoesTo DEF CommitReset, Roles, Locks, Locked, At, Step, Unlocks, Released, MayWriteRow
<1>9. CASE ChangeHash(r)
  BY <1>9, GoesTo DEF ChangeHash, Roles, Locks, Locked, At, Step, Unlocks, Released, MayWriteRow
<1>10. CASE ChangeRetire(r)
  BY <1>10, GoesTo DEF ChangeRetire, Roles, Locks, Locked, At, Step, Unlocks, Released, MayWriteRow
<1>11. CASE ChangeRevoke(r)
  BY <1>11, GoesTo DEF ChangeRevoke, Roles, Locks, Locked, At, Step, Unlocks, Released, MayWriteRow
<1>12. CASE SetHash(r)
  BY <1>12, GoesTo DEF SetHash, Roles, Locks, Locked, At, Step, Unlocks, Released, MayWriteRow
<1>13. CASE CommitSet(r)
  BY <1>13, GoesTo DEF CommitSet, Roles, Locks, Locked, At, Step, Unlocks, Released, MayWriteRow
<1>14. CASE Sweep(r)
  BY <1>14, GoesTo DEF Sweep, Roles, Locks, Locked, At, Step, Unlocks, Released, MayWriteRow
<1>15. CASE CommitReclaim(r)
  BY <1>15, GoesTo DEF CommitReclaim, Roles, Locks, Locked, At, Step, Unlocks, Released, MayWriteRow
<1>16. CASE Enter(r)
  BY <1>16, GoesTo DEF Enter, Roles, Locks, Locked, At, Step, Unlocks, Released, MayWriteRow
<1>17. CASE Abandon(r)
  BY <1>17, GoesTo DEF Abandon, Roles, Locks, Locked, At, Step, Unlocks, Released, MayWriteRow
<1> QED BY <1>1, <1>2, <1>3, <1>4, <1>5, <1>6, <1>7, <1>8, <1>9, <1>10, <1>11, <1>12, <1>13, <1>14, <1>15, <1>16, <1>17 DEF Continue

LEMMA LocksStep ==
    ASSUME TypeOK, Roles, Locks, NEW r \in Request, Start(r) \/ Continue(r) \/ Abandon(r)
    PROVE  Locks'
<1>1. ASSUME NEW q \in Request \ {r} PROVE Locked(q)'
  <2>1. req'[q] = req[q]
    BY StartTo, ContinueTo
  <2>2. Locked(q)
    BY DEF Locks
  <2> QED BY <2>1, <2>2, HeldIsKept DEF Locked
<1>2. Locked(r)'
  BY OwnLocksStep
<1>3. (rowLock # Nobody => credential # NoCredential)'
  BY RowLockStep
<1> QED BY <1>1, <1>2, <1>3 DEF Locks

-----------------------------------------------------------------------------
(* What was there is gone *)

\* How far a request that re-secures the account has come: what it found is gone,
\* or among what its transaction has deleted.
Deleting(r) ==
    /\ req[r].at \in {"drop", "commit"} /\ req[r].op = "reset"
         => links \cap before[r].links \subseteq req[r].void
    /\ req[r].at = "commit" /\ req[r].op = "settle"
         => links \cap before[r].links \subseteq req[r].void
    /\ req[r].at = "commit" /\ req[r].op = "reset"
         => sessions \cap before[r].sessions \subseteq req[r].drop
    /\ req[r].at = "changeRevoke" => links \cap before[r].links = {}

Revoking(r) ==
    req[r].at \in {"changeHash", "changeRetire", "changeRevoke"} =>
        /\ req[r].revokes = "none" => before[r].sessions = {}
        /\ req[r].revokes = "others" => \A s \in before[r].sessions : s.id # req[r].holding

Evicted(r) ==
    /\ req[r].at \in {"enter", "done"}
    /\ sessions \cap before[r].sessions = {}
    /\ links \cap before[r].links = {}

\* A credential of a request was written by one that had started, and one of a
\* reset by a reset that was whole.
Owns(r) ==
    credential # NoCredential /\ credential.by = r =>
        /\ req[r].at # "idle"
        /\ req[r].op = "reset" => r \in secured

Evicting(r) ==
    /\ Deleting(r)
    /\ Revoking(r)
    /\ r \in secured => Evicted(r)
    /\ Owns(r)

Inv ==
    /\ TypeOK
    /\ Roles
    /\ Fresh
    /\ Locks
    /\ \A r \in Request : Evicting(r)

\* Nothing that somebody remembers comes back.
LEMMA NothingReturns ==
    ASSUME TypeOK, Fresh, NEW r \in Request, Start(r) \/ Continue(r) \/ Abandon(r),
           NEW q \in Request
    PROVE  /\ sessions' \cap before[q].sessions \subseteq sessions
           /\ links' \cap before[q].links \subseteq links
<1>1. req[r].at # "done"
  BY OldStaysOld
<1>2. \A s \in before[q].sessions : s.id # r
  BY <1>1 DEF Fresh, Old
<1>3. \A l \in before[q].links : l.by # r
  BY <1>1 DEF Fresh, Old
<1> QED BY <1>2, <1>3, StepAdds

\* Who has re-secured the account, and who wrote its credential.
LEMMA StepCredits ==
    ASSUME TypeOK, NEW r \in Request, Start(r) \/ Continue(r) \/ Abandon(r)
    PROVE  /\ secured \subseteq secured' /\ secured' \subseteq secured \cup {r}
           /\ credential' = NoCredential \/ credential' = credential \/ credential'.by = r
<1>1. CASE Start(r)
  BY <1>1, StartShares
<1>2. CASE Mint(r)
  BY <1>2, WrittenIsTyped DEF Mint
<1>3. CASE UpdateHash(r)
  BY <1>3, WrittenIsTyped DEF UpdateHash
<1>4. CASE LockUser(r)
  BY <1>4, WrittenIsTyped DEF LockUser
<1>5. CASE InsertCredential(r)
  BY <1>5, WrittenIsTyped DEF InsertCredential
<1>6. CASE Retire(r)
  BY <1>6, WrittenIsTyped DEF Retire
<1>7. CASE Drop(r)
  BY <1>7, WrittenIsTyped DEF Drop
<1>8. CASE CommitReset(r)
  BY <1>8, WrittenIsTyped DEF CommitReset
<1>9. CASE ChangeHash(r)
  BY <1>9, WrittenIsTyped DEF ChangeHash
<1>10. CASE ChangeRetire(r)
  BY <1>10, WrittenIsTyped DEF ChangeRetire
<1>11. CASE ChangeRevoke(r)
  BY <1>11, WrittenIsTyped DEF ChangeRevoke
<1>12. CASE SetHash(r)
  BY <1>12, WrittenIsTyped DEF SetHash
<1>13. CASE CommitSet(r)
  BY <1>13, WrittenIsTyped DEF CommitSet
<1>14. CASE Sweep(r)
  BY <1>14, WrittenIsTyped DEF Sweep
<1>15. CASE CommitReclaim(r)
  BY <1>15, WrittenIsTyped DEF CommitReclaim
<1>16. CASE Enter(r)
  BY <1>16, WrittenIsTyped DEF Enter
<1>17. CASE Abandon(r)
  BY <1>17, WrittenIsTyped DEF Abandon
<1> QED BY <1>1, <1>2, <1>3, <1>4, <1>5, <1>6, <1>7, <1>8, <1>9, <1>10, <1>11, <1>12, <1>13, <1>14, <1>15, <1>16, <1>17 DEF Continue

LEMMA OthersEvicting ==
    ASSUME Inv, NEW r \in Request, Start(r) \/ Continue(r) \/ Abandon(r),
           NEW q \in Request \ {r}
    PROVE  Evicting(q)'
<1>1. req'[q] = req[q] /\ before'[q] = before[q]
  BY StartTo, ContinueTo, StepAdds DEF Inv
<1>2. Evicting(q)
  BY DEF Inv
<1>3. Deleting(q)' /\ Revoking(q)'
  BY <1>1, <1>2, NothingReturns DEF Inv, Evicting, Deleting, Revoking
<1>4. (q \in secured => Evicted(q))'
  BY <1>1, <1>2, NothingReturns, StepCredits DEF Inv, Evicting, Evicted
<1>5. Owns(q)'
  BY <1>1, <1>2, StepCredits DEF Inv, Evicting, Owns
<1> QED BY <1>3, <1>4, <1>5 DEF Evicting

\* A request that starts has done nothing yet.
LEMMA StartEvicting ==
    ASSUME Inv, NEW r \in Request, Start(r)
    PROVE  Evicting(r)'
<1>1. r \notin secured' /\ Owns(r)'
  BY StartTo, StartShares DEF Inv, Evicting, Evicted, Owns, At
<1>2. Deleting(r)'
  BY StartTo DEF Inv, Deleting
<1>3. Revoking(r)'
  <2>1. CASE \E s \in sessions, current, p \in Password, revokes \in {"none", "others", "all"} :
               VerifyChange(r, s, current, p, revokes)
    <3> PICK s \in sessions, current \in Password, p \in Password,
             revokes \in {"none", "others", "all"} : VerifyChange(r, s, current, p, revokes)
      BY <2>1
    <3>1. req'[r].revokes = revokes /\ req'[r].holding = s.id
      BY DEF VerifyChange, Inv, TypeOK, NoRequest
    <3>2. before'[r].sessions = CASE revokes = "none" -> {}
                                  [] revokes = "others" -> {t \in sessions : t.id # s.id}
                                  [] revokes = "all" -> sessions
      BY DEF VerifyChange, Inv, TypeOK, Remembers
    <3> QED BY <3>1, <3>2 DEF Revoking
  <2>2. CASE ~ \E s \in sessions, current, p \in Password, revokes \in {"none", "others", "all"} :
               VerifyChange(r, s, current, p, revokes)
    <3>1. req'[r].at \notin {"changeHash", "changeRetire", "changeRevoke"}
      <4>1. ASSUME NEW p \in Password, SignIn(r, p) PROVE req'[r].at = "mint"
        BY <4>1 DEF SignIn, Inv, TypeOK, NoRequest
      <4>2. ASSUME NEW purpose \in Purpose, IssueLink(r, purpose) PROVE req'[r].at = "done"
        BY <4>2, GoesTo DEF IssueLink, Inv, Step
      <4>3. ASSUME NEW l \in links, NEW p \in Password, ClaimReset(r, l, p)
            PROVE  req'[r].at = "update"
        BY <4>3 DEF ClaimReset, Begins, Inv, TypeOK, NoRequest
      <4>4. ASSUME NEW s \in sessions, NEW p \in Password, CheckUnset(r, s, p)
            PROVE  req'[r].at \in {"lock", "setHash"}
        BY <4>4 DEF CheckUnset, Begins, Inv, TypeOK, NoRequest
      <4>5. ASSUME FindUser(r) PROVE req'[r].at \in {"lock", "enter"}
        BY <4>5 DEF FindUser, Inv, TypeOK, NoRequest
      <4>6. ASSUME VerifyEmail(r) PROVE req'[r].at = "done"
        BY <4>6, GoesTo DEF VerifyEmail, Inv, Step
      <4> QED BY <2>2, <4>1, <4>2, <4>3, <4>4, <4>5, <4>6 DEF Start
    <3> QED BY <3>1 DEF Revoking
  <2> QED BY <2>1, <2>2
<1> QED BY <1>1, <1>2, <1>3 DEF Evicting

LEMMA ContinueEvicting ==
    ASSUME Inv, NEW r \in Request, Continue(r) \/ Abandon(r)
    PROVE  Evicting(r)'
<1>1. /\ before'[r] = before[r]
      /\ sessions' \cap before[r].sessions \subseteq sessions
      /\ links' \cap before[r].links \subseteq links
  BY StepAdds, ContinueTo, NothingReturns DEF Inv, At
<1>2. Evicting(r) /\ Locked(r) /\ TypeOK
  BY DEF Inv, Locks
<1>3. /\ req[r].at # "done" /\ req'[r].at # "idle" /\ req'[r].op = req[r].op
      /\ req[r].at # "idle"
  BY ContinueTo DEF Inv
<1>4. CASE Mint(r)
  BY <1>4, <1>1, <1>2, <1>3, GoesTo, WrittenIsTyped
     DEF Mint, At, Step, Inv, Roles, Evicting, Deleting, Revoking, Evicted, Owns
<1>5. CASE UpdateHash(r)
  BY <1>5, <1>1, <1>2, <1>3, GoesTo, WrittenIsTyped
     DEF UpdateHash, At, Step, Inv, Roles, Evicting, Deleting, Revoking, Evicted, Owns
<1>6. CASE LockUser(r)
  BY <1>6, <1>1, <1>2, <1>3, GoesTo, WrittenIsTyped
     DEF LockUser, At, Step, Inv, Roles, Evicting, Deleting, Revoking, Evicted, Owns
<1>7. CASE InsertCredential(r)
  BY <1>7, <1>1, <1>2, <1>3, GoesTo, WrittenIsTyped
     DEF InsertCredential, At, Step, Inv, Roles, Evicting, Deleting, Revoking, Evicted, Owns
<1>8. CASE Retire(r)
  <2>1. req[r].at = "retire" /\ UNCHANGED <<credential, sessions, links, secured>>
    BY <1>8 DEF Retire, At
  <2> QED BY <2>1, <1>8, <1>1, <1>2, <1>3, RetireTo
          DEF Evicting, Deleting, Revoking, Evicted, Owns
<1>9. CASE Drop(r)
  <2>1. req[r].at = "drop" /\ UNCHANGED <<credential, sessions, links, secured>>
    BY <1>9 DEF Drop, At
  <2> QED BY <2>1, <1>9, <1>1, <1>2, <1>3, DropTo
          DEF Evicting, Deleting, Revoking, Evicted, Owns
<1>10. CASE CommitReset(r)
  BY <1>10, <1>1, <1>2, <1>3, GoesTo, WrittenIsTyped
     DEF CommitReset, At, Step, Inv, Roles, Evicting, Deleting, Revoking, Evicted, Owns
<1>11. CASE ChangeHash(r)
  BY <1>11, <1>1, <1>2, <1>3, GoesTo, WrittenIsTyped
     DEF ChangeHash, At, Step, Inv, Roles, Evicting, Deleting, Revoking, Evicted, Owns
<1>12. CASE ChangeRetire(r)
  BY <1>12, <1>1, <1>2, <1>3, GoesTo, WrittenIsTyped
     DEF ChangeRetire, At, Step, Inv, Roles, Evicting, Deleting, Revoking, Evicted, Owns
<1>13. CASE ChangeRevoke(r)
  <2>1. req[r].revokes \in {"none", "others", "all"}
    BY <1>2 DEF TypeOK, RequestState
  <2>2. sessions' \cap before[r].sessions = {}
    BY <2>1, <1>13, <1>2 DEF ChangeRevoke, At, Evicting, Revoking
  <2> QED BY <2>2, <1>13, <1>1, <1>2, <1>3, GoesTo
          DEF ChangeRevoke, At, Step, Evicting, Deleting, Revoking, Evicted, Owns
<1>14. CASE SetHash(r)
  BY <1>14, <1>1, <1>2, <1>3, GoesTo, WrittenIsTyped
     DEF SetHash, At, Step, Inv, Roles, Evicting, Deleting, Revoking, Evicted, Owns
<1>15. CASE CommitSet(r)
  BY <1>15, <1>1, <1>2, <1>3, GoesTo, WrittenIsTyped
     DEF CommitSet, At, Step, Inv, Roles, Evicting, Deleting, Revoking, Evicted, Owns
<1>16. CASE Sweep(r)
  BY <1>16, <1>1, <1>2, <1>3, GoesTo, WrittenIsTyped
     DEF Sweep, At, Step, Inv, Roles, Evicting, Deleting, Revoking, Evicted, Owns
<1>17. CASE CommitReclaim(r)
  BY <1>17, <1>1, <1>2, <1>3, GoesTo, WrittenIsTyped
     DEF CommitReclaim, At, Step, Inv, Roles, Evicting, Deleting, Revoking, Evicted, Owns, Locked
<1>18. CASE Enter(r)
  BY <1>18, <1>1, <1>2, <1>3, GoesTo, WrittenIsTyped
     DEF Enter, At, Step, Inv, Roles, Evicting, Deleting, Revoking, Evicted, Owns
<1>19. CASE Abandon(r)
  BY <1>19, <1>1, <1>2, <1>3, GoesTo, WrittenIsTyped
     DEF Abandon, At, Step, Inv, Roles, Evicting, Deleting, Revoking, Evicted, Owns
<1> QED BY <1>4, <1>5, <1>6, <1>7, <1>8, <1>9, <1>10, <1>11, <1>12, <1>13, <1>14, <1>15, <1>16, <1>17, <1>18, <1>19 DEF Continue

LEMMA InitInv == Init => Inv
<1> SUFFICES ASSUME Init PROVE Inv
  OBVIOUS
<1> USE InitialIsNoRequest, NobodyIsNoRequest
<1>1. \A r \in Request : req[r].at = "idle" /\ req[r].op = "none"
  BY DEF Init, NoRequest
<1>2. Roles /\ Locks
  BY <1>1 DEF Init, Roles, Locks, Locked
<1>3. Fresh
  BY DEF Init, Fresh, Old
<1>4. \A r \in Request : Evicting(r)
  BY <1>1 DEF Init, Evicting, Deleting, Revoking, Owns
<1> QED BY <1>2, <1>3, <1>4, InitTyped DEF Inv

LEMMA NextInv == Inv /\ [Next]_vars => Inv'
<1> SUFFICES ASSUME Inv, [Next]_vars PROVE Inv'
  OBVIOUS
<1>1. CASE UNCHANGED vars
  BY <1>1 DEF vars, Inv, TypeOK, InTransaction, Roles, Fresh, Old, Locks, Locked,
              Evicting, Deleting, Revoking, Evicted, Owns
<1>2. ASSUME NEW r \in Request, Start(r) \/ Continue(r) \/ Abandon(r) PROVE Inv'
  <2>1. TypeOK' /\ Roles' /\ Fresh' /\ Locks'
    BY <1>2, StartTyped, ContinueTyped, RolesStep, FreshStep, LocksStep DEF Inv
  <2>2. \A q \in Request : Evicting(q)'
    BY <1>2, OthersEvicting, StartEvicting, ContinueEvicting
  <2> QED BY <2>1, <2>2 DEF Inv
<1> QED BY <1>1, <1>2 DEF Next

THEOREM Invariant == Spec => []Inv
  BY InitInv, NextInv, PTL DEF Spec

\* Who has re-secured the account has ended every session and every link that
\* was there when they began, however many others come and go meanwhile.
THEOREM WhatWasThereIsGone == Spec => []SecuredEvicts
<1>1. Inv => SecuredEvicts
  BY DEF Inv, TypeOK, SecuredEvicts, Evicting, Evicted
<1> QED BY <1>1, Invariant, PTL

\* A reset's password is in place only where no session of before is.
THEOREM ResetIsWhole == Spec => []ResetAllOrNothing
<1>1. Inv => ResetAllOrNothing
  BY DEF Inv, ResetAllOrNothing, Evicting, Evicted, Owns
<1> QED BY <1>1, Invariant, PTL

\* The sweep of an unproven account leaves no credential and no session.
THEOREM SweepIsComplete == Spec => SweepMissesNothing
<1>1. ASSUME Inv, Next, NEW r \in Request, Reclaims(r)
      PROVE  credential' = NoCredential /\ sessions' = {}
  <2>1. PICK q \in Request : Start(q) \/ Continue(q) \/ Abandon(q)
    BY <1>1 DEF Next
  <2>2. q = r
    BY <1>1, <2>1, StartTo, ContinueTo DEF Inv, Reclaims, At
  <2>3. ~Start(r)
    BY <1>1, StartTo DEF Inv, Reclaims, At
  <2>4. ~Abandon(r)
    BY <1>1, GoesTo DEF Abandon, Inv, Reclaims, At, Step
  <2>5. CommitReclaim(r)
    BY <1>1, <2>1, <2>2, <2>3, <2>4
       DEF Continue, Mint, UpdateHash, LockUser, InsertCredential, Retire, Drop, CommitReset,
           ChangeHash, ChangeRetire, ChangeRevoke, SetHash, CommitSet, Sweep, Enter, Reclaims, At
  <2> QED BY <2>5, <1>1 DEF CommitReclaim, Inv, Locks, Locked, Reclaims, At
<1>2. Inv /\ [Next]_vars
        => [\A r \in Request : Reclaims(r) => credential' = NoCredential /\ sessions' = {}]_vars
  BY <1>1
<1> QED BY <1>2, Invariant, PTL DEF Spec, SweepMissesNothing
=============================================================================
