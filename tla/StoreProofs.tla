---------------------------- MODULE StoreProofs -----------------------------
(***************************************************************************)
(* What TLAPS proves of the two stores that several callers share.         *)
(*                                                                         *)
(* Of Mutations, for any number of callers, rows and keys and any bound on *)
(* the retries: a row is answered to one of those who would remove it, at  *)
(* most, and each mutation is one step of the abstract Promise. A caller   *)
(* holds the row it writes from the statement that locks it to the end of  *)
(* its transaction, so what it read there is what it commits.              *)
(*                                                                         *)
(* Of RateLimiterStore, for any limits, rates and windows: the bound on    *)
(* what any span lets through, and that a window nobody sweeps is the same *)
(* window. Each algorithm keeps a level that every token raises by one     *)
(* rate. Whatever was let through since a time is paid for by what the     *)
(* level rose above that time; a call is let through where the level is    *)
(* not far ahead of its turn; so a span pays for no more than its own      *)
(* length and that much.                                                   *)
(***************************************************************************)
EXTENDS Mutations, RateLimiterStore, TLAPS

-----------------------------------------------------------------------------
(* Mutations: the invariant *)

\* A caller holds a row from the statement that locks it to the end of its
\* transaction, and holds no other.
Locking == {"erase", "write", "readBack", "insertedRead", "commit"}
Locks(q, k) == q.at \in Locking /\ q.scope # "gone" /\ q.op.key = k

Locked == \A c \in Caller, k \in Key : holder[k] = c <=> Locks(run[c], k)

\* Each statement belongs to one of the mutations.
StatementOf(q) ==
    /\ q.at \in {"claim", "erase"} => q.op.kind = "consume"
    /\ q.at = "write" => q.op.kind \in {"update", "touch"}
    /\ q.at = "readBack" => q.op.kind \in {"update", "touch", "upsert"}
    /\ q.at = "insertedRead" => q.op.kind = "insert"

\* A mutation is asked for once: whoever is idle has not begun, or is answered.
Asked(q, a) ==
    /\ q.at # "idle" => a = Pending
    /\ q.at = "idle" /\ a = Pending => q.scope = "own"

\* How far a mutation is with the row as it was committed, v, and is now, w.
Halfway(c, q, v, w) ==
    /\ q.at = "erase" => w = v /\ q.row = v /\ Promise!Matches(q.op, v)
    /\ q.at = "write" => w = v /\ Promise!Matches(q.op, v)
    /\ q.at = "readBack" => w = Promise!Effect(c, q.op, v).stored
    /\ q.at = "readBack" /\ q.op.kind # "upsert" => Promise!Matches(q.op, v)
    /\ q.at = "insertedRead" => v = Absent /\ w = Promise!Offered(c, q.op)
    /\ q.at = "commit" => Promise!Effect(c, q.op, v) = Promise!Outcome(w, q.row)

Progress ==
    \A c \in Caller :
        /\ StatementOf(run[c])
        /\ Asked(run[c], answer[c])
        /\ ~Gone(c) => Halfway(c, run[c], committed[Op(c).key], current[Op(c).key])

\* A caller that has put its row there does not put it there again.
Written(q, a) == q.at \in {"readBack", "insertedRead", "commit"} \/ a # Pending

\* The caller a row is from asked for a row of this key, and has written it.
From(v, k) ==
    v # Absent /\ v.by \in Caller =>
        Op(v.by).key = k /\ Op(v.by).kind \in {"insert", "upsert"} /\ Written(run[v.by], answer[v.by])

Origin == \A k \in Key : From(committed[k], k) /\ From(current[k], k)

\* What somebody was answered to have removed is not there, and does not return.
Removed(v, w) == v = Absent \/ v.by # w

Departed ==
    \A c \in Removing :
        /\ Removed(committed[Op(c).key], answer[c].by)
        /\ Removed(current[Op(c).key], answer[c].by)
        /\ From(answer[c], Op(c).key)

IInv == TypeOK /\ Locked /\ Progress /\ Origin /\ Departed /\ ClaimedOnce

-----------------------------------------------------------------------------
(* Rows and operations *)

\* What a mutation stores is a row or nothing, and it answers.
LEMMA EffectType ==
    ASSUME NEW c \in Caller, NEW o \in Promise!Operation, NEW v \in Promise!Version
    PROVE  /\ Promise!Offered(c, o) \in Promise!Row
           /\ v # Absent => v \in Promise!Row /\ Promise!Assigned(o, v) \in Promise!Row
           /\ Promise!Effect(c, o, v).stored \in Promise!Version
           /\ Promise!Effect(c, o, v).answer \in Promise!Row \cup {NoRow, Conflict}
<1>1. Promise!Offered(c, o) \in Promise!Row
    BY DEF Promise!Offered, Promise!Row, Promise!Operation, Promise!Incarnation
<1>2. v # Absent => v \in Promise!Row
    BY DEF Promise!Version
<1>3. v # Absent => Promise!Assigned(o, v) \in Promise!Row
    BY <1>2 DEF Promise!Assigned, Promise!Row
<1>4. o.kind \in Promise!Kind
    BY DEF Promise!Operation
<1>5. /\ Promise!Effect(c, o, v).stored \in Promise!Version
      /\ Promise!Effect(c, o, v).answer \in Promise!Row \cup {NoRow, Conflict}
    BY <1>1, <1>2, <1>3, <1>4
    DEF Promise!Effect, Promise!Outcome, Promise!Kind, Promise!Matches, Promise!Version
<1> QED BY <1>1, <1>2, <1>3, <1>5

\* The operation a caller is about is one of the mutations.
LEMMA OpType ==
    ASSUME TypeOK, NEW c \in Caller
    PROVE  /\ Op(c) \in Promise!Operation
           /\ Op(c).key \in Key
           /\ Op(c).kind \in Promise!Kind
           /\ Op(c).owner \in Owner
           /\ current[Op(c).key] \in Promise!Version
           /\ committed[Op(c).key] \in Promise!Version
BY DEF TypeOK, Op, RunState, Promise!Operation

-----------------------------------------------------------------------------
(* Type correctness *)

LEMMA NoRunType == NoRun \in RunState
BY OperationsAreTyped, RetriesAreCounted DEF NoRun, RunState, Step, Scope, Promise!Answer

LEMMA TypeInit == Init => TypeOK
BY NoRunType DEF Init, TypeOK, Promise!Answer

-----------------------------------------------------------------------------
(* What a step of one caller does *)

\* The others are where they were, and so are the rows they hold.
Frame(c) ==
    /\ \A d \in Caller \ {c} : run'[d] = run[d] /\ answer'[d] = answer[d]
    /\ \A k \in Key : holder[k] \notin {Nobody, c} =>
        holder'[k] = holder[k] /\ committed'[k] = committed[k] /\ current'[k] = current[k]
    /\ \A k \in Key : holder[k] \in {Nobody, c} => holder'[k] \in {Nobody, c}

\* The caller itself holds what its statement says, and is as far as it says.
Own(c) ==
    /\ \A k \in Key : holder'[k] = c <=> Locks(run'[c], k)
    /\ StatementOf(run'[c])
    /\ Asked(run'[c], answer'[c])
    /\ run'[c].scope # "gone" =>
        Halfway(c, run'[c], committed'[run'[c].op.key], current'[run'[c].op.key])

\* Where a stored row is from: from what was stored, or just offered.
Offers(c, v, k) ==
    /\ v.by = c
    /\ run[c].at = "first" /\ answer[c] = Pending
    /\ run[c].op.key = k /\ run[c].op.kind \in {"insert", "upsert"}
    /\ run'[c].op = run[c].op
    /\ run'[c].at \in {"readBack", "insertedRead"}
Source(c, v, k) ==
    \/ v = Absent
    \/ committed[k] # Absent /\ v.by = committed[k].by
    \/ current[k] # Absent /\ v.by = current[k].by
    \/ Offers(c, v, k)
Sources(c) == \A k \in Key : Source(c, committed'[k], k) /\ Source(c, current'[k], k)

\* What a caller asked for is known before it writes, and it stays answered.
Keeps(c) ==
    \/ run[c].at = "idle" /\ answer[c] = Pending
    \/ /\ run'[c].op = run[c].op
       /\ run[c].op.kind # "delete" /\ Written(run[c], answer[c]) => Written(run'[c], answer'[c])
       /\ answer[c] = Pending \/ answer'[c] = answer[c]

\* Whoever is now answered to have removed a row has removed it.
Removes(c) ==
    answer'[c] # answer[c] /\ answer'[c] \in Promise!Row
        /\ run'[c].op.kind \in {"consume", "delete"} =>
            /\ committed[run'[c].op.key] = answer'[c]
            /\ committed'[run'[c].op.key] = Absent
            /\ current'[run'[c].op.key] = Absent

Done(c) == TypeOK' /\ Frame(c) /\ Own(c) /\ Sources(c) /\ Keeps(c) /\ Removes(c)

LEMMA BeginDone ==
    ASSUME IInv, NEW c \in Caller, NEW o \in Operations, NEW scope \in Scope, Begin(c, o, scope)
    PROVE  Done(c)
<1> USE DEF IInv
<1> DEFINE q == [NoRun EXCEPT !.at = "first", !.op = o, !.scope = scope]
<1>0. NoRun \in RunState /\ o \in Promise!Operation
    BY NoRunType, OperationsAreTyped
<1>0a. q \in RunState /\ q.at = "first" /\ q.op = o /\ q.scope = scope
    BY <1>0 DEF RunState, Step
<1>0b. run' = [run EXCEPT ![c] = q]
    BY DEF Begin
<1>1. /\ run' = [run EXCEPT ![c] = run'[c]] /\ run'[c] \in RunState
      /\ run'[c].at = "first" /\ run'[c].op = o /\ run'[c].scope = scope
    BY <1>0a, <1>0b DEF TypeOK
<1>2. TypeOK'
    BY <1>1 DEF Begin, TypeOK
<1>3. Frame(c)
    BY <1>1 DEF Begin, Frame
<1>4. Own(c)
    BY <1>1 DEF Begin, Own, Locked, Locks, Locking, StatementOf, Asked, Halfway, At
<1>5. Sources(c)
    BY <1>1 DEF Begin, Sources, Source
<1>6. Keeps(c)
    BY <1>1 DEF Begin, Keeps, At
<1>7. Removes(c)
    BY <1>1 DEF Begin, Removes
<1> QED BY <1>2, <1>3, <1>4, <1>5, <1>6, <1>7 DEF Done

\* Whoever holds nothing may end its turn with nothing written.
LEMMA EndsWithDone ==
    ASSUME IInv, NEW c \in Caller, NEW a \in {NoRow, Conflict}, EndsWith(c, a),
           run[c].at \in {"first", "claim"}
    PROVE  Done(c)
<1> USE DEF IInv
<1>0. Proven(c, a) \in Promise!Answer /\ Proven(c, a) # Pending /\ Proven(c, a) \notin Promise!Row
    BY AnswersDiffer DEF Proven, Promise!Answer
<1>1. \A k \in Key : holder[k] # c
    BY DEF Locked, Locks, Locking
<1>2. holder' = holder /\ committed' = committed /\ current' = current
    BY <1>1 DEF EndsWith, Unlocked, TypeOK
<1>3. run' = [run EXCEPT ![c] = run'[c]] /\ run'[c].at = "idle" /\ run'[c].op = run[c].op
      /\ run'[c].scope = run[c].scope /\ run'[c] \in RunState
    BY DEF EndsWith, TypeOK, RunState, Step
<1>4. answer' = [answer EXCEPT ![c] = Proven(c, a)] /\ answer[c] = Pending
    BY DEF EndsWith, Progress, Asked
<1>5. TypeOK'
    BY <1>0, <1>2, <1>3, <1>4 DEF EndsWith, TypeOK
<1>6. Frame(c)
    BY <1>2, <1>3, <1>4 DEF Frame, TypeOK
<1>7. Own(c)
    BY <1>0, <1>1, <1>2, <1>3, <1>4 DEF Own, Locks, Locking, StatementOf, Asked, Halfway, TypeOK
<1>8. Sources(c)
    BY <1>2 DEF Sources, Source
<1>9. Keeps(c)
    BY <1>0, <1>3, <1>4 DEF Keeps, Written, TypeOK
<1>10. Removes(c)
    BY <1>0, <1>4 DEF Removes, TypeOK
<1> QED BY <1>5, <1>6, <1>7, <1>8, <1>9, <1>10 DEF Done


\* A statement that only reads goes on to the next.
LEMMA ReadingDone ==
    ASSUME IInv, NEW c \in Caller, NEW step \in Step, NEW row \in Promise!Answer,
           Goes(c, step, row),
           holder' = IF Gone(c) \/ step \notin {"erase", "write"} THEN holder ELSE [holder EXCEPT ![Op(c).key] = c],
           snapshot' \in {snapshot, Snapshotted(c)},
           UNCHANGED <<committed, current, answer>>,
           step \in {"erase", "write"} => CanLock(c, Op(c).key),
           \/ run[c].at = "first" /\ step = "claim" /\ Op(c).kind = "consume"
           \/ run[c].at = "claim" /\ step = "erase" /\ row = current[Op(c).key]
                /\ Promise!Matches(Op(c), row)
           \/ run[c].at = "first" /\ step = "write" /\ Op(c).kind \in {"update", "touch"}
                /\ Promise!Matches(Op(c), current[Op(c).key])
           \/ run[c].at \in {"readBack", "insertedRead"} /\ step = "commit"
                /\ (~Gone(c) => Promise!Effect(c, Op(c), committed[Op(c).key])
                                    = Promise!Outcome(current[Op(c).key], row))
    PROVE  Done(c)
<1> USE DEF IInv
<1>1. /\ run' = [run EXCEPT ![c] = run'[c]] /\ run'[c].at = step /\ run'[c].row = row
      /\ run'[c].op = run[c].op /\ run'[c].scope = run[c].scope /\ run'[c] \in RunState
    BY DEF Goes, TypeOK, RunState
<1>2. answer[c] = Pending
    BY DEF Progress, Asked
<1>3. TypeOK'
    BY <1>1, OpType, NobodyIsNobody DEF TypeOK, Snapshotted
<1>4. Frame(c)
    BY <1>1, OpType DEF Frame, TypeOK, CanLock
<1>5. \A k \in Key : holder'[k] = c <=> Locks(run'[c], k)
    BY <1>1, OpType DEF Locked, Locks, Locking, TypeOK, CanLock, Gone, Op
<1>6. ~Gone(c) /\ step \in {"erase", "write"} => current[Op(c).key] = committed[Op(c).key]
    BY <1>1, OpType DEF Locked, Locks, Locking, TypeOK, CanLock, Op
<1>7. StatementOf(run[c])
    BY DEF Progress
<1>8. StatementOf(run'[c]) /\ Asked(run'[c], answer'[c])
    BY <1>1, <1>2, <1>7 DEF StatementOf, Asked, Op
<1>9. ~Gone(c) => Halfway(c, run'[c], committed'[Op(c).key], current'[Op(c).key])
    BY <1>1, <1>6 DEF Halfway, Op
<1>10. Own(c)
    BY <1>1, <1>5, <1>8, <1>9 DEF Own, Gone, Op
<1>11. Sources(c)
    BY DEF Sources, Source
<1>12. Keeps(c)
    BY <1>1, <1>2 DEF Keeps, Written
<1>13. Removes(c)
    BY DEF Removes
<1> QED BY <1>3, <1>4, <1>10, <1>11, <1>12, <1>13 DEF Done

LEMMA CandidateDone == ASSUME IInv, NEW c \in Caller, Candidate(c) PROVE Done(c)
<1> DEFINE row == PlainRead(c, Op(c).key)
<1>1. CASE Promise!Matches(Op(c), row)
    <2>1. row \in Promise!Answer
        BY <1>1, OpType DEF IInv, TypeOK, PlainRead, Promise!Matches, Promise!Version, Promise!Answer
    <2> QED BY <1>1, <2>1, ReadingDone DEF Candidate, At, Step, Gone
<1>2. CASE ~Promise!Matches(Op(c), row)
    BY <1>2, EndsWithDone DEF Candidate, At
<1> QED BY <1>1, <1>2

LEMMA ClaimDone == ASSUME IInv, NEW c \in Caller, Claim(c) PROVE Done(c)
<1> DEFINE row == current[Op(c).key]
<1>1. CASE Promise!Matches(Op(c), row)
    <2>1. row \in Promise!Answer
        BY <1>1, OpType DEF IInv, Promise!Matches, Promise!Version, Promise!Answer
    <2> QED BY <1>1, <2>1, ReadingDone DEF Claim, At, Step, Takes
<1>2. CASE ~Promise!Matches(Op(c), row)
    BY <1>2, EndsWithDone DEF Claim, At
<1> QED BY <1>1, <1>2

LEMMA ReadBackDone == ASSUME IInv, NEW c \in Caller, ReadBack(c) PROVE Done(c)
<1> DEFINE v == current[Op(c).key]
           row == IF ReadBackFinds(c, v) THEN v ELSE NoRow
           was == committed[Op(c).key]
<1>1. row \in Promise!Answer
    BY OpType DEF IInv, ReadBackFinds, Promise!Version, Promise!Answer
<1>2. ASSUME ~Gone(c) PROVE Promise!Effect(c, Op(c), was) = Promise!Outcome(v, row)
    <2>1. /\ v = Promise!Effect(c, Op(c), was).stored
          /\ Op(c).kind \in {"update", "touch", "upsert"}
          /\ Op(c).kind # "upsert" => Promise!Matches(Op(c), was)
        BY <1>2 DEF ReadBack, At, IInv, Progress, StatementOf, Halfway, Op
    <2>2. CASE Op(c).kind = "upsert"
        <3>1. Promise!Offered(c, Op(c)) # Absent /\ Promise!Offered(c, Op(c)).owner = Op(c).owner
            BY OpType, EffectType, AnswersDiffer DEF IInv, Promise!Offered
        <3> QED BY <2>1, <2>2, <3>1
            DEF Promise!Effect, Promise!Outcome, ReadBackFinds, Promise!MayWrite
    <2>3. CASE Op(c).kind # "upsert"
        <3>1. Promise!Assigned(Op(c), was) # Absent
            BY <2>1, <2>3, OpType, EffectType, AnswersDiffer DEF IInv, Promise!Matches
        <3> QED BY <2>1, <2>3, <3>1
            DEF Promise!Effect, Promise!Outcome, ReadBackFinds
    <2> QED BY <2>2, <2>3
<1> QED BY <1>1, <1>2, ReadingDone DEF ReadBack, At, Step

LEMMA InsertedReadDone == ASSUME IInv, NEW c \in Caller, InsertedRead(c) PROVE Done(c)
<1> DEFINE v == PlainRead(c, Op(c).key)
           row == IF v = Absent THEN NoRow ELSE v
<1>1. row \in Promise!Answer
    BY OpType DEF IInv, TypeOK, PlainRead, Promise!Version, Promise!Answer
<1>2. ASSUME ~Gone(c)
      PROVE  Promise!Effect(c, Op(c), committed[Op(c).key])
                = Promise!Outcome(current[Op(c).key], row)
    <2>1. /\ committed[Op(c).key] = Absent /\ current[Op(c).key] = Promise!Offered(c, Op(c))
          /\ Op(c).kind = "insert" /\ holder[Op(c).key] = c
        BY <1>2, OpType DEF InsertedRead, At, IInv, Progress, StatementOf, Halfway, Op, Gone,
            Locked, Locks, Locking
    <2>2. Promise!Offered(c, Op(c)) # Absent
        BY OpType, EffectType, AnswersDiffer DEF IInv
    <2> QED BY <2>1, <2>2 DEF PlainRead, Promise!Effect, Promise!Outcome
<1>3. InsertedRead(c) => UNCHANGED <<committed, current, holder, snapshot, answer>>
    BY DEF InsertedRead
<1> QED BY <1>1, <1>2, <1>3, ReadingDone DEF InsertedRead, At, Step

\* Whoever stores a row under its lock, or by itself where its transaction is gone.
LEMMA StoringDone ==
    ASSUME IInv, NEW c \in Caller, NEW step \in Locking, NEW row \in Promise!Answer,
           NEW v \in Promise!Version,
           Goes(c, step, row), Stores(c, Op(c).key, v), CanLock(c, Op(c).key),
           holder' = IF Gone(c) THEN holder ELSE [holder EXCEPT ![Op(c).key] = c],
           UNCHANGED <<snapshot, answer>>,
           run[c].at # "idle",
           StatementOf(run'[c]),
           ~Gone(c) => Halfway(c, run'[c], committed[Op(c).key], v),
           Source(c, v, Op(c).key),
           Op(c).kind # "delete" /\ run[c].at \in {"readBack", "insertedRead", "commit"}
                => step \in {"readBack", "insertedRead", "commit"}
    PROVE  Done(c)
<1> USE DEF IInv
<1> DEFINE k == Op(c).key
<1>1. /\ run' = [run EXCEPT ![c] = run'[c]] /\ run'[c].at = step /\ run'[c].row = row
      /\ run'[c].op = run[c].op /\ run'[c].scope = run[c].scope /\ run'[c] \in RunState
    BY DEF Goes, TypeOK, RunState, Locking, Step
<1>2. answer[c] = Pending
    BY DEF Progress, Asked
<1>3. k \in Key /\ holder[k] \in {Nobody, c} /\ (Gone(c) => holder[k] = Nobody)
    BY OpType DEF CanLock, Locked, Locks, Gone
<1>4. /\ current' = [current EXCEPT ![k] = v]
      /\ committed' = IF Gone(c) THEN [committed EXCEPT ![k] = v] ELSE committed
    BY DEF Stores
<1>5. TypeOK'
    BY <1>1, <1>3, <1>4, NobodyIsNobody DEF TypeOK
<1>6. Frame(c)
    BY <1>1, <1>3, <1>4 DEF Frame, TypeOK
<1>7. \A l \in Key : holder'[l] = c <=> Locks(run'[c], l)
    BY <1>1, <1>3 DEF Locked, Locks, TypeOK, Gone, Op
<1>8. Own(c)
    BY <1>1, <1>2, <1>3, <1>4, <1>7 DEF Own, Asked, Gone, Op, TypeOK, Locking
<1>9. \A l \in Key : committed'[l] \in {committed[l], current[l]} \/ (l = k /\ committed'[l] = v)
    BY <1>3, <1>4 DEF TypeOK
<1>10. \A l \in Key : current'[l] = current[l] \/ (l = k /\ current'[l] = v)
    BY <1>3, <1>4 DEF TypeOK
<1>11. Sources(c)
    BY <1>9, <1>10 DEF Sources, Source
<1>12. Keeps(c)
    BY <1>1, <1>2 DEF Keeps, Written, Op
<1>13. Removes(c)
    BY DEF Removes
<1> QED BY <1>5, <1>6, <1>8, <1>11, <1>12, <1>13 DEF Done

LEMMA EraseDone == ASSUME IInv, NEW c \in Caller, Erase(c) PROVE Done(c)
<1> DEFINE k == Op(c).key
<1>1. /\ run[c].at = "erase" /\ Op(c).kind = "consume"
      /\ ~Gone(c) => run[c].row = committed[k] /\ Promise!Matches(Op(c), committed[k])
    BY DEF Erase, At, IInv, Progress, StatementOf, Halfway, Op, Gone
<1>2. run'[c] = [run[c] EXCEPT !.at = "commit", !.row = run[c].row] /\ run[c] \in RunState
    BY DEF Erase, Goes, IInv, TypeOK
<1>3. StatementOf(run'[c])
    BY <1>2 DEF StatementOf, RunState
<1>4. ~Gone(c) => Halfway(c, run'[c], committed[k], Absent)
    BY <1>1, <1>2 DEF Halfway, Promise!Effect, RunState, Op
<1>5. run[c].row \in Promise!Answer /\ Absent \in Promise!Version
    BY <1>2 DEF RunState, Promise!Version
<1> QED BY <1>1, <1>3, <1>4, <1>5, StoringDone DEF Erase, Takes, Locking, Source

LEMMA LockMatchingDone == ASSUME IInv, NEW c \in Caller, LockMatching(c) PROVE Done(c)
<1> DEFINE row == current[Op(c).key]
<1>1. CASE Promise!Matches(Op(c), row)
    <2>1. row \in Promise!Answer
        BY <1>1, OpType DEF IInv, Promise!Matches, Promise!Version, Promise!Answer
    <2> QED BY <1>1, <2>1, ReadingDone DEF LockMatching, At, Step, Takes
<1>2. CASE ~Promise!Matches(Op(c), row)
    BY <1>2, EndsWithDone DEF LockMatching, At
<1> QED BY <1>1, <1>2

LEMMA WriteDone == ASSUME IInv, NEW c \in Caller, Write(c) PROVE Done(c)
<1> DEFINE k == Op(c).key
           v == IF current[k] = Absent THEN Absent ELSE Promise!Assigned(Op(c), current[k])
<1>1. /\ run[c].at = "write" /\ Op(c).kind \in {"update", "touch"} /\ answer[c] = Pending
      /\ ~Gone(c) => current[k] = committed[k] /\ Promise!Matches(Op(c), committed[k])
                     /\ holder[k] = c
    BY OpType DEF Write, At, IInv, Progress, StatementOf, Asked, Halfway, Op, Gone,
        Locked, Locks, Locking
<1>2. run'[c] = [run[c] EXCEPT !.at = "readBack", !.row = run[c].row] /\ run[c] \in RunState
    BY DEF Write, Goes, IInv, TypeOK
<1>3. StatementOf(run'[c])
    BY <1>1, <1>2 DEF StatementOf, RunState, Op
<1>4. ~Gone(c) => Halfway(c, run'[c], committed[k], v)
    BY <1>1, <1>2 DEF Halfway, Promise!Effect, Promise!Outcome, Promise!Matches, RunState, Op
<1>5. v \in Promise!Version
    BY OpType, EffectType DEF IInv, Promise!Version
<1>6. holder' = IF Gone(c) THEN holder ELSE [holder EXCEPT ![k] = c]
    BY <1>1 DEF Write, IInv, TypeOK
<1>7. Source(c, v, k)
    BY OpType DEF Source, Promise!Assigned, IInv, Promise!Version, Promise!Row
<1>8. run[c].row \in Promise!Answer
    BY <1>2 DEF RunState
<1> QED BY <1>1, <1>3, <1>4, <1>5, <1>6, <1>7, <1>8, StoringDone DEF Write, Locking

LEMMA DeleteMatchingDone == ASSUME IInv, NEW c \in Caller, DeleteMatching(c) PROVE Done(c)
<1> DEFINE k == Op(c).key
<1>1. CASE Promise!Matches(Op(c), current[k])
    <2>1. run'[c] = [run[c] EXCEPT !.at = "commit", !.row = current[k]] /\ run[c] \in RunState
        BY <1>1 DEF DeleteMatching, Goes, IInv, TypeOK
    <2>2. current[k] = committed[k]
        BY OpType DEF DeleteMatching, At, CanLock, IInv, TypeOK, Locked, Locks, Locking
    <2>3. StatementOf(run'[c])
        BY <2>1 DEF StatementOf, RunState
    <2>4. ~Gone(c) => Halfway(c, run'[c], committed[k], Absent)
        BY <1>1, <2>1, <2>2
        DEF DeleteMatching, Halfway, Promise!Effect, RunState, Op
    <2>5. current[k] \in Promise!Answer /\ Absent \in Promise!Version
        BY <1>1, OpType DEF IInv, Promise!Matches, Promise!Version, Promise!Answer
    <2> QED BY <1>1, <2>3, <2>4, <2>5, StoringDone DEF DeleteMatching, At, Takes, Locking, Source
<1>2. CASE ~Promise!Matches(Op(c), current[k])
    BY <1>2, EndsWithDone DEF DeleteMatching, At
<1> QED BY <1>1, <1>2

LEMMA InsertDone == ASSUME IInv, NEW c \in Caller, Insert(c) PROVE Done(c)
<1> DEFINE k == Op(c).key
           v == Promise!Offered(c, Op(c))
<1>1. CASE current[k] = Absent
    <2>1. run'[c] = [run[c] EXCEPT !.at = "insertedRead", !.row = run[c].row] /\ run[c] \in RunState
        BY <1>1 DEF Insert, Goes, IInv, TypeOK
    <2>2. /\ committed[k] = Absent /\ answer[c] = Pending
        BY <1>1, OpType DEF Insert, At, CanLock, IInv, TypeOK, Locked, Locks, Locking, Progress, Asked
    <2>3. StatementOf(run'[c])
        BY <2>1 DEF Insert, StatementOf, RunState, Op
    <2>4. Halfway(c, run'[c], committed[k], v)
        BY <2>1, <2>2 DEF Halfway, RunState, Op
    <2>5. v \in Promise!Version /\ run[c].row \in Promise!Answer
        BY <2>1, OpType, EffectType DEF IInv, Promise!Version, RunState
    <2>6. Source(c, v, k)
        BY <2>1, <2>2 DEF Insert, At, Source, Offers, Promise!Offered, RunState, Op
    <2> QED BY <1>1, <2>3, <2>4, <2>5, <2>6, StoringDone DEF Insert, At, Takes, Locking
<1>2. CASE current[k] # Absent
    BY <1>2, EndsWithDone DEF Insert, At
<1> QED BY <1>1, <1>2

LEMMA UpsertDone == ASSUME IInv, NEW c \in Caller, Upsert(c) PROVE Done(c)
<1> DEFINE k == Op(c).key
           v == IF Promise!MayWrite(Op(c), current[k]) THEN Promise!Offered(c, Op(c)) ELSE current[k]
<1>1. run'[c] = [run[c] EXCEPT !.at = "readBack", !.row = run[c].row] /\ run[c] \in RunState
    BY DEF Upsert, Goes, IInv, TypeOK
<1>2. /\ committed[k] = current[k] /\ answer[c] = Pending
      /\ run[c].at = "first" /\ Op(c).kind = "upsert"
    <2>1. run[c].at = "first" /\ Op(c).kind = "upsert" /\ CanLock(c, k)
        BY DEF Upsert, At
    <2>2. answer[c] = Pending
        BY <2>1 DEF IInv, Progress, Asked
    <2>3. k \in Key /\ holder[k] # c
        BY <2>1, OpType DEF IInv, Locked, Locks, Locking
    <2>4. committed[k] = current[k]
        BY <2>1, <2>3 DEF CanLock, IInv, TypeOK
    <2> QED BY <2>1, <2>2, <2>4
<1>3. StatementOf(run'[c])
    BY <1>1, <1>2 DEF StatementOf, RunState, Op
<1>4. Halfway(c, run'[c], committed[k], v)
    BY <1>1, <1>2 DEF Halfway, RunState, Op, Promise!Effect, Promise!Outcome
<1>5. v \in Promise!Version /\ run[c].row \in Promise!Answer
    BY <1>1, OpType, EffectType DEF IInv, Promise!Version, RunState
<1>6. Source(c, v, k)
    BY <1>1, <1>2 DEF Source, Offers, Promise!Offered, RunState, Op
<1> QED BY <1>2, <1>3, <1>4, <1>5, <1>6, StoringDone DEF Upsert, Takes, Locking

\* What an upsert or insert offers is no other operation's outcome.
LEMMA Departs ==
    ASSUME NEW c \in Caller, NEW o \in Promise!Operation, NEW v \in Promise!Version,
           o.kind \in {"consume", "delete"}, Promise!Effect(c, o, v).answer \in Promise!Row
    PROVE  Promise!Effect(c, o, v) = Promise!Outcome(Absent, v) /\ v \in Promise!Row
BY AnswersDiffer DEF Promise!Effect, Promise!Outcome, Promise!Matches, Promise!Version

LEMMA CommitDone == ASSUME IInv, NEW c \in Caller, Commit(c) PROVE Done(c)
<1> USE DEF IInv
<1> DEFINE k == Op(c).key
           a == Proven(c, run[c].row)
<1>1. /\ run' = [run EXCEPT ![c] = run'[c]] /\ run'[c].at = "idle" /\ run'[c].op = run[c].op
      /\ run'[c].scope = run[c].scope /\ run'[c] \in RunState /\ run[c].row \in Promise!Answer
    BY DEF Commit, TypeOK, RunState, Step
<1>2. /\ answer' = [answer EXCEPT ![c] = a] /\ answer[c] = Pending
    BY DEF Commit, At, Progress, Asked
<1>3. ~Gone(c) =>
        /\ Promise!Effect(c, Op(c), committed[k]) = Promise!Outcome(current[k], run[c].row)
        /\ a = run[c].row
    BY DEF Commit, At, Progress, Halfway, Op, Proven
<1>4. a \in Promise!Answer /\ a # Pending /\ (Gone(c) => a = Failed)
    <2>1. CASE Gone(c)
        BY <2>1, AnswersDiffer DEF Proven, Promise!Answer
    <2>2. CASE ~Gone(c)
        <3>1. run[c].row = Promise!Effect(c, Op(c), committed[k]).answer
            BY <1>3, <2>2 DEF Promise!Outcome
        <3> QED BY <3>1, <1>1, <1>3, <2>2, OpType, EffectType, AnswersDiffer
    <2> QED BY <2>1, <2>2
<1>5. \A l \in Key : holder[l] = c => ~Gone(c) /\ l = k
    BY DEF Locked, Locks, Gone, Op
<1>6. /\ holder' = [l \in Key |-> IF holder[l] = c THEN Nobody ELSE holder[l]]
      /\ committed' = [l \in Key |-> IF holder[l] = c THEN current[l] ELSE committed[l]]
      /\ current' = current
    BY DEF Commit, Unlocked
<1>7. TypeOK'
    BY <1>1, <1>2, <1>4, <1>6 DEF Commit, TypeOK
<1>8. Frame(c)
    BY <1>1, <1>2, <1>6 DEF Frame, TypeOK
<1>9. Own(c)
    BY <1>1, <1>2, <1>4, <1>6, NobodyIsNobody
    DEF Own, Locks, Locking, StatementOf, Asked, Halfway, TypeOK
<1>10. Sources(c)
    BY <1>6 DEF Sources, Source
<1>11. Keeps(c)
    BY <1>1, <1>2, <1>4 DEF Keeps, Written, TypeOK
<1>12. Removes(c)
    <2>1. SUFFICES ASSUME a \in Promise!Row, Op(c).kind \in {"consume", "delete"}
                   PROVE  committed[k] = a /\ committed'[k] = Absent /\ current'[k] = Absent
        BY <1>1, <1>2 DEF Removes, TypeOK, Op
    <2>2. ~Gone(c)
        BY <1>4, <2>1, AnswersDiffer
    <2>3. Promise!Outcome(current[k], a) = Promise!Outcome(Absent, committed[k])
        BY <1>3, <2>1, <2>2, OpType, Departs DEF Promise!Outcome
    <2>4. holder[k] = c
        BY <2>2, OpType DEF Commit, At, Locked, Locks, Locking, Gone, Op
    <2> QED BY <1>6, <2>3, <2>4, OpType DEF Promise!Outcome
<1> QED BY <1>7, <1>8, <1>9, <1>10, <1>11, <1>12 DEF Done

\* A transaction that is undone leaves what was committed.
LEMMA UndoneDone ==
    ASSUME IInv, NEW c \in Caller, NEW q \in RunState, NEW a \in {Pending, Failed},
           run[c].at # "idle",
           current' = Undone(c), holder' = Unlocked(c), committed' = committed,
           snapshot' = [snapshot EXCEPT ![c] = NoSnapshot],
           run' = [run EXCEPT ![c] = q], answer' = [answer EXCEPT ![c] = a],
           q.op = run[c].op, q.scope = run[c].scope,
           \/ q.at = "idle" /\ a = Failed
           \/ q.at = "first" /\ a = Pending /\ q.op.kind = "delete"
    PROVE  Done(c)
<1> USE DEF IInv
<1>1. answer[c] = Pending /\ a \in Promise!Answer /\ a \notin Promise!Row /\ Failed # Pending
    BY AnswersDiffer DEF Progress, Asked, Promise!Answer
<1>2. /\ holder' = [l \in Key |-> IF holder[l] = c THEN Nobody ELSE holder[l]]
      /\ current' = [l \in Key |-> IF holder[l] = c THEN committed[l] ELSE current[l]]
    BY DEF Undone, Unlocked
<1>3. TypeOK'
    BY <1>1, <1>2 DEF TypeOK
<1>4. Frame(c)
    BY <1>1, <1>2 DEF Frame, TypeOK
<1>5. Own(c)
    BY <1>1, <1>2, NobodyIsNobody
    DEF Own, Locks, Locking, StatementOf, Asked, Halfway, TypeOK
<1>6. Sources(c)
    BY <1>2 DEF Sources, Source
<1>7. Keeps(c)
    BY <1>1 DEF Keeps, Written, TypeOK
<1>8. Removes(c)
    BY <1>1 DEF Removes, TypeOK
<1> QED BY <1>3, <1>4, <1>5, <1>6, <1>7, <1>8 DEF Done

LEMMA RollbackDone == ASSUME IInv, NEW c \in Caller, Rollback(c) PROVE Done(c)
<1> DEFINE q == [run[c] EXCEPT !.at = "idle"]
<1>1. run' = [run EXCEPT ![c] = q]
    BY DEF Rollback
<1>2. q \in RunState /\ q.op = run[c].op /\ q.scope = run[c].scope /\ q.at = "idle"
    BY DEF IInv, TypeOK, RunState, Step
<1> QED BY <1>1, <1>2, UndoneDone DEF Rollback, At

LEMMA RetryDone == ASSUME IInv, NEW c \in Caller, Retry(c) PROVE Done(c)
<1> DEFINE q == run'[c]
<1>1. run' = [run EXCEPT ![c] = q]
    BY DEF Retry, IInv, TypeOK
<1>2. q \in RunState /\ q.op = run[c].op /\ q.scope = run[c].scope /\ q.at = "first"
    <2>1. run[c] \in RunState /\ run[c].tries + 1 \in 0..DeadlockRetries
        BY RetriesAreCounted DEF Retry, IInv, TypeOK, RunState
    <2>2. q = [run[c] EXCEPT !.at = "first", !.tries = run[c].tries + 1]
        BY <2>1 DEF Retry, IInv, TypeOK
    <2> HIDE DEF q
    <2> QED BY <2>1, <2>2 DEF RunState, Step
<1>3. answer' = [answer EXCEPT ![c] = Pending]
    BY DEF Retry, At, IInv, TypeOK, Progress, Asked
<1> QED BY <1>1, <1>2, <1>3, UndoneDone DEF Retry, At, Op

LEMMA StepDone ==
    ASSUME IInv, Next
    PROVE  \E c \in Caller : Done(c)
<1>1. PICK c \in Caller :
        \/ \E o \in Operations, scope \in Scope : Begin(c, o, scope)
        \/ Statement(c) \/ Commit(c) \/ Rollback(c) \/ Retry(c)
    BY DEF Next
<1>2. Done(c)
    BY <1>1, BeginDone, CandidateDone, ClaimDone, EraseDone, LockMatchingDone, WriteDone,
        ReadBackDone, DeleteMatchingDone, InsertDone, InsertedReadDone, UpsertDone,
        CommitDone, RollbackDone, RetryDone
    DEF Statement
<1> QED BY <1>2

-----------------------------------------------------------------------------
(* The invariant holds *)

LEMMA InvInit == Init => IInv
<1> SUFFICES ASSUME Init PROVE IInv
    OBVIOUS
<1>1. TypeOK
    BY TypeInit
<1>2. NoRun.at = "idle" /\ NoRun.scope = "own"
    BY DEF NoRun
<1>3. Locked
    BY <1>2, NobodyIsNobody DEF Init, Locked, Locks, Locking
<1>4. Progress
    BY <1>2 DEF Init, Progress, StatementOf, Asked, Halfway
<1>5. Origin
    BY NobodyIsNobody DEF Init, Origin, From
<1>6. Removing = {}
    BY AnswersDiffer DEF Init, Removing
<1> QED BY <1>1, <1>3, <1>4, <1>5, <1>6 DEF IInv, Departed, ClaimedOnce

LEMMA FromStays ==
    ASSUME IInv, NEW c \in Caller, Done(c), NEW v \in Promise!Row, NEW k \in Key, From(v, k)
    PROVE  From(v, k)'
<1> DEFINE d == v.by
<1> SUFFICES ASSUME d \in Caller PROVE From(v, k)'
    BY DEF From
<1>1. /\ run[d].op.key = k /\ run[d].op.kind \in {"insert", "upsert"}
      /\ Written(run[d], answer[d])
    BY AnswersDiffer DEF From, Op
<1>2. run'[d].op = run[d].op /\ Written(run'[d], answer'[d])
    <2>1. CASE d = c
        BY <1>1, <2>1 DEF Done, Keeps, Written
    <2>2. CASE d # c
        BY <1>1, <2>2 DEF Done, Frame
    <2> QED BY <2>1, <2>2
<1> QED BY <1>1, <1>2 DEF From, Op

LEMMA InvNext == IInv /\ [Next]_vars => IInv'
<1> SUFFICES ASSUME IInv, [Next]_vars PROVE IInv'
    OBVIOUS
<1>1. CASE UNCHANGED vars
    BY <1>1 DEF vars, IInv, TypeOK, Locked, Progress, Gone, Op, Origin, From, Departed, Removing, ClaimedOnce
<1>2. CASE Next
    <2>0. PICK c \in Caller : Done(c)
        BY <1>2, StepDone
    <2>1. TypeOK'
        BY <2>0 DEF Done
    <2>2. Locked'
        <3> SUFFICES ASSUME NEW d \in Caller, NEW k \in Key
                     PROVE  holder'[k] = d <=> Locks(run'[d], k)
            BY DEF Locked
        <3>1. CASE d = c
            BY <2>0, <3>1 DEF Done, Own
        <3>2. CASE d # c
            BY <2>0, <3>2, NobodyIsNobody DEF Done, Frame, IInv, TypeOK, Locked
        <3> QED BY <3>1, <3>2
    <2>3. Progress'
        <3> SUFFICES ASSUME NEW d \in Caller
                     PROVE  /\ StatementOf(run'[d])
                            /\ Asked(run'[d], answer'[d])
                            /\ run'[d].scope # "gone" =>
                                Halfway(d, run'[d], committed'[run'[d].op.key],
                                        current'[run'[d].op.key])
            BY DEF Progress, Gone, Op
        <3>1. CASE d = c
            BY <2>0, <3>1 DEF Done, Own
        <3>2. CASE d # c
            <4>1. run'[d] = run[d] /\ answer'[d] = answer[d] /\ run[d].op.key \in Key
                BY <2>0, <3>2, OpType DEF Done, Frame, IInv, Op
            <4>2. StatementOf(run[d]) /\ Asked(run[d], answer[d])
                BY DEF IInv, Progress
            <4>3. SUFFICES ASSUME run[d].scope # "gone"
                           PROVE  Halfway(d, run[d], committed'[run[d].op.key],
                                          current'[run[d].op.key])
                BY <4>1, <4>2
            <4>4. Halfway(d, run[d], committed[run[d].op.key], current[run[d].op.key])
                BY <4>3 DEF IInv, Progress, Gone, Op
            <4>5. CASE run[d].at \in Locking
                <5>1. holder[run[d].op.key] = d
                    BY <4>1, <4>3, <4>5 DEF IInv, Locked, Locks
                <5> QED BY <2>0, <3>2, <4>1, <4>4, <5>1, NobodyIsNobody DEF Done, Frame
            <4>6. CASE run[d].at \notin Locking
                BY <4>6 DEF Halfway, Locking
            <4> QED BY <4>5, <4>6
        <3> QED BY <3>1, <3>2
    <2>4. ASSUME NEW k \in Key, NEW v \in Promise!Version, Source(c, v, k)
          PROVE  From(v, k)'
        <3>1. CASE v = Absent
            BY <3>1 DEF From
        <3>2. CASE v # Absent /\ committed[k] # Absent /\ v.by = committed[k].by
            <4>1. From(v, k) /\ v \in Promise!Row
                BY <3>2 DEF IInv, Origin, From, Promise!Version
            <4> QED BY <2>0, <4>1, FromStays
        <3>3. CASE v # Absent /\ current[k] # Absent /\ v.by = current[k].by
            <4>1. From(v, k) /\ v \in Promise!Row
                BY <3>3 DEF IInv, Origin, From, Promise!Version
            <4> QED BY <2>0, <4>1, FromStays
        <3>4. CASE Offers(c, v, k)
            BY <3>4 DEF Offers, From, Written, Op
        <3> QED BY <2>4, <3>1, <3>2, <3>3, <3>4 DEF Source
    <2>5. Origin'
        BY <2>0, <2>1, <2>4 DEF Done, Sources, Origin, TypeOK
    <2>6. ASSUME NEW d \in Removing, NEW k \in Key, NEW v \in Promise!Version, Source(c, v, k), k = Op(d).key
          PROVE  Removed(v, answer[d].by)
        <3>1. /\ answer[d] \in Promise!Row
              /\ Removed(committed[k], answer[d].by) /\ Removed(current[k], answer[d].by)
              /\ From(answer[d], k)
            BY <2>6 DEF IInv, Departed, Removing
        <3>2. CASE Offers(c, v, k) /\ answer[d].by = c
            BY <3>1, <3>2, AnswersDiffer DEF From, Offers, Written
        <3>3. CASE Offers(c, v, k) /\ answer[d].by # c
            BY <3>3 DEF Offers, Removed
        <3> QED BY <2>6, <3>1, <3>2, <3>3 DEF Source, Removed
    <2>7. ASSUME NEW d \in Removing'
          PROVE  \/ /\ d \in Removing /\ answer'[d] = answer[d] /\ Op(d)' = Op(d)
                 \/ /\ d = c
                    /\ committed[Op(c)'.key] = answer'[c]
                    /\ committed'[Op(c)'.key] = Absent
                    /\ current'[Op(c)'.key] = Absent
        <3>1. d \in Caller /\ run'[d].op.kind \in {"consume", "delete"} /\ answer'[d] \in Promise!Row
            BY <2>7 DEF Removing, Op
        <3>2. CASE d # c
            BY <2>0, <3>1, <3>2 DEF Done, Frame, Removing, Op
        <3>3. CASE d = c /\ answer'[c] # answer[c]
            BY <2>0, <3>1, <3>3 DEF Done, Removes, Op
        <3>4. CASE d = c /\ answer'[c] = answer[c]
            BY <2>0, <3>1, <3>4, AnswersDiffer DEF Done, Keeps, Removing, Op
        <3> QED BY <3>2, <3>3, <3>4
    <2>8. \A d \in Removing' : d \in Caller /\ Op(d)'.key \in Key /\ answer'[d] \in Promise!Row
        BY <2>1 DEF Removing, TypeOK, Op, RunState, Promise!Operation
    <2>9. Departed'
        <3> SUFFICES ASSUME NEW d \in Removing', NEW a \in Promise!Row, NEW k \in Key,
                            a = answer'[d], k = Op(d)'.key
                     PROVE  Removed(committed'[k], a.by) /\ Removed(current'[k], a.by) /\ From(a, k)'
            BY <2>8 DEF Departed, From
        <3>1. CASE d \in Removing /\ answer'[d] = answer[d] /\ Op(d)' = Op(d)
            <4>1. Removed(committed'[k], a.by) /\ Removed(current'[k], a.by)
                BY <2>0, <2>1, <2>6, <3>1 DEF Done, Sources, TypeOK
            <4>2. From(a, k)
                BY <3>1 DEF IInv, Departed
            <4> QED BY <2>0, <4>1, <4>2, FromStays
        <3>2. CASE committed[k] = a /\ committed'[k] = Absent /\ current'[k] = Absent
            <4>1. From(a, k)
                BY <3>2 DEF IInv, Origin
            <4> QED BY <2>0, <3>2, <4>1, FromStays DEF Removed
        <3> QED BY <2>7, <3>1, <3>2
    <2>10. ClaimedOnce'
        <3> SUFFICES ASSUME NEW d \in Removing', NEW e \in Removing',
                            Op(d)'.key = Op(e)'.key, answer'[d].by = answer'[e].by, d # e
                     PROVE  FALSE
            BY DEF ClaimedOnce
        <3>1. CASE d \in Removing /\ answer'[d] = answer[d] /\ Op(d)' = Op(d)
            <4>1. CASE e \in Removing /\ answer'[e] = answer[e] /\ Op(e)' = Op(e)
                BY <3>1, <4>1 DEF IInv, ClaimedOnce
            <4>2. CASE e = c /\ committed[Op(c)'.key] = answer'[c]
                BY <2>8, <3>1, <4>2, AnswersDiffer DEF IInv, Departed, Removed
            <4> QED BY <2>7, <4>1, <4>2
        <3>2. CASE d = c /\ committed[Op(c)'.key] = answer'[c]
            <4>1. e \in Removing /\ answer'[e] = answer[e] /\ Op(e)' = Op(e)
                BY <2>7, <3>2
            <4> QED BY <2>8, <3>2, <4>1, AnswersDiffer DEF IInv, Departed, Removed
        <3> QED BY <2>7, <3>1, <3>2
    <2> QED BY <2>1, <2>2, <2>3, <2>5, <2>9, <2>10 DEF IInv
<1> QED BY <1>1, <1>2

LEMMA InvHolds == Spec => []IInv
BY InvInit, InvNext, PTL DEF Spec

-----------------------------------------------------------------------------
(* The theorems *)

\* Every variable of the database and of its callers keeps its type, and a row
\* nobody holds has nothing uncommitted, whatever runs and is undone.
THEOREM TypeCorrect == Spec => []TypeOK
BY InvHolds, PTL DEF IInv

\* The exactly-once primitive of consumeOne and deleteAndCount: of all the mutations
\* that race for a row, one at most is answered with it.
THEOREM OnceClaimed == Spec => []ClaimedOnce
BY InvHolds, PTL DEF IInv

-----------------------------------------------------------------------------
(* The MySQL branches implement what one RETURNING statement does *)

LEMMA InitRefines == Init => Promise!Init
<1> SUFFICES ASSUME Init PROVE Promise!Init
    OBVIOUS
<1>1. NoRun.op \in Promise!Operation /\ NoRun.scope = "own"
    BY NoRunType DEF NoRun, RunState
<1> QED BY <1>1 DEF Init, Promise!Init

\* Who asked for what, and whose transaction is gone.
Requests == [c \in Caller |-> run[c].op]
Strays == {c \in Caller : run[c].scope = "gone"}

\* A statement changes neither what was asked for nor what it runs in.
LEMMA SameRequests ==
    ASSUME TypeOK, NEW c \in Caller, NEW q, run' = [run EXCEPT ![c] = q],
           q.op = run[c].op, q.scope = run[c].scope
    PROVE  Requests' = Requests /\ Strays' = Strays
BY DEF TypeOK, Requests, Strays

LEMMA GoesAsked ==
    ASSUME TypeOK, NEW c \in Caller, NEW step, NEW row, Goes(c, step, row)
    PROVE  Requests' = Requests /\ Strays' = Strays
<1>1. /\ run' = [run EXCEPT ![c] = [run[c] EXCEPT !.at = step, !.row = row]]
      /\ run[c] \in RunState
    BY DEF Goes, TypeOK
<1> QED BY <1>1, SameRequests DEF RunState

LEMMA EndsAsked ==
    ASSUME TypeOK, NEW c \in Caller, run' = [run EXCEPT ![c].at = "idle"]
    PROVE  Requests' = Requests /\ Strays' = Strays
<1>1. run[c] \in RunState
    BY DEF TypeOK
<1> QED BY <1>1, SameRequests DEF RunState

\* A step of the promise, or a step that is nobody's business.
Refines == Promise!Next \/ UNCHANGED <<committed, Requests, answer, Strays>>

\* A statement that stores nothing, or only under a lock, does not show.
LEMMA QuietRefines ==
    ASSUME TypeOK, NEW c \in Caller, NEW step, NEW row, Goes(c, step, row),
           UNCHANGED <<committed, answer>>
    PROVE  Refines
BY GoesAsked DEF Refines

\* A statement that commits by itself is a stray.
LEMMA StoresRefines ==
    ASSUME IInv, NEW c \in Caller, NEW step, NEW row, NEW v, run[c].at # "idle",
           Goes(c, step, row), Stores(c, Op(c).key, v), UNCHANGED answer,
           Gone(c) => v = Promise!Strayed(c, Op(c), committed[Op(c).key])
    PROVE  Refines
<1>1. CASE Gone(c)
    <2>1. Requests' = Requests /\ Strays' = Strays
        BY GoesAsked DEF IInv
    <2>2. answer[c] = Pending /\ c \in Strays /\ Requests[c] = Op(c)
        BY <1>1 DEF IInv, Progress, Asked, Strays, Requests, Gone, Op
    <2>3. committed' = [committed EXCEPT ![Op(c).key] = Promise!Strayed(c, Op(c), @)]
        BY <1>1, OpType DEF Stores, IInv, TypeOK
    <2>4. Promise!Stray(c)
        BY <2>1, <2>2, <2>3 DEF Promise!Stray, Requests, Strays
    <2> QED BY <2>4 DEF Refines, Promise!Next
<1>2. CASE ~Gone(c)
    BY <1>2, QuietRefines DEF Stores, IInv
<1> QED BY <1>1, <1>2

\* A mutation that matched nothing answers so, or is told that it failed.
LEMMA EndsWithRefines ==
    ASSUME IInv, NEW c \in Caller, NEW a, EndsWith(c, a), run[c].at # "idle",
           \/ a = NoRow /\ Op(c).kind = "consume"
           \/ ~Gone(c) => Promise!Effect(c, Op(c), committed[Op(c).key])
                            = Promise!Outcome(committed[Op(c).key], a)
    PROVE  Refines
<1>1. Requests' = Requests /\ Strays' = Strays
    BY EndsAsked DEF EndsWith, IInv
<1>2. answer[c] = Pending /\ Requests[c] = Op(c) /\ (Gone(c) <=> c \in Strays)
    BY DEF IInv, Progress, Asked, Strays, Requests, Gone, Op
<1>3. CASE Gone(c)
    BY <1>1, <1>2, <1>3 DEF EndsWith, Proven, Promise!Refuse, Promise!Next, Refines, Requests, Strays
<1>4. CASE ~Gone(c) /\ a = NoRow /\ Op(c).kind = "consume"
    BY <1>1, <1>2, <1>4 DEF EndsWith, Proven, Promise!Refuse, Promise!Next, Refines, Requests, Strays
<1>5. CASE ~Gone(c) /\ Promise!Effect(c, Op(c), committed[Op(c).key])
                            = Promise!Outcome(committed[Op(c).key], a)
    <2>1. committed' = [committed EXCEPT ![Op(c).key] = committed[Op(c).key]]
        BY OpType DEF EndsWith, IInv, TypeOK
    <2>2. /\ Promise!Effect(c, Op(c), committed[Op(c).key]).stored = committed[Op(c).key]
          /\ Promise!Effect(c, Op(c), committed[Op(c).key]).answer = a
        BY <1>5 DEF Promise!Outcome
    <2>3. Promise!Do(c)
        BY <1>1, <1>2, <1>5, <2>1, <2>2 DEF EndsWith, Proven, Promise!Do, Requests, Strays
    <2> QED BY <2>3 DEF Promise!Next, Refines
<1> QED BY <1>3, <1>4, <1>5

\* Where nobody else holds a row, it is as it was committed.
LEMMA LockableIsCommitted ==
    ASSUME IInv, NEW c \in Caller, run[c].at = "first" \/ Gone(c), CanLock(c, Op(c).key)
    PROVE  current[Op(c).key] = committed[Op(c).key]
BY OpType DEF CanLock, IInv, TypeOK, Locked, Locks, Locking, Gone

LEMMA StatementRefines == ASSUME IInv, NEW c \in Caller, Statement(c) PROVE Refines
<1> DEFINE k == Op(c).key
           v == current[k]
<1>0. TypeOK /\ StatementOf(run[c])
    BY DEF IInv, Progress
<1>1. CASE Candidate(c)
    BY <1>0, <1>1, QuietRefines, EndsWithRefines DEF Candidate, At
<1>2. CASE Claim(c)
    BY <1>0, <1>2, QuietRefines, EndsWithRefines DEF Claim, At, StatementOf, Op
<1>3. CASE Erase(c)
    BY <1>0, <1>3, StoresRefines DEF Erase, At, StatementOf, Op, Promise!Strayed
<1>4. CASE LockMatching(c)
    <2>1. CASE Promise!Matches(Op(c), v)
        BY <1>0, <1>4, <2>1, QuietRefines DEF LockMatching
    <2>2. CASE ~Promise!Matches(Op(c), v)
        BY <1>4, <2>2, LockableIsCommitted, EndsWithRefines
        DEF LockMatching, At, Promise!Effect
    <2> QED BY <2>1, <2>2
<1>5. CASE Write(c)
    <2>1. Gone(c) => v = committed[k]
        BY <1>5, LockableIsCommitted DEF Write
    <2> QED BY <1>0, <1>5, <2>1, StoresRefines DEF Write, At, StatementOf, Op, Promise!Strayed
<1>6. CASE ReadBack(c)
    BY <1>0, <1>6, QuietRefines DEF ReadBack
<1>7. CASE DeleteMatching(c)
    <2>1. CASE Promise!Matches(Op(c), v)
        BY <1>7, <2>1, StoresRefines DEF DeleteMatching, At, Promise!Strayed
    <2>2. CASE ~Promise!Matches(Op(c), v)
        BY <1>7, <2>2, LockableIsCommitted, EndsWithRefines
        DEF DeleteMatching, At, Promise!Effect
    <2> QED BY <2>1, <2>2
<1>8. CASE Insert(c)
    <2>1. v = committed[k]
        BY <1>8, LockableIsCommitted DEF Insert, At
    <2>2. CASE v = Absent
        BY <1>8, <2>1, <2>2, StoresRefines
        DEF Insert, At, Promise!Strayed, Promise!Effect, Promise!Outcome
    <2>3. CASE v # Absent
        BY <1>8, <2>1, <2>3, EndsWithRefines DEF Insert, At, Promise!Effect
    <2> QED BY <2>2, <2>3
<1>9. CASE InsertedRead(c)
    BY <1>0, <1>9, QuietRefines DEF InsertedRead
<1>10. CASE Upsert(c)
    <2>1. v = committed[k]
        BY <1>10, LockableIsCommitted DEF Upsert, At
    <2> QED BY <1>10, <2>1, StoresRefines
        DEF Upsert, At, Promise!Strayed, Promise!Effect, Promise!Outcome
<1> QED BY <1>1, <1>2, <1>3, <1>4, <1>5, <1>6, <1>7, <1>8, <1>9, <1>10 DEF Statement

LEMMA BeginRefines ==
    ASSUME IInv, NEW c \in Caller, NEW o \in Operations, NEW scope \in Scope, Begin(c, o, scope)
    PROVE  Refines
<1> DEFINE q == [NoRun EXCEPT !.at = "first", !.op = o, !.scope = scope]
<1>1. q.op = o /\ q.scope = scope
    BY NoRunType DEF RunState
<1>2. run' = [run EXCEPT ![c] = q] /\ answer[c] = Pending
    BY DEF Begin
<1> HIDE DEF q
<1>3. Requests' = [Requests EXCEPT ![c] = o]
    BY <1>1, <1>2 DEF Requests, IInv, TypeOK
<1>4. c \notin Strays
    BY DEF Begin, At, IInv, Progress, Asked, Strays
<1>5. Strays' = IF scope = "gone" THEN Strays \cup {c} ELSE Strays
    BY <1>1, <1>2, <1>4 DEF Strays, IInv, TypeOK
<1>6. Promise!Ask(c, o)
    BY <1>2, <1>3, <1>5 DEF Begin, Promise!Ask, Requests, Strays
<1> QED BY <1>6, OperationsAreTyped DEF Promise!Next, Refines

LEMMA CommitRefines == ASSUME IInv, NEW c \in Caller, Commit(c) PROVE Refines
<1> DEFINE k == Op(c).key
<1>1. Requests' = Requests /\ Strays' = Strays
    BY EndsAsked DEF Commit, IInv
<1>2. answer[c] = Pending /\ Requests[c] = Op(c) /\ (Gone(c) <=> c \in Strays)
    BY DEF Commit, At, IInv, Progress, Asked, Strays, Requests, Gone, Op
<1>3. \A l \in Key : holder[l] = c <=> ~Gone(c) /\ l = k
    BY DEF Commit, At, IInv, Locked, Locks, Locking, Gone, Op
<1>4. CASE Gone(c)
    <2>1. committed' = committed
        BY <1>3, <1>4 DEF Commit, IInv, TypeOK
    <2> QED BY <1>1, <1>2, <1>4, <2>1
        DEF Commit, Proven, Promise!Refuse, Promise!Next, Refines, Requests, Strays
<1>5. CASE ~Gone(c)
    <2>1. committed' = [committed EXCEPT ![k] = current[k]]
        BY <1>3, <1>5 DEF Commit, IInv, TypeOK
    <2>2. /\ Promise!Effect(c, Op(c), committed[k]).stored = current[k]
          /\ Promise!Effect(c, Op(c), committed[k]).answer = run[c].row
        <3>1. Promise!Effect(c, Op(c), committed[k]) = Promise!Outcome(current[k], run[c].row)
            BY <1>5 DEF Commit, At, IInv, Progress, Halfway, Op
        <3> QED BY <3>1 DEF Promise!Outcome
    <2>3. Promise!Do(c)
        BY <1>1, <1>2, <1>5, <2>1, <2>2
        DEF Commit, Proven, Promise!Do, Requests, Strays
    <2> QED BY <2>3 DEF Promise!Next, Refines
<1> QED BY <1>4, <1>5

LEMMA RollbackRefines == ASSUME IInv, NEW c \in Caller, Rollback(c) PROVE Refines
<1>1. Requests' = Requests /\ Strays' = Strays
    BY EndsAsked DEF Rollback, IInv
<1>2. answer[c] = Pending
    BY DEF Rollback, At, IInv, Progress, Asked
<1> QED BY <1>1, <1>2 DEF Rollback, Promise!Refuse, Promise!Next, Refines, Requests, Strays

LEMMA RetryRefines == ASSUME IInv, NEW c \in Caller, Retry(c) PROVE Refines
<1>1. run' = [run EXCEPT ![c] = run'[c]] /\ run'[c].op = run[c].op /\ run'[c].scope = run[c].scope
    BY DEF Retry, IInv, TypeOK, RunState
<1>2. Requests' = Requests /\ Strays' = Strays
    BY <1>1, SameRequests DEF IInv
<1> QED BY <1>2 DEF Retry, Refines

LEMMA StepRefines ==
    IInv /\ [Next]_vars => [Promise!Next]_<<committed, Requests, answer, Strays>>
<1> SUFFICES ASSUME IInv, [Next]_vars PROVE Refines
    BY DEF Refines
<1>1. CASE Next
    BY <1>1, BeginRefines, StatementRefines, CommitRefines, RollbackRefines, RetryRefines DEF Next
<1>2. CASE UNCHANGED vars
    BY <1>2 DEF vars, Refines, Requests, Strays
<1> QED BY <1>1, <1>2

\* Statement by statement and under any interleaving, any rollback and any loss of
\* the transaction, the MySQL branches of the six mutations do what one statement
\* with a RETURNING clause does, and a body that lost its transaction is told so.
THEOREM Implements == Spec => ImplementsPromise
<1>1. Init => Promise!Init
    BY InitRefines
<1>2. IInv /\ [Next]_vars => [Promise!Next]_<<committed, Requests, answer, Strays>>
    BY StepRefines
<1> QED BY <1>1, <1>2, InvHolds, PTL DEF Spec, ImplementsPromise, Promise!Spec, Requests, Strays

-----------------------------------------------------------------------------
(* RateLimiterStore: the invariant *)

\* What was let through at a time and after it.
Since(p, from) == p[End] - p[from]

\* What was let through from one time to another, by a history.
Between(p, from, to) == p[IF to < End THEN to + 1 ELSE End] - p[from]

\* Nothing was let through after a time.
NothingAfter(p, t) == \A s \in 0..End : s > t => Since(p, s) = 0

\* Every token pushes a level on by one rate: whatever was let through since a time
\* is paid for by what the level rose above it, but for a slack.
PaidFor(p, rate, level, slack) ==
    \A f \in 0..End : Since(p, f) = 0 \/ rate * Since(p, f) <= level - f + slack

Later(s, t) == IF s < t THEN t ELSE s

CounterLevel == IF counter = NoEntry THEN now ELSE counter.expiresAt

FixedHolds ==
    /\ NothingAfter(passed, now)
    /\ PaidFor(passed, Refill, CounterLevel, 0)
    /\ counter # NoEntry =>
        /\ counter.expiresAt <= now + Refill * counter.count
        /\ Limit # 0 => counter.count <= Limit

\* When a bucket was, or would have been, empty.
LevelOf(b) == b.lastRefill - Refill * b.tokens
BucketLevel == IF bucket = NoEntry THEN now - Refill * Limit ELSE LevelOf(bucket)

Largest == Max({Limit, MaxTokens})

BucketHolds ==
    /\ NothingAfter(passed, Later(now, BucketLevel + (Refill - 1)))
    /\ PaidFor(passed, Refill, BucketLevel, Refill * Largest + Refill - 1)
    /\ bucket # NoEntry =>
        /\ bucket.tokens <= Limit
        /\ bucket.lastRefill <= now
        /\ bucket.expiresAt = IdleFrom(bucket)

\* When the run began whose windows a learned limit fills one by one.
RateOf(state) == state.learnedWindow \div state.learnedLimit
BeganAt(state) == state.cooldownUntil - RateOf(state) * state.observedTokens

LearnedHolds(state) ==
    /\ state.observedTokens > 0
    /\ RateOf(state) > 0 /\ RateOf(state) * state.learnedLimit = state.learnedWindow
    /\ NothingAfter(passed, Later(now, BeganAt(state) + WindowNumber(state) * state.learnedWindow))
    /\ PaidFor(passed, RateOf(state), state.cooldownUntil, RateOf(state) * (MaxTokens - 1))

AdaptiveHolds ==
    adaptive # NoEntry =>
        /\ adaptive.phase = "learning" =>
            Whole(adaptive.learningStartedAt) /\ adaptive.observedTokens <= MaxObserved
        /\ adaptive.phase = "learned" => LearnedHolds(adaptive)

StoreInv ==
    /\ StoreTypeOK /\ SlidingBound
    /\ Whole(now)
    /\ algorithm = "fixed" => FixedHolds
    /\ algorithm = "bucket" => BucketHolds
    /\ AdaptiveHolds
    /\ adaptive # NoEntry => algorithm = "adaptive"

-----------------------------------------------------------------------------
(* Arithmetic *)

LEMMA TimesKeepsOrder ==
    ASSUME NEW r \in Nat, NEW x \in Int, NEW y \in Int, x <= y
    PROVE  r * x <= r * y /\ r * x \in Int /\ r * y \in Int
<1>1. y - x \in Nat /\ r * (y - x) \in Nat
    OBVIOUS
<1>2. r * y = r * x + r * (y - x)
    OBVIOUS
<1> QED BY <1>1, <1>2

LEMMA TimesTellsOrder ==
    ASSUME NEW r \in Nat \ {0}, NEW x \in Int, NEW y \in Int, r * x < r * (y + 1)
    PROVE  x <= y
<1> SUFFICES ASSUME y + 1 <= x PROVE FALSE
    OBVIOUS
<1> QED BY TimesKeepsOrder

LEMMA TimesDistributes ==
    ASSUME NEW r \in Int, NEW x \in Int, NEW y \in Int
    PROVE  r * (x + y) = r * x + r * y /\ r * (x - y) = r * x - r * y /\ r * x \in Int /\ r * y \in Int
OBVIOUS

\* How a division comes out.
LEMMA Division ==
    ASSUME NEW a \in Int, NEW r \in Nat \ {0}
    PROVE  a \div r \in Int /\ r * (a \div r) <= a /\ a < r * (a \div r) + r
OBVIOUS

LEMMA NothingLater ==
    ASSUME NEW p, NEW s \in Int, NEW t \in Int, NothingAfter(p, s), s <= t
    PROVE  NothingAfter(p, t)
BY BoundsAreNumbers DEF NothingAfter, End

LEMMA NothingLaterYet ==
    ASSUME NEW p, NEW s \in Int, NEW t \in Int, NEW s2 \in Int, NEW t2 \in Int, s <= s2, t <= t2,
           NEW d \in Int, NothingAfter(p, Later(s, t + d))
    PROVE  NothingAfter(p, Later(s2, t2 + d))
<1>1. /\ Later(s, t + d) \in Int /\ Later(s2, t2 + d) \in Int
      /\ Later(s, t + d) <= Later(s2, t2 + d)
    BY DEF Later
<1> QED BY <1>1, NothingLater

LEMMA MaxOfTwo ==
    ASSUME NEW a \in Int, NEW b \in Int
    PROVE  Max({a, b}) \in {a, b} /\ a <= Max({a, b}) /\ b <= Max({a, b})
<1>1. \E x \in {a, b} : \A y \in {a, b} : x >= y
    <2>1. CASE a >= b
        BY <2>1
    <2>2. CASE b >= a
        BY <2>2
    <2> QED BY <2>1, <2>2
<1> QED BY <1>1 DEF Max

LEMMA LargestType == Largest \in Nat \ {0} /\ Limit <= Largest /\ MaxTokens <= Largest
<1>1. Limit \in Int /\ MaxTokens \in Int /\ Limit >= 0 /\ MaxTokens > 0
    BY RatesAreNumbers
<1>2. Largest \in {Limit, MaxTokens} /\ Limit <= Largest /\ MaxTokens <= Largest
    BY <1>1, MaxOfTwo DEF Largest
<1> QED BY <1>1, <1>2

LEMMA EndType == End \in Nat /\ Horizon = 0..(End - 1) /\ 0..End \subseteq Int
BY BoundsAreNumbers DEF End, Horizon

-----------------------------------------------------------------------------
(* What letting a call through does to the history *)

LEMMA PassingSince ==
    ASSUME passed \in [0..End -> Nat], NEW p \in Horizon, NEW n \in Nat, NothingAfter(passed, p),
           passed' = Passing(n, p)
    PROVE  /\ passed' \in [0..End -> Nat]
           /\ \A f \in 0..End : Since(passed', f) = IF f <= p THEN Since(passed, f) + n ELSE 0
           /\ \A t \in Int : p <= t => NothingAfter(passed', t)
BY EndType DEF Passing, NothingAfter, Since

\* Whoever is let through while the level, with the slack, is not below it, pays.
LEMMA PassingPaid ==
    ASSUME passed \in [0..End -> Nat], NEW p \in Horizon, NEW n \in Nat, NothingAfter(passed, p),
           passed' = Passing(n, p),
           NEW rate \in Nat \ {0}, NEW level \in Int, NEW slack \in Int,
           PaidFor(passed, rate, level, slack), p <= level + slack
    PROVE  PaidFor(passed', rate, level + rate * n, slack)
<1> SUFFICES ASSUME NEW f \in 0..End, Since(passed', f) # 0
             PROVE  rate * Since(passed', f) <= level + rate * n - f + slack
    BY DEF PaidFor
<1>1. f <= p /\ Since(passed', f) = Since(passed, f) + n /\ f \in Int
    BY PassingSince, EndType
<1>2. Since(passed, f) \in Int /\ rate * n \in Int
    BY EndType DEF Since
<1>3. rate * Since(passed', f) = rate * Since(passed, f) + rate * n
    BY <1>1, <1>2, TimesDistributes
<1>4. rate * Since(passed, f) <= level - f + slack
    <2>1. CASE Since(passed, f) = 0
        BY <1>1, <2>1, EndType DEF Horizon
    <2>2. CASE Since(passed, f) # 0
        BY <2>2 DEF PaidFor
    <2> QED BY <2>1, <2>2
<1> QED BY <1>1, <1>2, <1>3, <1>4, TimesDistributes

\* A level that rises, or a slack that is wider, pays for as much.
LEMMA StillPaid ==
    ASSUME passed \in [0..End -> Nat], NEW rate \in Nat, NEW level \in Int, NEW higher \in Int,
           NEW slack \in Int, PaidFor(passed, rate, level, slack), level <= higher
    PROVE  PaidFor(passed, rate, higher, slack)
<1> SUFFICES ASSUME NEW f \in 0..End, Since(passed, f) # 0
             PROVE  rate * Since(passed, f) <= higher - f + slack
    BY DEF PaidFor
<1>1. rate * Since(passed, f) <= level - f + slack /\ f \in Int /\ Since(passed, f) \in Int
    BY EndType DEF PaidFor, Since
<1> QED BY <1>1, TimesDistributes

\* What a span lets through: no more than the level can rise in it.
LEMMA PassingBound ==
    ASSUME passed \in [0..End -> Nat], NEW p \in Horizon, NEW n \in Nat, NothingAfter(passed, p),
           passed' = Passing(n, p),
           NEW rate \in Nat \ {0}, NEW level \in Int, NEW slack \in Int,
           PaidFor(passed', rate, level, slack),
           NEW ahead \in Int, level <= p + ahead,
           NEW bound \in Nat, NEW span \in Nat, span + slack + ahead < rate * (bound + 1),
           NEW from \in Horizon, Between(passed, from, from + span) <= bound
    PROVE  Between(passed', from, from + span) <= bound
<1> DEFINE after == IF from + span < End THEN from + span + 1 ELSE End
<1>1. from \in 0..End /\ after \in 0..End /\ from \in Int /\ p \in Int /\ after \in Int
    BY EndType
<1>2. CASE p < from \/ after <= p
    BY <1>1, <1>2, EndType DEF Between, Passing
<1>3. CASE from <= p /\ p < after
    <2>1. Between(passed', from, from + span) = Since(passed', from)
        BY <1>1, <1>3, EndType DEF Between, Passing, Since, NothingAfter
    <2>2. Since(passed', from) \in Int
        <3>1. passed' \in [0..End -> Nat]
            BY PassingSince
        <3> QED BY <1>1, <3>1, EndType DEF Since
    <2>3. CASE Since(passed', from) # 0
        <3>1. rate * Since(passed', from) <= level - from + slack
            BY <1>1, <2>3 DEF PaidFor
        <3>2. p <= from + span
            BY <1>1, <1>3, EndType
        <3>3. rate * Since(passed', from) < rate * (bound + 1)
            <4>1. rate * Since(passed', from) \in Int /\ rate * (bound + 1) \in Int
                BY <2>2
            <4> QED BY <1>1, <3>1, <3>2, <4>1
        <3> QED BY <2>1, <2>2, <3>3, TimesTellsOrder
    <2> QED BY <2>1, <2>3
<1> QED BY <1>1, <1>2, <1>3

-----------------------------------------------------------------------------
(* Types *)

LEMMA NumbersAreInts ==
    /\ Limit \in Int /\ Refill \in Int /\ MaxTokens \in Int /\ Grace \in Int /\ Fallback \in Int
    /\ MaxWindow \in Int /\ Millis \in Int /\ MaxTime \in Int
    /\ \A n \in Tokens : n \in Nat \ {0} /\ n <= MaxTokens
    /\ \A n \in Nat : Refill * n \in Nat
BY RatesAreNumbers, BoundsAreNumbers, WindowsAreNumbers

LEMMA StateTypes ==
    ASSUME StoreTypeOK
    PROVE  /\ now \in Int /\ now \in Horizon /\ now >= 0
           /\ passed \in [0..End -> Nat]
           /\ counter # NoEntry =>
                counter \in FixedCounter /\ counter.count \in Nat /\ counter.expiresAt \in Int
           /\ bucket # NoEntry =>
                /\ bucket \in TokenBucket /\ bucket.tokens \in Int
                /\ bucket.lastRefill \in Int /\ bucket.expiresAt \in Int
           /\ adaptive # NoEntry => adaptive \in AdaptiveState
           /\ CounterLevel \in Int
           /\ BucketLevel \in Int
<1>1. now \in 0..MaxTime /\ now \in Int /\ now \in Horizon /\ now >= 0
    BY BoundsAreNumbers DEF StoreTypeOK, Horizon, End
<1>2. counter # NoEntry =>
        counter \in FixedCounter /\ counter.count \in Nat /\ counter.expiresAt \in Int
    BY DEF StoreTypeOK, FixedCounter
<1>3. bucket # NoEntry =>
        /\ bucket \in TokenBucket /\ bucket.tokens \in Int
        /\ bucket.lastRefill \in Int /\ bucket.expiresAt \in Int
    BY DEF StoreTypeOK, TokenBucket
<1>4. adaptive # NoEntry => adaptive \in AdaptiveState
    BY DEF StoreTypeOK
<1>5. CounterLevel \in Int
    BY <1>1, <1>2 DEF CounterLevel
<1>6. BucketLevel \in Int
    BY <1>1, <1>3, NumbersAreInts, TimesDistributes DEF BucketLevel, LevelOf
<1> QED BY <1>1, <1>2, <1>3, <1>4, <1>5, <1>6 DEF StoreTypeOK

\* What is not in a map is never what is.
LEMMA EntriesDiffer ==
    /\ \A x \in FixedCounter : x # NoEntry
    /\ \A x \in TokenBucket : x # NoEntry
    /\ \A x \in AdaptiveState : x # NoEntry
BY NoEntryIsNone

-----------------------------------------------------------------------------
(* Whole milliseconds *)

LEMMA WholeIs ==
    ASSUME NEW t \in Int
    PROVE  Whole(t) <=> \E k \in Int : t = Millis * k
<1>1. Millis \in Nat \ {0}
    BY WindowsAreNumbers
<1>2. ASSUME Whole(t) PROVE t = Millis * (t \div Millis) /\ t \div Millis \in Int
    BY <1>1, <1>2 DEF Whole
<1>3. ASSUME NEW k \in Int, t = Millis * k PROVE Whole(t)
    <2> DEFINE q == t \div Millis
    <2>1. q \in Int /\ Millis * q <= Millis * k /\ Millis * k < Millis * q + Millis
        BY <1>1, <1>3, Division
    <2>2. Millis * k < Millis * (q + 1) /\ Millis * q < Millis * (k + 1)
        BY <1>1, <2>1, TimesDistributes
    <2>3. q = k
        BY <1>1, <2>1, <2>2, TimesTellsOrder
    <2> QED BY <1>1, <1>3, <2>3 DEF Whole
<1> QED BY <1>2, <1>3

LEMMA WholeSum ==
    ASSUME NEW s \in Int, NEW t \in Int, Whole(s), Whole(t)
    PROVE  Whole(s + t) /\ Whole(s - t)
<1>0. Millis \in Int
    BY WindowsAreNumbers
<1>1. PICK j \in Int : s = Millis * j
    BY WholeIs
<1>2. PICK k \in Int : t = Millis * k
    BY WholeIs
<1>3. s + t = Millis * (j + k) /\ s - t = Millis * (j - k)
    BY <1>0, <1>1, <1>2
<1> QED BY <1>3, WholeIs

LEMMA ClampedIsWhole ==
    ASSUME NEW t \in Int, Whole(t)
    PROVE  Clamped(t) \in Nat \ {0} /\ Whole(Clamped(t))
<1>1. Whole(Millis)
    BY WindowsAreNumbers, WholeIs
<1> QED BY <1>1, WindowsAreNumbers DEF Clamped

\* A limit learned in a window of whole milliseconds divides it.
LEMMA RateIsExact ==
    ASSUME NEW w \in Nat \ {0}, Whole(w), NEW l \in 1..(MaxObserved - 1)
    PROVE  w \div l \in Nat \ {0} /\ (w \div l) * l = w
<1>0. Millis \in Nat \ {0} /\ l \in Nat \ {0} /\ Millis % l = 0
    BY WindowsAreNumbers, BoundsAreNumbers, PartsAreExact
<1>1. PICK k \in Int : w = Millis * k
    BY WholeIs
<1>2. PICK j \in Int : Millis = l * j
    BY <1>0
<1>3. w = l * (j * k) /\ j * k \in Int
    BY <1>0, <1>1, <1>2
<1> DEFINE q == w \div l
           m == j * k
<1>4. q \in Int /\ l * q <= l * m /\ l * m < l * q + l
    BY <1>0, <1>3, Division
<1> HIDE DEF m
<1>5. l * m < l * (q + 1) /\ l * q < l * (m + 1)
    BY <1>0, <1>3, <1>4, TimesDistributes DEF m
<1>6. m \in Int
    BY <1>3 DEF m
<1>7. q = m
    BY <1>0, <1>4, <1>5, <1>6, TimesTellsOrder
<1>8. w = l * q
    BY <1>3, <1>7 DEF m
<1>9. q > 0
    <2> SUFFICES ASSUME q <= 0 PROVE FALSE
        BY <1>4
    <2> QED BY <1>0, <1>4, <1>8, TimesKeepsOrder
<1> QED BY <1>0, <1>4, <1>8, <1>9

-----------------------------------------------------------------------------
(* The fixed window *)

LEMMA OpenedType ==
    ASSUME StoreTypeOK, FixedHolds
    PROVE  /\ Opened \in FixedCounter /\ Opened.count \in Nat /\ Opened.expiresAt \in Int
           /\ CounterLevel <= Opened.expiresAt /\ now <= Opened.expiresAt
           /\ Opened.expiresAt <= now + Refill * Opened.count
           /\ Limit # 0 => Opened.count <= Limit
<1>1. CASE counter = NoEntry \/ Expired(counter, now)
    <2>1. Opened = [count |-> 0, expiresAt |-> now]
        BY <1>1 DEF Opened
    <2>2. CounterLevel <= now
        BY <1>1, StateTypes DEF CounterLevel, Expired
    <2> QED BY <2>1, <2>2, StateTypes, NumbersAreInts, RatesAreNumbers DEF FixedCounter
<1>2. CASE ~(counter = NoEntry \/ Expired(counter, now))
    BY <1>2, StateTypes DEF Opened, Expired, FixedHolds, CounterLevel
<1> QED BY <1>1, <1>2

LEMMA ChargedType ==
    ASSUME StoreTypeOK, FixedHolds, NEW n \in Tokens
    PROVE  /\ Charged(Opened, n) \in FixedCounter
           /\ Charged(Opened, n).count = Opened.count + n
           /\ Charged(Opened, n).expiresAt = Opened.expiresAt + Refill * n
           /\ Charged(Opened, n).expiresAt \in Int
           /\ Charged(Opened, n).expiresAt > now
           /\ Charged(Opened, n).expiresAt <= now + Refill * (Opened.count + n)
<1>1. Refill * n \in Int /\ Refill * n > 0 /\ n \in Nat
    BY NumbersAreInts, RatesAreNumbers, TimesKeepsOrder
<1>2. Refill * (Opened.count + n) = Refill * Opened.count + Refill * n /\ Refill * Opened.count \in Int
    BY <1>1, OpenedType, NumbersAreInts, TimesDistributes
<1>3. Charged(Opened, n) = [count |-> Opened.count + n, expiresAt |-> Opened.expiresAt + Refill * n]
    BY DEF Charged
<1>4. /\ Opened.count \in Nat /\ Opened.expiresAt \in Int /\ now \in Int
      /\ now <= Opened.expiresAt /\ Opened.expiresAt <= now + Refill * Opened.count
    BY OpenedType, StateTypes
<1>5. Charged(Opened, n) \in FixedCounter
    BY <1>1, <1>3, <1>4 DEF FixedCounter
<1> QED BY <1>1, <1>2, <1>3, <1>4, <1>5

\* The properties of what was let through, by algorithm.
FixedBound(p, from) ==
    Limit # 0 => Between(p, from, from + Limit * Refill - 1) <= 2 * Limit - 1
BucketBound(p, from) ==
    \A span \in 0..Span : Between(p, from, from + span) <= Largest + Ceiling(span, Refill)
LearnedBound(p, from, state) ==
    Between(p, from, from + state.learnedWindow - 1)
        <= 2 * state.learnedLimit - 1 + (MaxTokens - 1)

LEMMA BoundIs ==
    SlidingBound <=>
        \A from \in Horizon :
            /\ algorithm = "fixed" /\ config.failClosed => FixedBound(passed, from)
            /\ algorithm = "bucket" => BucketBound(passed, from)
            /\ adaptive # NoEntry /\ adaptive.phase = "learned" => LearnedBound(passed, from, adaptive)
BY DEF SlidingBound, FixedBound, BucketBound, LearnedBound, Largest, PassedIn, Between

\* The clock goes on, entries that are over go, and nothing else changes.
LEMMA FixedKeeps ==
    ASSUME StoreTypeOK, FixedHolds, now' \in Int, now <= now', passed' = passed,
           \/ counter' = counter
           \/ counter' = NoEntry /\ (counter = NoEntry \/ counter.expiresAt <= now')
    PROVE  FixedHolds'
<1>1. NothingAfter(passed', now')
    BY StateTypes, EndType DEF FixedHolds, NothingAfter, Since
<1>2. CounterLevel' \in Int /\ CounterLevel <= CounterLevel'
    BY StateTypes DEF CounterLevel
<1>3. PaidFor(passed, Refill, CounterLevel', 0)
    BY <1>2, StateTypes, StillPaid, RatesAreNumbers DEF FixedHolds
<1>4. PaidFor(passed', Refill, CounterLevel', 0)
    BY <1>3
<1>5. counter' # NoEntry =>
        /\ counter'.expiresAt <= now' + Refill * counter'.count
        /\ Limit # 0 => counter'.count <= Limit
    BY StateTypes, NumbersAreInts DEF FixedHolds
<1> QED BY <1>1, <1>4, <1>5 DEF FixedHolds

LEMMA AdmitHolds ==
    ASSUME StoreInv, NEW n \in Tokens, NEW always \in BOOLEAN, Admit(n, always)
    PROVE  /\ passed' \in [0..End -> Nat]
           /\ FixedHolds'
           /\ \A from \in Horizon : config.failClosed => FixedBound(passed', from)
<1> DEFINE held == Opened
           level == held.expiresAt
           raised == level + Refill * n
<1>1. StoreTypeOK /\ FixedHolds /\ now' = now /\ now \in Int /\ now \in Horizon
    BY StateTypes DEF StoreInv, Admit
<1>2. /\ counter' = Charged(held, n) /\ counter' # NoEntry
      /\ counter'.count = held.count + n /\ counter'.expiresAt = raised
      /\ raised <= now + Refill * (held.count + n)
    BY <1>1, ChargedType, EntriesDiffer DEF Admit
<1>3. /\ level \in Int /\ n \in Nat /\ held.count \in Nat /\ Refill * n \in Nat /\ raised \in Int
      /\ now <= level /\ CounterLevel <= level /\ level <= raised
    <2>1. n \in Nat /\ Refill * n \in Nat
        BY NumbersAreInts
    <2> QED BY <1>1, <2>1, OpenedType
<1>4. Limit # 0 => held.count + n <= Limit
    BY <1>1, <1>3, RatesAreNumbers DEF Admit, Refuses
<1>5. PaidFor(passed, Refill, level, 0)
    BY <1>1, <1>3, StateTypes, StillPaid, RatesAreNumbers DEF FixedHolds
<1> HIDE DEF held, level
<1>6. CASE passed' = passed
    <2>1. PaidFor(passed, Refill, raised, 0)
        BY <1>1, <1>3, <1>5, StateTypes, StillPaid, RatesAreNumbers
    <2>2. CounterLevel' = raised
        BY <1>2 DEF CounterLevel
    <2>3. FixedHolds'
        BY <1>1, <1>2, <1>4, <1>6, <2>1, <2>2 DEF FixedHolds, PaidFor, NothingAfter, Since
    <2>4. \A from \in Horizon : config.failClosed => FixedBound(passed, from)
        BY BoundIs DEF StoreInv, Admit
    <2> QED BY <1>1, <1>6, <2>3, <2>4, StateTypes
<1>7. CASE passed' = Passing(n, now)
    <2>1. NothingAfter(passed', now) /\ passed' \in [0..End -> Nat]
        BY <1>1, <1>3, <1>7, PassingSince, StateTypes DEF FixedHolds
    <2>2. PaidFor(passed', Refill, raised, 0)
        <3>1. /\ passed \in [0..End -> Nat] /\ NothingAfter(passed, now) /\ 0 \in Int
              /\ Refill \in Nat \ {0} /\ now <= level + 0
            BY <1>1, <1>3, StateTypes, RatesAreNumbers DEF FixedHolds
        <3> QED BY <1>1, <1>3, <1>5, <1>7, <3>1, PassingPaid
    <2>3. CounterLevel' = raised
        BY <1>2 DEF CounterLevel
    <2>4. FixedHolds'
        BY <1>1, <1>2, <1>4, <2>1, <2>2, <2>3 DEF FixedHolds, PaidFor, NothingAfter
    <2>5. ASSUME NEW from \in Horizon, config.failClosed, Limit # 0
          PROVE  Between(passed', from, from + Limit * Refill - 1) <= 2 * Limit - 1
        <3> DEFINE ahead == Refill * Limit
                   span == ahead - 1
                   bound == 2 * Limit - 1
        <3>1. Limit \in Nat /\ Limit > 0 /\ ahead \in Int /\ ahead > 0 /\ ahead = Limit * Refill
            BY <2>5, RatesAreNumbers, TimesKeepsOrder
        <3>2. Refill * (held.count + n) <= ahead
            BY <1>3, <1>4, <2>5, TimesKeepsOrder, RatesAreNumbers
        <3>3. raised <= now + ahead
            BY <1>1, <1>2, <1>3, <3>1, <3>2, NumbersAreInts
        <3>4. Refill * (bound + 1) = ahead + ahead
            BY <3>1, NumbersAreInts
        <3>5. bound \in Nat /\ span \in Nat
            BY <3>1
        <3>6. span + 0 + ahead < Refill * (bound + 1)
            BY <3>1, <3>4
        <3>7. Between(passed, from, from + span) <= bound
            <4>1. FixedBound(passed, from)
                BY <2>5, BoundIs DEF StoreInv, Admit
            <4>2. from + Limit * Refill - 1 = from + span
                BY <3>1, EndType
            <4> QED BY <2>5, <4>1, <4>2 DEF FixedBound
        <3> HIDE DEF ahead, bound, span
        <3>8. Between(passed', from, from + span) <= bound
            <4>1. /\ passed \in [0..End -> Nat] /\ NothingAfter(passed, now) /\ 0 \in Int
                  /\ Refill \in Nat \ {0}
                BY <1>1, StateTypes, RatesAreNumbers DEF FixedHolds
            <4> HIDE DEF raised
            <4> QED BY <1>1, <1>3, <1>7, <2>2, <3>1, <3>3, <3>5, <3>6, <3>7, <4>1, PassingBound
        <3>9. from + Limit * Refill - 1 = from + span
            BY <3>1, EndType DEF span
        <3> QED BY <3>8, <3>9 DEF bound
    <2> QED BY <2>1, <2>4, <2>5 DEF FixedBound
<1> QED BY <1>6, <1>7 DEF Admit, PassingIf

-----------------------------------------------------------------------------
(* The token bucket *)

LEMMA RefilledType ==
    ASSUME StoreTypeOK, BucketHolds
    PROVE  /\ Refilled \in TokenBucket
           /\ Refilled.tokens \in Int /\ Refilled.lastRefill \in Int
           /\ Refilled.tokens <= Limit
           /\ Refilled.lastRefill <= now /\ now < Refilled.lastRefill + Refill
           /\ LevelOf(Refilled) \in Int
           /\ BucketLevel <= LevelOf(Refilled)
<1>0. Limit \in Int /\ Refill \in Nat \ {0} /\ now \in Int /\ BucketLevel \in Int
    BY NumbersAreInts, RatesAreNumbers, StateTypes
<1>1. CASE bucket = NoEntry
    <2>1. Refilled = [tokens |-> Limit, lastRefill |-> now, expiresAt |-> now]
        BY <1>1 DEF Refilled
    <2> QED BY <1>0, <1>1, <2>1, TimesDistributes DEF TokenBucket, LevelOf, BucketLevel
<1>2. CASE bucket # NoEntry
    <2> DEFINE g == (now - bucket.lastRefill) \div Refill
               full == g > 0 /\ bucket.tokens + g > Limit
               t == IF full THEN Limit ELSE bucket.tokens + g
               at == bucket.lastRefill + Refill * g
    <2>1. /\ bucket \in TokenBucket /\ bucket.tokens \in Int /\ bucket.lastRefill \in Int
          /\ bucket.tokens <= Limit /\ bucket.lastRefill <= now
        BY <1>2, StateTypes DEF BucketHolds
    <2>2. /\ g \in Int /\ Refill * g \in Int
          /\ Refill * g <= now - bucket.lastRefill
          /\ now - bucket.lastRefill < Refill * g + Refill
        <3> DEFINE elapsed == now - bucket.lastRefill
        <3>1. elapsed \in Int
            BY <1>0, <2>1
        <3> HIDE DEF elapsed
        <3>2. elapsed \div Refill \in Int /\ Refill * (elapsed \div Refill) \in Int
              /\ Refill * (elapsed \div Refill) <= elapsed
              /\ elapsed < Refill * (elapsed \div Refill) + Refill
            BY <1>0, <3>1, Division
        <3> QED BY <3>2 DEF elapsed
    <2>3. g >= 0
        <3>1. Refill * 0 < Refill * (g + 1)
            BY <1>0, <2>1, <2>2, TimesDistributes
        <3> QED BY <1>0, <2>2, <3>1, TimesTellsOrder
    <2>4. Refilled = [bucket EXCEPT !.tokens = t, !.lastRefill = at]
        BY <1>2 DEF Refilled
    <2> HIDE DEF g
    <2>5. t \in Int /\ t <= Limit /\ at \in Int /\ at <= now /\ now < at + Refill
        BY <1>0, <2>1, <2>2, <2>3
    <2>6. at - Refill * t >= bucket.lastRefill - Refill * bucket.tokens
        <3>1. Refill * t <= Refill * (bucket.tokens + g)
            BY <1>0, <2>1, <2>2, <2>5, TimesKeepsOrder
        <3>2. Refill * (bucket.tokens + g) = Refill * bucket.tokens + Refill * g
            BY <1>0, <2>1, <2>2, TimesDistributes
        <3>3. Refill * t \in Int /\ Refill * bucket.tokens \in Int
            BY <1>0, <2>1, <2>5, TimesDistributes
        <3> HIDE DEF t, g
        <3> QED BY <2>1, <2>2, <3>1, <3>2, <3>3
    <2> HIDE DEF t, at, g
    <2>7. Refilled \in TokenBucket /\ Refilled.tokens = t /\ Refilled.lastRefill = at
        BY <2>1, <2>4, <2>5 DEF TokenBucket
    <2> QED BY <1>0, <1>2, <2>5, <2>6, <2>7, TimesDistributes DEF LevelOf, BucketLevel
<1> QED BY <1>1, <1>2

LEMMA BucketKeeps ==
    ASSUME StoreTypeOK, BucketHolds, now' \in Int, now <= now', passed' = passed,
           \/ bucket' = bucket
           \/ bucket' = NoEntry /\ (bucket = NoEntry \/ bucket.expiresAt <= now')
    PROVE  BucketHolds'
<1>1. BucketLevel' \in Int /\ BucketLevel <= BucketLevel'
    <2>1. CASE bucket' = bucket
        BY <2>1, StateTypes, NumbersAreInts DEF BucketLevel
    <2>2. CASE bucket' = NoEntry /\ bucket # NoEntry /\ bucket.expiresAt <= now'
        <3>1. BucketLevel + Refill * Limit <= now'
            <4>1. /\ bucket.tokens \in Int /\ bucket.lastRefill \in Int /\ Limit \in Int /\ Refill \in Int
                  /\ bucket.lastRefill + Refill * (Limit - bucket.tokens) <= now'
                BY <2>2, StateTypes, NumbersAreInts DEF BucketHolds, IdleFrom
            <4>2. Refill * (Limit - bucket.tokens) = Refill * Limit - Refill * bucket.tokens
                BY <4>1, TimesDistributes
            <4>3. Refill * Limit \in Int /\ Refill * bucket.tokens \in Int
                BY <4>1
            <4> QED BY <2>2, <4>1, <4>2, <4>3 DEF BucketLevel, LevelOf
        <3> QED BY <2>2, <3>1, StateTypes, NumbersAreInts, TimesDistributes DEF BucketLevel
    <2>3. CASE bucket' = NoEntry /\ bucket = NoEntry
        BY <2>3, StateTypes, NumbersAreInts DEF BucketLevel
    <2> QED BY <2>1, <2>2, <2>3
<1> DEFINE slack == Refill * Largest + Refill - 1
<1>2. PaidFor(passed, Refill, BucketLevel', slack)
    <2>1. slack \in Int /\ Refill \in Nat
        BY LargestType, RatesAreNumbers, TimesDistributes
    <2>2. PaidFor(passed, Refill, BucketLevel, slack)
        BY DEF BucketHolds
    <2> HIDE DEF slack
    <2> QED BY <1>1, <2>1, <2>2, StateTypes, StillPaid
<1>3. NothingAfter(passed, Later(now', BucketLevel' + (Refill - 1)))
    <2>1. /\ now \in Int /\ now' \in Int /\ now <= now'
          /\ BucketLevel \in Int /\ BucketLevel' \in Int /\ BucketLevel <= BucketLevel'
          /\ Refill - 1 \in Int
        BY <1>1, StateTypes, RatesAreNumbers
    <2>2. NothingAfter(passed, Later(now, BucketLevel + (Refill - 1)))
        BY DEF BucketHolds
    <2> DEFINE d == Refill - 1
               level == BucketLevel
               higher == BucketLevel'
    <2>3. d \in Int /\ level \in Int /\ higher \in Int /\ level <= higher
          /\ NothingAfter(passed, Later(now, level + d))
        BY <2>1, <2>2
    <2> HIDE DEF d, level, higher
    <2>4. NothingAfter(passed, Later(now', higher + d))
        BY <2>1, <2>3, NothingLaterYet
    <2> QED BY <2>4 DEF d, higher
<1>4. bucket' # NoEntry =>
        /\ bucket'.tokens <= Limit
        /\ bucket'.lastRefill <= now'
        /\ bucket'.expiresAt = IdleFrom(bucket')
    BY StateTypes DEF BucketHolds
<1> QED BY <1>2, <1>3, <1>4 DEF BucketHolds

\* Rounding up covers the span.
LEMMA CeilingCovers ==
    ASSUME NEW a \in Nat, NEW r \in Nat \ {0}
    PROVE  Ceiling(a, r) \in Nat /\ a <= r * Ceiling(a, r)
<1> DEFINE q == (a + r - 1) \div r
<1>1. q \in Int /\ a + r - 1 < r * q + r /\ r * q \in Int
    BY Division, TimesDistributes
<1>2. r * 0 < r * (q + 1)
    BY <1>1, TimesDistributes
<1>3. q >= 0
    BY <1>1, <1>2, TimesTellsOrder
<1> QED BY <1>1, <1>3 DEF Ceiling

LEMMA TakeHolds ==
    ASSUME StoreInv, NEW n \in Tokens, NEW allowOverflow \in BOOLEAN, TakeTokens(n, allowOverflow)
    PROVE  /\ bucket' \in TokenBucket
           /\ passed' \in [0..End -> Nat]
           /\ BucketHolds'
           /\ \A from \in Horizon : BucketBound(passed', from)
<1> DEFINE b == Refilled
           left == b.tokens - n
           level == LevelOf(b)
           slack == Refill * Largest + Refill - 1
           taken == [b EXCEPT !.tokens = IF allowOverflow \/ left >= 0 THEN left ELSE @]
<1>1. /\ StoreTypeOK /\ BucketHolds /\ SlidingBound /\ algorithm = "bucket"
      /\ now' = now /\ now \in Int /\ now \in Horizon /\ passed \in [0..End -> Nat]
    BY StateTypes DEF StoreInv, TakeTokens
<1>2. /\ b \in TokenBucket /\ b.tokens \in Int /\ b.lastRefill \in Int /\ b.tokens <= Limit
      /\ b.lastRefill <= now /\ now < b.lastRefill + Refill
      /\ level \in Int /\ BucketLevel <= level /\ level = b.lastRefill - Refill * b.tokens
    BY <1>1, RefilledType DEF LevelOf
<1>3. /\ n \in Nat \ {0} /\ n <= Largest /\ Limit <= Largest /\ Largest \in Nat
      /\ Refill \in Nat \ {0} /\ Limit \in Int /\ BucketLevel \in Int
    BY <1>1, NumbersAreInts, LargestType, RatesAreNumbers, StateTypes
<1>4. left \in Int /\ slack \in Int /\ Refill * left \in Int /\ Refill * b.tokens \in Int
      /\ Refill * n \in Int /\ Refill * Largest \in Int
    BY <1>2, <1>3, TimesDistributes
<1>5. /\ Refill * left = Refill * b.tokens - Refill * n
      /\ Refill <= Refill * n /\ Refill * n <= Refill * Largest
      /\ Refill * b.tokens <= Refill * Largest
      /\ left >= 0 => Refill <= Refill * b.tokens /\ 0 <= Refill * left
      /\ left < 0 => Refill * left <= -Refill /\ Refill * (-left) = -(Refill * left)
    <2>1. Refill * left = Refill * b.tokens - Refill * n
        BY <1>2, <1>3, TimesDistributes
    <2>2. Refill * 1 <= Refill * n /\ Refill * n <= Refill * Largest /\ Refill * b.tokens <= Refill * Largest
        BY <1>2, <1>3, TimesKeepsOrder
    <2>3. left >= 0 => Refill * 1 <= Refill * b.tokens /\ Refill * 0 <= Refill * left
        BY <1>2, <1>3, <1>4, TimesKeepsOrder
    <2>4. left < 0 => Refill * left <= Refill * (-1)
        BY <1>3, <1>4, TimesKeepsOrder
    <2>5. Refill * (-left) = -(Refill * left)
        BY <1>3, <1>4
    <2> HIDE DEF left
    <2> QED BY <1>3, <2>1, <2>2, <2>3, <2>4, <2>5
<1>6. bucket' = [taken EXCEPT !.expiresAt = IdleFrom(taken)]
    BY DEF TakeTokens
<1>7. PaidFor(passed, Refill, level, slack)
    <2>1. PaidFor(passed, Refill, BucketLevel, slack)
        BY <1>1 DEF BucketHolds
    <2> HIDE DEF level, slack
    <2> QED BY <1>1, <1>2, <1>3, <1>4, <2>1, StillPaid
<1>8. NothingAfter(passed, Later(now, BucketLevel + (Refill - 1)))
    BY <1>1 DEF BucketHolds
<1>9. \A from \in Horizon : BucketBound(passed, from)
    BY <1>1, BoundIs
<1>10. CASE ~(allowOverflow \/ left >= 0)
    <2>1. taken = b /\ passed' = passed
        BY <1>2, <1>10 DEF TakeTokens, TokenBucket
    <2>2. bucket' = [b EXCEPT !.expiresAt = IdleFrom(b)]
        BY <1>6, <2>1
    <2>3. IdleFrom(b) \in Int
        BY <1>2, <1>3, TimesDistributes DEF IdleFrom
    <2> HIDE DEF b
    <2>4. /\ bucket' \in TokenBucket /\ bucket'.tokens = b.tokens /\ bucket'.lastRefill = b.lastRefill
          /\ bucket'.expiresAt = IdleFrom(bucket')
        BY <1>2, <2>2, <2>3 DEF TokenBucket, IdleFrom
    <2>5. BucketLevel' = level
        BY <1>2, <2>4, EntriesDiffer DEF BucketLevel, LevelOf
    <2>6. NothingAfter(passed, Later(now, level + (Refill - 1)))
        <3>1. /\ Later(now, BucketLevel + (Refill - 1)) \in Int /\ Later(now, level + (Refill - 1)) \in Int
              /\ Later(now, BucketLevel + (Refill - 1)) <= Later(now, level + (Refill - 1))
            BY <1>1, <1>2, <1>3 DEF Later
        <3> QED BY <1>8, <3>1, NothingLater
    <2>7. BucketHolds'
        BY <1>1, <1>2, <1>7, <2>1, <2>4, <2>5, <2>6 DEF BucketHolds
    <2> QED BY <1>1, <1>9, <2>1, <2>4, <2>7
<1>11. CASE allowOverflow \/ left >= 0
    <2> DEFINE wait == IF left >= 0 THEN 0 ELSE Refill * (-left)
               p == now + wait
               raised == level + Refill * n
    <2>1. taken = [b EXCEPT !.tokens = left] /\ passed' = Passing(n, p) /\ p \in Horizon
        BY <1>11 DEF TakeTokens
    <2>2. IdleFrom(taken) \in Int /\ taken.tokens = left /\ taken.lastRefill = b.lastRefill
          /\ taken \in TokenBucket
        <3> HIDE DEF b, taken, left
        <3>1. taken.tokens = left /\ taken.lastRefill = b.lastRefill /\ taken \in TokenBucket
            BY <1>2, <1>4, <2>1 DEF TokenBucket
        <3> QED BY <1>2, <1>3, <1>4, <3>1, TimesDistributes DEF IdleFrom
    <2> HIDE DEF b, taken, left
    <2>3. /\ bucket' \in TokenBucket /\ bucket'.tokens = left /\ bucket'.lastRefill = b.lastRefill
          /\ bucket'.expiresAt = IdleFrom(bucket')
        BY <1>6, <2>2 DEF TokenBucket, IdleFrom
    <2>4. BucketLevel' = raised /\ raised = b.lastRefill - Refill * left
        BY <1>2, <1>4, <1>5, <2>3, EntriesDiffer DEF BucketLevel, LevelOf
    <2>5. left <= Limit
        BY <1>2, <1>3 DEF left
    <2>6. p \in Int /\ raised \in Int
        BY <1>1, <1>2, <1>4, <1>5
    <2>7. /\ now <= p /\ BucketLevel + Refill - 1 <= p /\ p <= level + slack /\ raised <= p
          /\ p = now \/ p <= raised + Refill - 1
        <3> DEFINE held == Refill * b.tokens
                   asked == Refill * n
                   owed == Refill * left
                   most == Refill * Largest
        <3>1. /\ owed = held - asked /\ Refill <= asked /\ asked <= most /\ held <= most
              /\ left >= 0 => p = now /\ Refill <= held /\ 0 <= owed
              /\ left < 0 => p = now - owed /\ owed <= -Refill
              /\ held \in Int /\ asked \in Int /\ owed \in Int /\ most \in Int
              /\ level = b.lastRefill - held /\ raised = b.lastRefill - owed
              /\ slack = most + Refill - 1
            BY <1>1, <1>2, <1>4, <1>5, <2>4
        <3> HIDE DEF held, asked, owed, most, p, level, raised, slack
        <3>2. /\ now \in Int /\ b.lastRefill \in Int /\ left \in Int /\ Refill \in Int /\ Refill > 0
              /\ b.lastRefill <= now /\ now < b.lastRefill + Refill
              /\ BucketLevel \in Int /\ BucketLevel <= level
            BY <1>1, <1>2, <1>3, <1>4
        <3>3. CASE left >= 0
            BY <3>1, <3>2, <3>3
        <3>4. CASE left < 0
            BY <3>1, <3>2, <3>4
        <3> QED BY <3>2, <3>3, <3>4
    <2> HIDE DEF p, raised, level, slack
    <2>8. NothingAfter(passed, p)
        <3>1. Later(now, BucketLevel + (Refill - 1)) \in Int /\ Later(now, BucketLevel + (Refill - 1)) <= p
            BY <1>1, <1>3, <2>6, <2>7 DEF Later
        <3> QED BY <1>8, <2>6, <3>1, NothingLater
    <2>9. passed' \in [0..End -> Nat] /\ NothingAfter(passed', Later(now, raised + (Refill - 1)))
        <3>1. Later(now, raised + (Refill - 1)) \in Int /\ p <= Later(now, raised + (Refill - 1))
            BY <1>1, <1>3, <2>6, <2>7 DEF Later
        <3> QED BY <1>1, <1>3, <2>1, <2>8, <3>1, PassingSince
    <2>10. PaidFor(passed', Refill, raised, slack)
        BY <1>1, <1>2, <1>3, <1>4, <1>7, <2>1, <2>7, <2>8, PassingPaid DEF raised
    <2>11. BucketHolds'
        BY <1>1, <1>2, <2>3, <2>4, <2>5, <2>9, <2>10 DEF BucketHolds, slack
    <2>12. ASSUME NEW from \in Horizon, NEW span \in 0..Span
           PROVE  Between(passed', from, from + span) <= Largest + Ceiling(span, Refill)
        <3> DEFINE bound == Largest + Ceiling(span, Refill)
        <3>1. span \in Nat
            <4>1. Limit * Refill \in Int /\ MaxWindow \in Int
                BY NumbersAreInts
            <4>2. Span \in Int
                BY <4>1, MaxOfTwo DEF Span
            <4> QED BY <4>2
        <3>2. Ceiling(span, Refill) \in Nat /\ span <= Refill * Ceiling(span, Refill)
            BY <1>3, <3>1, CeilingCovers
        <3>3. Refill * (bound + 1) = Refill * Largest + Refill * Ceiling(span, Refill) + Refill
              /\ Refill * Ceiling(span, Refill) \in Int
            BY <1>3, <3>2
        <3>4. span + slack + 0 < Refill * (bound + 1)
            BY <1>3, <1>4, <3>1, <3>2, <3>3 DEF slack
        <3>5. Between(passed, from, from + span) <= bound
            BY <1>9 DEF BucketBound
        <3>6. bound \in Nat /\ raised <= p + 0
            BY <1>3, <2>6, <2>7, <3>2
        <3>7. n \in Nat /\ Refill \in Nat \ {0} /\ slack \in Int /\ 0 \in Int
            BY <1>3, <1>4
        <3> HIDE DEF bound
        <3>8. Between(passed', from, from + span) <= bound
            BY <1>1, <2>1, <2>6, <2>8, <2>10, <3>1, <3>4, <3>5, <3>6, <3>7, PassingBound
        <3> QED BY <3>8 DEF bound
    <2> QED BY <2>3, <2>9, <2>11, <2>12 DEF BucketBound
<1> QED BY <1>10, <1>11

-----------------------------------------------------------------------------
(* The adaptive limiter *)

\* The arithmetic of one call: when it is its turn, and how far ahead it pays.
LEMMA TurnOf ==
    ASSUME NEW rate \in Nat \ {0}, NEW l \in Nat \ {0}, NEW w \in Int, rate * l = w,
           NEW n \in Nat \ {0}, NEW o \in Nat, NEW until \in Int, NEW k \in Int,
           k = (o + n - 1) \div l
    PROVE  /\ until - rate * o + k * w \in Int
           /\ until - rate * o + k * w <= until + rate * (n - 1)
           /\ until + rate * n <= until - rate * o + k * w + w
<1>1. l * k <= o + n - 1 /\ o + n - 1 < l * k + l /\ l * k \in Int
    <2> DEFINE a == o + n - 1
    <2>1. a \in Int
        OBVIOUS
    <2> HIDE DEF a
    <2>2. l * (a \div l) <= a /\ a < l * (a \div l) + l /\ a \div l \in Int
        BY <2>1, Division
    <2> QED BY <2>2 DEF a
<1>2. rate * (l * k) = k * w
    OBVIOUS
<1>3. rate * (l * k) <= rate * (o + n - 1) /\ rate * (o + n) <= rate * (l * k + l)
    BY <1>1, TimesKeepsOrder
<1>4. rate * (l * k + l) = k * w + w
    BY <1>1, <1>2, TimesDistributes
<1>5. /\ rate * (o + n) = rate * o + rate * n
      /\ rate * (o + n - 1) = rate * o + rate * (n - 1)
      /\ rate * o \in Int /\ rate * n \in Int /\ rate * (n - 1) \in Int /\ k * w \in Int
    <2>1. rate * (o + (n - 1)) = rate * o + rate * (n - 1) /\ o + (n - 1) = o + n - 1
        BY TimesDistributes
    <2> QED BY <2>1, TimesDistributes
<1> QED BY <1>2, <1>3, <1>4, <1>5

LEMMA DivisionKeepsOrder ==
    ASSUME NEW a \in Int, NEW b \in Int, a <= b, NEW r \in Nat \ {0}
    PROVE  a \div r <= b \div r
<1>1. /\ r * (a \div r) <= a /\ b < r * (b \div r) + r
      /\ a \div r \in Int /\ b \div r \in Int
      /\ r * (a \div r) \in Int /\ r * (b \div r) \in Int
    BY Division, TimesDistributes
<1>2. r * (b \div r + 1) = r * (b \div r) + r
    BY <1>1, TimesDistributes
<1>3. r * (a \div r) < r * (b \div r + 1)
    BY <1>1, <1>2
<1> QED BY <1>1, <1>3, TimesTellsOrder

LEMMA LearnedHoldsType ==
    ASSUME StoreTypeOK, adaptive # NoEntry, adaptive.phase = "learned", LearnedHolds(adaptive)
    PROVE  /\ adaptive \in AdaptiveState
           /\ RateOf(adaptive) \in Nat \ {0}
           /\ adaptive.learnedLimit \in Nat \ {0} /\ adaptive.learnedWindow \in Nat \ {0}
           /\ adaptive.observedTokens \in Nat \ {0}
           /\ adaptive.cooldownUntil \in Int /\ adaptive.expiresAt \in Int
           /\ RateOf(adaptive) * adaptive.learnedLimit = adaptive.learnedWindow
           /\ WindowNumber(adaptive) \in Int
           /\ BeganAt(adaptive) \in Int
<1>1. /\ adaptive \in AdaptiveState
      /\ adaptive.learnedLimit \in Nat \ {0} /\ adaptive.learnedWindow \in Nat \ {0}
      /\ adaptive.observedTokens \in Nat \ {0}
      /\ adaptive.cooldownUntil \in Int /\ adaptive.expiresAt \in Int
    BY DEF StoreTypeOK, Learned, AdaptiveState, LearnedHolds
<1>2. RateOf(adaptive) \in Nat \ {0}
    BY <1>1, Division DEF RateOf, LearnedHolds
<1>3. WindowNumber(adaptive) \in Int
    BY <1>1, Division DEF WindowNumber
<1>4. BeganAt(adaptive) \in Int
    BY <1>1, <1>2, TimesDistributes DEF BeganAt
<1> QED BY <1>1, <1>2, <1>3, <1>4 DEF LearnedHolds

LEMMA ConsumeLearnedHolds ==
    ASSUME StoreInv, NEW n \in Tokens, ConsumeLearned(n)
    PROVE  /\ adaptive' \in AdaptiveState /\ Learned(adaptive')
           /\ passed' \in [0..End -> Nat]
           /\ AdaptiveHolds'
           /\ \A from \in Horizon : LearnedBound(passed', from, adaptive')
<1> DEFINE rate == RateOf(adaptive)
           l == adaptive.learnedLimit
           w == adaptive.learnedWindow
           over == adaptive.cooldownUntil <= now
           o == IF over THEN 0 ELSE adaptive.observedTokens
           until == IF over THEN now ELSE adaptive.cooldownUntil
           k == (o + n - 1) \div l
           began == until - rate * o
           turn == Later(now, began + k * w)
           slack == rate * (MaxTokens - 1)
           raised == until + rate * n
<1>1. /\ StoreTypeOK /\ SlidingBound /\ adaptive # NoEntry /\ adaptive.phase = "learned"
      /\ LearnedHolds(adaptive) /\ now' = now /\ now \in Int /\ now \in Horizon
      /\ passed \in [0..End -> Nat]
    BY StateTypes DEF StoreInv, ConsumeLearned, Current, AdaptiveHolds
<1>2. /\ adaptive \in AdaptiveState
      /\ rate \in Nat \ {0} /\ l \in Nat \ {0} /\ w \in Nat \ {0} /\ rate * l = w
      /\ adaptive.observedTokens \in Nat \ {0} /\ adaptive.cooldownUntil \in Int
      /\ WindowNumber(adaptive) \in Int /\ BeganAt(adaptive) \in Int
    BY <1>1, LearnedHoldsType
<1>3. n \in Nat \ {0} /\ n <= MaxTokens /\ MaxTokens \in Int
    BY NumbersAreInts
<1>4. o \in Nat /\ until \in Int /\ now <= until /\ adaptive.cooldownUntil <= until
    BY <1>1, <1>2
<1>5. /\ rate * o \in Int /\ rate * n \in Int /\ slack \in Int /\ raised \in Int /\ began \in Int
      /\ rate * (n - 1) <= slack
    BY <1>2, <1>3, <1>4, TimesDistributes, TimesKeepsOrder
<1>6. k \in Int /\ k * w \in Int
    <2> DEFINE a == o + n - 1
    <2>1. a \in Int
        BY <1>3, <1>4
    <2> HIDE DEF a
    <2>2. a \div l \in Int
        BY <1>2, <2>1, Division
    <2>3. k \in Int
        BY <2>2 DEF a
    <2> HIDE DEF k
    <2> QED BY <1>2, <2>3
<1> DEFINE begun == IF over THEN [adaptive EXCEPT !.observedTokens = 0, !.cooldownUntil = now]
                            ELSE adaptive
           state == [begun EXCEPT !.observedTokens = @ + n, !.cooldownUntil = @ + rate * n]
<1>7. /\ begun \in AdaptiveState /\ begun.observedTokens = o /\ begun.cooldownUntil = until
      /\ begun.learnedLimit = l /\ begun.learnedWindow = w /\ begun.phase = "learned"
    <2>1. adaptive \in AdaptiveState /\ now \in Int /\ adaptive.phase = "learned"
        BY <1>1, <1>2
    <2>2. CASE over
        <3>1. begun = [adaptive EXCEPT !.observedTokens = 0, !.cooldownUntil = now] /\ o = 0 /\ until = now
            BY <2>2
        <3>2. o \in Int /\ until \in Int
            BY <1>4
        <3> HIDE DEF begun, o, until
        <3>3. begun = [adaptive EXCEPT !.observedTokens = o, !.cooldownUntil = until]
            BY <3>1
        <3> DEFINE s == adaptive
        <3>4. s \in AdaptiveState /\ begun = [s EXCEPT !.observedTokens = o, !.cooldownUntil = until]
              /\ s.learnedLimit = l /\ s.learnedWindow = w /\ s.phase = "learned"
            BY <2>1, <3>3
        <3> HIDE DEF s, l, w
        <3> QED BY <3>2, <3>4 DEF AdaptiveState
    <2>3. CASE ~over
        BY <2>1, <2>3
    <2> QED BY <2>2, <2>3
<1>8. /\ state \in AdaptiveState /\ state.observedTokens = o + n /\ state.cooldownUntil = raised
      /\ state.learnedLimit = l /\ state.learnedWindow = w /\ state.phase = "learned"
    <2> DEFINE paid == rate * n
    <2>1. o \in Nat /\ until \in Int /\ n \in Nat /\ paid \in Int
        BY <1>3, <1>4, <1>5
    <2>2. /\ state = [begun EXCEPT !.observedTokens = @ + n, !.cooldownUntil = @ + paid]
          /\ raised = until + paid
        OBVIOUS
    <2> HIDE DEF begun, state, paid, raised, o, until
    <2>3. state = [begun EXCEPT !.observedTokens = o + n, !.cooldownUntil = raised]
        BY <1>7, <2>2
    <2>4. o + n \in Int /\ raised \in Int
        BY <2>1, <2>2
    <2> DEFINE t == state
    <2>5. t = [begun EXCEPT !.observedTokens = o + n, !.cooldownUntil = raised]
        BY <2>3
    <2>6. /\ begun \in AdaptiveState /\ begun.learnedLimit = l /\ begun.learnedWindow = w
          /\ begun.phase = "learned"
        BY <1>7
    <2> HIDE DEF l, w, t
    <2>7. /\ t \in AdaptiveState /\ t.observedTokens = o + n /\ t.cooldownUntil = raised
          /\ t.learnedLimit = l /\ t.learnedWindow = w /\ t.phase = "learned"
        BY <2>4, <2>5, <2>6 DEF AdaptiveState
    <2> QED BY <2>7 DEF t
<1>9. RateOf(state) = rate /\ BeganAt(state) = began /\ WindowNumber(state) = k
    <2>1. RateOf(state) = rate
        BY <1>8 DEF RateOf
    <2>2. rate * (o + n) = rate * o + rate * n
        BY <1>2, <1>3, <1>4, TimesDistributes
    <2>3. BeganAt(state) = began
        <3>1. BeganAt(state) = raised - rate * (o + n)
            BY <1>8, <2>1 DEF BeganAt
        <3> HIDE DEF rate, o, until
        <3> QED BY <1>4, <1>5, <2>2, <3>1
    <2>4. WindowNumber(state) = k
        <3>1. /\ state.observedTokens = o + n /\ state.learnedLimit = l
              /\ l \in Nat \ {0} /\ o \in Nat /\ n \in Nat
            BY <1>2, <1>3, <1>4, <1>8
        <3> HIDE DEF state, o, l
        <3> QED BY <3>1 DEF WindowNumber
    <2> QED BY <2>1, <2>3, <2>4
<1>10. adaptive' = state /\ passed' = Passing(n, turn) /\ turn \in Horizon
    <2> DEFINE elapsed == rate * state.observedTokens - (state.cooldownUntil - now)
               wait == WindowNumber(state) * state.learnedWindow - elapsed
    <2>1. LET t == IF wait <= 0 THEN now ELSE now + wait IN
          t \in Horizon /\ adaptive' = state /\ passed' = Passing(n, t)
        BY DEF ConsumeLearned, RateOf
    <2>2. wait = began + k * w - now
        <3>1. wait = k * w - (rate * (o + n) - (raised - now))
            BY <1>8, <1>9
        <3>2. rate * (o + n) = rate * o + rate * n
            BY <1>2, <1>3, <1>4, TimesDistributes
        <3> DEFINE a == k * w
                   b == rate * o
                   c == rate * n
        <3>3. /\ a \in Int /\ b \in Int /\ c \in Int /\ until \in Int /\ now \in Int
              /\ wait = a - ((b + c) - ((until + c) - now)) /\ began = until - b
            BY <1>1, <1>4, <1>5, <1>6, <3>1, <3>2
        <3> HIDE DEF a, b, c, until, wait, began
        <3>4. wait = began + a - now
            BY <3>3
        <3> QED BY <3>4 DEF a
    <2>3. turn = IF wait <= 0 THEN now ELSE now + wait
        <3> HIDE DEF wait, began, k
        <3> QED BY <1>1, <1>5, <1>6, <2>2 DEF Later
    <2> QED BY <2>1, <2>3
<1> HIDE DEF state, begun
<1>11. /\ began + k * w <= until + rate * (n - 1)
       /\ raised <= began + k * w + w
    <2>1. /\ k = (o + n - 1) \div l /\ k \in Int /\ rate \in Nat \ {0} /\ l \in Nat \ {0} /\ w \in Int
          /\ rate * l = w /\ n \in Nat \ {0} /\ o \in Nat /\ until \in Int
        BY <1>2, <1>3, <1>4, <1>6
    <2> HIDE DEF rate, o, until, k, l, w
    <2>2. /\ until - rate * o + k * w <= until + rate * (n - 1)
          /\ until + rate * n <= until - rate * o + k * w + w
        BY <2>1, TurnOf
    <2> QED BY <2>2
<1>12. /\ turn \in Int /\ now <= turn /\ began + k * w <= turn
       /\ turn <= until + slack /\ raised <= turn + w
    <2>1. 0 <= rate * (n - 1) /\ rate * (n - 1) \in Int
        BY <1>2, <1>3, TimesKeepsOrder
    <2> DEFINE x == began + k * w
               y == rate * (n - 1)
    <2>2. /\ x \in Int /\ y \in Int /\ 0 <= y /\ y <= slack /\ x <= until + y /\ raised <= x + w
          /\ now <= until /\ now \in Int /\ until \in Int /\ slack \in Int /\ raised \in Int /\ w \in Int
        <3> HIDE DEF rate, until, began, k, raised, slack, w
        <3> QED BY <1>1, <1>2, <1>4, <1>5, <1>6, <1>11, <2>1
    <2> HIDE DEF x, y, until, slack, raised
    <2>3. turn = Later(now, x)
        BY DEF x
    <2>4. /\ Later(now, x) \in Int /\ now <= Later(now, x) /\ x <= Later(now, x)
          /\ Later(now, x) <= until + slack /\ raised <= Later(now, x) + w
        BY <2>2 DEF Later
    <2> QED BY <2>3, <2>4 DEF x
<1>13. PaidFor(passed, rate, until, slack)
    <2>1. PaidFor(passed, rate, adaptive.cooldownUntil, slack)
        BY <1>1 DEF LearnedHolds
    <2> HIDE DEF rate, until, slack
    <2> QED BY <1>1, <1>2, <1>4, <1>5, <2>1, StillPaid
<1>14. NothingAfter(passed, turn)
    <2> DEFINE kept == adaptive.observedTokens
               j == WindowNumber(adaptive)
               y == BeganAt(adaptive) + j * w
    <2>1. NothingAfter(passed, Later(now, y)) /\ y \in Int
        BY <1>1, <1>2 DEF LearnedHolds
    <2>2. y <= turn
        <3>1. CASE over
            <4>1. j = (kept - 1) \div l /\ BeganAt(adaptive) = adaptive.cooldownUntil - rate * kept
                BY DEF WindowNumber, BeganAt
            <4> DEFINE before == kept - 1
            <4>2. before \in Nat /\ j = (before + 1 - 1) \div l /\ j \in Int
                BY <1>2, <4>1
            <4>3. adaptive.cooldownUntil - rate * before + j * w <= adaptive.cooldownUntil + rate * (1 - 1) 
                  /\ adaptive.cooldownUntil + rate * 1 <= adaptive.cooldownUntil - rate * before + j * w + w
                <5>1. /\ rate \in Nat \ {0} /\ l \in Nat \ {0} /\ w \in Int /\ rate * l = w
                      /\ adaptive.cooldownUntil \in Int /\ 1 \in Nat \ {0}
                    BY <1>2
                <5> DEFINE ends == adaptive.cooldownUntil
                <5> HIDE DEF before, rate, j, l, w, ends
                <5>2. ends \in Int
                    BY <5>1 DEF ends
                <5>3. /\ ends - rate * before + j * w <= ends + rate * (1 - 1)
                      /\ ends + rate * 1 <= ends - rate * before + j * w + w
                    BY <4>2, <5>1, <5>2, TurnOf
                <5> QED BY <5>3 DEF ends
            <4>4. rate * kept = rate * before + rate /\ rate * before \in Int
                BY <1>2
            <4>5. y <= adaptive.cooldownUntil
                <5> HIDE DEF rate, before
                <5> QED BY <1>2, <4>1, <4>3, <4>4
            <4> QED BY <1>1, <1>2, <1>12, <3>1, <4>5, <2>1
        <3>2. CASE ~over
            <4>1. o = kept /\ until = adaptive.cooldownUntil
                BY <3>2
            <4>2. began = BeganAt(adaptive)
                BY <4>1 DEF BeganAt
            <4>3. j <= k
                <5>1. kept - 1 \in Int /\ o + n - 1 \in Int /\ kept - 1 <= o + n - 1
                    BY <1>2, <1>3, <4>1
                <5>2. j = (kept - 1) \div l
                    BY DEF WindowNumber
                <5> DEFINE a == kept - 1
                           b == o + n - 1
                <5> HIDE DEF a, b
                <5>3. a \div l <= b \div l
                    BY <1>2, <5>1, DivisionKeepsOrder DEF a, b
                <5> QED BY <5>2, <5>3 DEF a, b
            <4>4. w * j <= w * k /\ w * j = j * w /\ w * k = k * w
                <5> HIDE DEF k, j
                <5> QED BY <1>2, <1>6, <4>3, TimesKeepsOrder DEF j
            <4> DEFINE a == j * w
                       b == k * w
            <4>5. /\ began + b <= turn /\ turn \in Int /\ began \in Int /\ a \in Int /\ b \in Int
                  /\ a <= b /\ y = began + a
                <5>1. j \in Int /\ w \in Int /\ j * w \in Int /\ k * w \in Int /\ j * w <= k * w
                    <6> HIDE DEF j, k, w
                    <6>1. j \in Int /\ w \in Int
                        BY <1>2 DEF j
                    <6> QED BY <1>6, <4>4, <6>1
                <5>2. y = began + j * w
                    BY <4>2
                <5>3. began + k * w <= turn /\ turn \in Int /\ began \in Int
                    BY <1>5, <1>12
                <5> QED BY <5>1, <5>2, <5>3
            <4> HIDE DEF turn, began, a, b, y
            <4> QED BY <4>5
        <3> QED BY <3>1, <3>2
    <2>3. Later(now, y) \in Int /\ Later(now, y) <= turn
        <3> HIDE DEF y, turn
        <3> QED BY <1>1, <1>12, <2>1, <2>2 DEF Later
    <2>4. turn \in Int
        BY <1>12
    <2> HIDE DEF turn, y
    <2> QED BY <2>1, <2>3, <2>4, NothingLater
<1>15. PaidFor(passed', rate, raised, slack)
    <2>1. turn <= until + slack
        BY <1>12
    <2> HIDE DEF rate, until, slack, turn
    <2> QED BY <1>1, <1>2, <1>3, <1>4, <1>5, <1>10, <1>13, <1>14, <2>1, PassingPaid
<1>16. passed' \in [0..End -> Nat] /\ NothingAfter(passed', Later(now, began + k * w))
    <2>1. turn \in Int /\ turn <= turn
        BY <1>12
    <2> HIDE DEF turn
    <2>2. passed' \in [0..End -> Nat] /\ NothingAfter(passed', turn)
        BY <1>1, <1>3, <1>10, <1>14, <2>1, PassingSince
    <2> QED BY <2>2 DEF turn
<1>17. LearnedHolds(adaptive)'
    <2>1. /\ adaptive'.observedTokens = o + n /\ adaptive'.cooldownUntil = raised
          /\ adaptive'.learnedLimit = l /\ adaptive'.learnedWindow = w
          /\ RateOf(adaptive') = rate /\ BeganAt(adaptive') = began /\ WindowNumber(adaptive') = k
        BY <1>8, <1>9, <1>10
    <2>2. o + n > 0 /\ rate > 0 /\ rate * l = w /\ now' = now
        BY <1>1, <1>2, <1>3, <1>4
    <2>3. NothingAfter(passed', Later(now, began + k * w)) /\ PaidFor(passed', rate, raised, rate * (MaxTokens - 1))
        BY <1>15, <1>16
    <2> HIDE DEF rate, raised, began, k, l, w, o
    <2> QED BY <2>1, <2>2, <2>3 DEF LearnedHolds
<1>18. adaptive' \in AdaptiveState /\ Learned(adaptive') /\ AdaptiveHolds'
    <2>1. adaptive'.phase = "learned" /\ adaptive' \in AdaptiveState
        BY <1>8, <1>10
    <2>2. adaptive'.learnedLimit > 0 /\ adaptive'.learnedWindow > 0
        BY <1>2, <1>8, <1>10
    <2> QED BY <1>17, <2>1, <2>2 DEF AdaptiveHolds, Learned
<1>19. ASSUME NEW from \in Horizon
       PROVE  LearnedBound(passed', from, adaptive')
    <2> DEFINE bound == 2 * l - 1 + (MaxTokens - 1)
               span == w - 1
    <2>1. Between(passed, from, from + span) <= bound
        <3>1. LearnedBound(passed, from, adaptive)
            BY <1>1, BoundIs
        <3>2. from + adaptive.learnedWindow - 1 = from + span
            BY <1>2, EndType
        <3> QED BY <3>1, <3>2 DEF LearnedBound
    <2>2. bound \in Nat /\ span \in Nat
        BY <1>2, <1>3
    <2>3. span + slack + w < rate * (bound + 1)
        <3>1. rate * (bound + 1) = rate * (l + l) + rate * (MaxTokens - 1)
            <4>1. bound + 1 = (l + l) + (MaxTokens - 1)
                BY <1>2, <1>3
            <4>2. l + l \in Int /\ MaxTokens - 1 \in Int /\ rate \in Int
                BY <1>2, <1>3
            <4> HIDE DEF bound, rate, l
            <4> QED BY <4>1, <4>2, TimesDistributes
        <3>2. rate * (l + l) = w + w
            BY <1>2, TimesDistributes
        <3> HIDE DEF rate, l, bound
        <3> QED BY <1>2, <1>5, <3>1, <3>2 DEF slack
    <2>4. Between(passed', from, from + span) <= bound
        <3>1. raised <= turn + w /\ w \in Int /\ n \in Nat
            BY <1>2, <1>3, <1>12
        <3> HIDE DEF rate, raised, slack, turn, bound, span, w
        <3> QED BY <1>1, <1>2, <1>5, <1>10, <1>14, <1>15, <2>1, <2>2, <2>3, <3>1, PassingBound
    <2>5. adaptive'.learnedLimit = l /\ adaptive'.learnedWindow = w
        BY <1>8, <1>10
    <2>6. from + adaptive'.learnedWindow - 1 = from + span
        BY <1>2, <2>5, EndType
    <2> QED BY <2>4, <2>5, <2>6 DEF LearnedBound
<1> QED BY <1>16, <1>18, <1>19

\* Time passes over what was learned, or it is swept.
LEMMA AdaptiveKeeps ==
    ASSUME StoreTypeOK, AdaptiveHolds, now' \in Int, now <= now', passed' = passed,
           adaptive' = adaptive \/ adaptive' = NoEntry
    PROVE  AdaptiveHolds'
<1> SUFFICES ASSUME adaptive' = adaptive, adaptive # NoEntry, adaptive.phase = "learned"
             PROVE  LearnedHolds(adaptive)'
    BY DEF AdaptiveHolds
<1>1. LearnedHolds(adaptive) /\ now \in Int
    BY StateTypes DEF AdaptiveHolds
<1> DEFINE ends == BeganAt(adaptive) + WindowNumber(adaptive) * adaptive.learnedWindow
<1>2. ends \in Int
    BY <1>1, LearnedHoldsType
<1>3. NothingAfter(passed, Later(now, ends)) /\ Later(now, ends) \in Int
    BY <1>1, <1>2 DEF LearnedHolds, Later
<1>4. NothingAfter(passed, Later(now', ends))
    <2>1. Later(now', ends) \in Int /\ Later(now, ends) <= Later(now', ends)
        <3> HIDE DEF ends
        <3> QED BY <1>1, <1>2 DEF Later
    <2> HIDE DEF ends
    <2> QED BY <1>3, <2>1, NothingLater
<1> QED BY <1>1, <1>4 DEF LearnedHolds

LEMMA AnsweredType ==
    ASSUME calls \subseteq [epoch : Nat, tokens : Tokens],
           NEW epoch \in Nat, NEW n \in Tokens, Answered(epoch, n)
    PROVE  calls' \subseteq [epoch : Nat, tokens : Tokens]
<1>1. [epoch |-> epoch, tokens |-> n] \in [epoch : Nat, tokens : Tokens]
    OBVIOUS
<1> QED BY <1>1 DEF Answered

LEMMA CoolingType ==
    ASSUME NEW epoch \in Nat, NEW until \in Int
    PROVE  Cooling(epoch, until) \in AdaptiveState /\ Cooling(epoch, until).phase = "cooldown"
BY NumbersAreInts DEF Cooling, AdaptiveState

\* Nothing was let through yet.
LEMMA NothingPassed ==
    ASSUME NEW p, p = [t \in 0..End |-> 0]
    PROVE  /\ p \in [0..End -> Nat]
           /\ \A t \in Int : NothingAfter(p, t)
           /\ \A rate \in Int, level \in Int, slack \in Int : PaidFor(p, rate, level, slack)
           /\ \A from \in Horizon, to \in Int : from <= to => Between(p, from, to) = 0
<1>1. \A s \in 0..End : p[s] = 0
    OBVIOUS
<1> QED BY <1>1, EndType DEF NothingAfter, PaidFor, Since, Between

-----------------------------------------------------------------------------
(* The invariant holds *)

LEMMA BoundIsNext ==
    SlidingBound' <=>
        \A from \in Horizon :
            /\ algorithm' = "fixed" /\ config'.failClosed => FixedBound(passed', from)
            /\ algorithm' = "bucket" => BucketBound(passed', from)
            /\ adaptive' # NoEntry /\ adaptive'.phase = "learned" => LearnedBound(passed', from, adaptive')
BY DEF SlidingBound, FixedBound, BucketBound, LearnedBound, Largest, PassedIn, Between

LEMMA StoreInvInit == StoreInit => StoreInv
<1> SUFFICES ASSUME StoreInit PROVE StoreInv
    OBVIOUS
<1>1. /\ now = 0 /\ counter = NoEntry /\ bucket = NoEntry /\ adaptive = NoEntry /\ calls = {}
      /\ passed = [t \in 0..End |-> 0] /\ algorithm \in Algorithms
    BY DEF StoreInit
<1>2. config \in [enabled : BOOLEAN, failClosed : BOOLEAN]
    <2>1. CASE algorithm = "fixed"
        BY <2>1 DEF StoreInit
    <2>2. CASE algorithm # "fixed"
        <3>1. config \in {[enabled |-> TRUE, failClosed |-> FALSE]}
            BY <2>2 DEF StoreInit
        <3>2. config = [enabled |-> TRUE, failClosed |-> FALSE]
            BY <3>1
        <3> QED BY <3>2
    <2> QED BY <2>1, <2>2
<1>3. StoreTypeOK
    <2>1. reply \in Reply
        BY DEF StoreInit, NoReply, Reply
    <2> QED BY <1>1, <1>2, <2>1, NothingPassed, BoundsAreNumbers DEF StoreTypeOK
<1>4. Whole(now)
    <2>1. 0 = Millis * 0
        BY NumbersAreInts
    <2> QED BY <1>1, <2>1, WholeIs
<1>5. FixedHolds
    BY <1>1, <1>3, NothingPassed, StateTypes, NumbersAreInts DEF FixedHolds
<1>6. BucketHolds
    <2>1. Later(now, BucketLevel + (Refill - 1)) \in Int
        BY <1>3, StateTypes, NumbersAreInts DEF Later
    <2>2. Refill * Largest + Refill - 1 \in Int
        BY LargestType, NumbersAreInts
    <2> QED BY <1>1, <1>3, <2>1, <2>2, NothingPassed, StateTypes, NumbersAreInts DEF BucketHolds
<1>7. AdaptiveHolds
    BY <1>1 DEF AdaptiveHolds
<1>8. SlidingBound
    <2> SUFFICES ASSUME NEW from \in Horizon
                 PROVE  FixedBound(passed, from) /\ BucketBound(passed, from)
        BY <1>1, BoundIs
    <2>1. FixedBound(passed, from)
        <3> SUFFICES ASSUME Limit # 0
                     PROVE  Between(passed, from, from + Limit * Refill - 1) <= 2 * Limit - 1
            BY DEF FixedBound
        <3>1. Limit \in Nat /\ Limit > 0 /\ Limit * Refill \in Int /\ Limit * Refill > 0
            BY RatesAreNumbers, TimesKeepsOrder
        <3>2. from \in Int /\ from + Limit * Refill - 1 \in Int /\ from <= from + Limit * Refill - 1
            BY <3>1, EndType
        <3> QED BY <1>1, <3>1, <3>2, NothingPassed
    <2>2. BucketBound(passed, from)
        <3> SUFFICES ASSUME NEW span \in 0..Span
                     PROVE  Between(passed, from, from + span) <= Largest + Ceiling(span, Refill)
            BY DEF BucketBound
        <3>1. span \in Nat
            <4>1. Limit * Refill \in Int /\ MaxWindow \in Int
                BY NumbersAreInts
            <4>2. Span \in Int
                BY <4>1, MaxOfTwo DEF Span
            <4> QED BY <4>2
        <3>2. Ceiling(span, Refill) \in Nat
            BY <3>1, CeilingCovers, RatesAreNumbers
        <3>3. Between(passed, from, from + span) = 0
            BY <1>1, <3>1, NothingPassed, EndType
        <3> QED BY <3>2, <3>3, LargestType
    <2> QED BY <2>1, <2>2
<1> QED BY <1>1, <1>3, <1>4, <1>5, <1>6, <1>7, <1>8 DEF StoreInv

\* Only time passes, and what is over may go.
LEMMA TimePasses ==
    ASSUME StoreInv, now' \in 0..MaxTime, now <= now', Whole(now'),
           UNCHANGED <<config, algorithm, calls, passed>>, reply' \in Reply,
           \/ counter' = counter
           \/ counter' = NoEntry /\ (counter = NoEntry \/ counter.expiresAt <= now'),
           \/ bucket' = bucket
           \/ bucket' = NoEntry /\ (bucket = NoEntry \/ bucket.expiresAt <= now'),
           adaptive' = adaptive \/ adaptive' = NoEntry
    PROVE  StoreInv'
<1>1. StoreTypeOK /\ now' \in Int
    BY DEF StoreInv
<1>2. StoreTypeOK'
    BY <1>1 DEF StoreTypeOK
<1>3. SlidingBound'
    BY BoundIs, BoundIsNext DEF StoreInv
<1>4. (algorithm = "fixed" => FixedHolds)'
    BY <1>1, FixedKeeps DEF StoreInv
<1>5. (algorithm = "bucket" => BucketHolds)'
    BY <1>1, BucketKeeps DEF StoreInv
<1>6. AdaptiveHolds'
    BY <1>1, AdaptiveKeeps DEF StoreInv
<1> QED BY <1>2, <1>3, <1>4, <1>5, <1>6 DEF StoreInv

LEMMA FixedCall ==
    ASSUME StoreInv, algorithm = "fixed", UNCHANGED <<now, config, algorithm, bucket, adaptive, calls>>,
           reply' \in Reply, counter' \in FixedCounter \cup {NoEntry}, passed' \in [0..End -> Nat], FixedHolds',
           \A from \in Horizon : config.failClosed => FixedBound(passed', from)
    PROVE  StoreInv'
<1>1. adaptive' = NoEntry
    BY DEF StoreInv
<1>2. StoreTypeOK'
    BY DEF StoreInv, StoreTypeOK
<1>3. SlidingBound'
    BY <1>1, BoundIsNext
<1>4. AdaptiveHolds'
    BY <1>1 DEF AdaptiveHolds
<1> QED BY <1>1, <1>2, <1>3, <1>4 DEF StoreInv

LEMMA BucketCall ==
    ASSUME StoreInv, algorithm = "bucket", UNCHANGED <<now, config, algorithm, counter, adaptive, calls, reply>>,
           bucket' \in TokenBucket, passed' \in [0..End -> Nat], BucketHolds',
           \A from \in Horizon : BucketBound(passed', from)
    PROVE  StoreInv'
<1>1. adaptive' = NoEntry
    BY DEF StoreInv
<1>2. StoreTypeOK'
    BY DEF StoreInv, StoreTypeOK
<1>3. SlidingBound'
    BY <1>1, BoundIsNext
<1>4. AdaptiveHolds'
    BY <1>1 DEF AdaptiveHolds
<1> QED BY <1>1, <1>2, <1>3, <1>4 DEF StoreInv

LEMMA AdaptiveCall ==
    ASSUME StoreInv, algorithm = "adaptive", UNCHANGED <<now, config, algorithm, counter, bucket, reply>>,
           adaptive' \in AdaptiveState \cup {NoEntry}, adaptive' # NoEntry => Learned(adaptive'),
           calls' \subseteq [epoch : Nat, tokens : Tokens], passed' \in [0..End -> Nat], AdaptiveHolds',
           adaptive' # NoEntry /\ adaptive'.phase = "learned" =>
                \A from \in Horizon : LearnedBound(passed', from, adaptive')
    PROVE  StoreInv'
<1>1. StoreTypeOK'
    BY DEF StoreInv, StoreTypeOK
<1>2. SlidingBound'
    BY BoundIsNext
<1> QED BY <1>1, <1>2 DEF StoreInv

LEMMA TickInv == StoreInv /\ Tick => StoreInv'
<1> SUFFICES ASSUME StoreInv, Tick PROVE StoreInv'
    OBVIOUS
<1>1. PICK d \in Steps : now + d <= MaxTime /\ now' = now + d
    BY DEF Tick
<1>2. d \in Nat \ {0} /\ Whole(d) /\ now \in Int /\ now >= 0 /\ Whole(now)
    BY WindowsAreNumbers, StateTypes DEF StoreInv
<1>3. now' \in 0..MaxTime /\ now <= now' /\ Whole(now')
    BY <1>1, <1>2, WholeSum, NumbersAreInts
<1>4. reply' \in Reply
    BY DEF Tick, NoReply, Reply
<1> QED BY <1>3, <1>4, TimePasses DEF Tick

LEMMA SweepInv == StoreInv /\ Sweep => StoreInv'
<1> SUFFICES ASSUME StoreInv, Sweep PROVE StoreInv'
    OBVIOUS
<1>1. now' \in 0..MaxTime /\ now <= now' /\ Whole(now') /\ reply' \in Reply
    BY StateTypes DEF Sweep, StoreInv, StoreTypeOK
<1>2. /\ \/ counter' = counter
         \/ counter' = NoEntry /\ (counter = NoEntry \/ counter.expiresAt <= now')
      /\ \/ bucket' = bucket
         \/ bucket' = NoEntry /\ (bucket = NoEntry \/ bucket.expiresAt <= now')
      /\ adaptive' = adaptive \/ adaptive' = NoEntry
    BY DEF Sweep, Kept, Expired
<1> QED BY <1>1, <1>2, TimePasses DEF Sweep

\* A call nobody counts is one nothing was promised about.
LEMMA UncountedInv ==
    ASSUME StoreInv, NEW n \in Tokens, NEW always \in BOOLEAN,
           PassUncounted(n, always) \/ StoreFails(n, always)
    PROVE  StoreInv'
<1>1. passed' = passed
    BY DEF PassUncounted, StoreFails, IsSpent, PassingIf, LetsThrough
<1>2. /\ now' \in 0..MaxTime /\ now <= now' /\ Whole(now') /\ reply' \in Reply
      /\ UNCHANGED <<config, algorithm, calls, counter, bucket, adaptive>>
    BY StateTypes DEF PassUncounted, StoreFails, StoreInv, StoreTypeOK
<1> QED BY <1>1, <1>2, TimePasses

LEMMA AdmitInv ==
    ASSUME StoreInv, NEW n \in Tokens, NEW always \in BOOLEAN, Admit(n, always)
    PROVE  StoreInv'
<1>1. counter' \in FixedCounter
    BY ChargedType DEF StoreInv, Admit
<1>2. reply' = [count |-> counter'.count, left |-> counter'.expiresAt - now]
    BY DEF Admit
<1>3. reply' \in Reply
    BY <1>1, <1>2, StateTypes DEF StoreInv, FixedCounter, Reply
<1> QED BY <1>1, <1>3, AdmitHolds, FixedCall DEF Admit

LEMMA RefuseInv ==
    ASSUME StoreInv, NEW n \in Tokens, NEW always \in BOOLEAN, Refuse(n, always)
    PROVE  StoreInv'
<1>1. /\ StoreTypeOK /\ FixedHolds /\ algorithm = "fixed" /\ now' = now /\ passed' = passed
      /\ counter' = Opened
    BY DEF StoreInv, Refuse, Uncharged
<1>2. /\ counter' \in FixedCounter /\ counter' # NoEntry /\ counter'.expiresAt \in Int
      /\ CounterLevel <= counter'.expiresAt
      /\ counter'.expiresAt <= now + Refill * counter'.count
      /\ Limit # 0 => counter'.count <= Limit
    BY <1>1, OpenedType, EntriesDiffer
<1>3. CounterLevel' = counter'.expiresAt
    BY <1>2 DEF CounterLevel
<1>4. PaidFor(passed, Refill, counter'.expiresAt, 0)
    BY <1>1, <1>2, StateTypes, StillPaid, RatesAreNumbers DEF FixedHolds
<1>5. FixedHolds'
    BY <1>1, <1>2, <1>3, <1>4 DEF FixedHolds
<1>6. \A from \in Horizon : config.failClosed => FixedBound(passed', from)
    BY <1>1, BoundIs DEF StoreInv
<1>7. passed' \in [0..End -> Nat]
    BY <1>1, StateTypes
<1>8. reply' \in Reply
    <2>1. reply' = [count |-> counter'.count + n, left |-> counter'.expiresAt - now]
        BY <1>1 DEF Refuse
    <2> QED BY <1>1, <1>2, <2>1, StateTypes, NumbersAreInts, RatesAreNumbers DEF FixedCounter, Reply
<1> QED BY <1>1, <1>2, <1>5, <1>6, <1>7, <1>8, FixedCall DEF Refuse

LEMMA TakeInv ==
    ASSUME StoreInv, NEW n \in Tokens, NEW allowOverflow \in BOOLEAN, TakeTokens(n, allowOverflow)
    PROVE  StoreInv'
BY TakeHolds, BucketCall DEF TakeTokens

\* What is still held of an adaptive limit.
LEMMA HeldType ==
    ASSUME StoreInv, Current # NoEntry
    PROVE  /\ adaptive # NoEntry /\ adaptive \in AdaptiveState
           /\ adaptive.phase \in {"cooldown", "learning", "learned"}
           /\ adaptive.epoch \in Nat /\ adaptive.cooldownUntil \in Int
           /\ adaptive.learningStartedAt \in Int /\ adaptive.observedTokens \in Int
           /\ adaptive.learnedLimit \in Nat /\ adaptive.learnedWindow \in Nat
           /\ adaptive.expiresAt \in Int
<1>1. adaptive # NoEntry
    BY DEF Current
<1>2. adaptive \in AdaptiveState
    BY <1>1, StateTypes DEF StoreInv
<1> QED BY <1>1, <1>2 DEF AdaptiveState

LEMMA InactiveInv ==
    ASSUME StoreInv, NEW n \in Tokens, ConsumeInactive(n)
    PROVE  StoreInv'
<1>1. AdaptiveHolds'
    BY DEF ConsumeInactive, AdaptiveHolds
<1>2. calls' \subseteq [epoch : Nat, tokens : Tokens]
    BY AnsweredType DEF StoreInv, StoreTypeOK, ConsumeInactive
<1>3. passed' \in [0..End -> Nat]
    BY StateTypes DEF StoreInv, ConsumeInactive
<1> QED BY <1>1, <1>2, <1>3, AdaptiveCall DEF ConsumeInactive

LEMMA CoolingInv ==
    ASSUME StoreInv, NEW n \in Tokens, ConsumeCooling(n)
    PROVE  StoreInv'
<1>1. adaptive # NoEntry /\ adaptive \in AdaptiveState /\ adaptive.epoch \in Nat /\ StoreTypeOK
    BY HeldType DEF ConsumeCooling, StoreInv
<1>2. AdaptiveHolds'
    BY AdaptiveKeeps, StateTypes DEF ConsumeCooling, StoreInv
<1>3. calls' \subseteq [epoch : Nat, tokens : Tokens]
    BY <1>1, AnsweredType DEF StoreTypeOK, ConsumeCooling
<1>4. passed' \in [0..End -> Nat]
    BY <1>1, StateTypes DEF ConsumeCooling
<1>5. adaptive'.phase # "learned" /\ Learned(adaptive')
    BY DEF ConsumeCooling, Learned
<1> QED BY <1>1, <1>2, <1>3, <1>4, <1>5, AdaptiveCall DEF ConsumeCooling

LEMMA BeginInv ==
    ASSUME StoreInv, NEW n \in Tokens, BeginLearning(n)
    PROVE  StoreInv'
<1>1. /\ adaptive # NoEntry /\ adaptive \in AdaptiveState /\ adaptive.epoch \in Nat /\ StoreTypeOK
      /\ now \in Int /\ Whole(now)
    BY HeldType, StateTypes DEF BeginLearning, StoreInv
<1>2. /\ n \in Int /\ n <= MaxTokens /\ MaxTokens <= MaxObserved
      /\ MaxTokens \in Int /\ MaxObserved \in Int /\ now + Fallback + Grace \in Int
    BY <1>1, NumbersAreInts, BoundsAreNumbers
<1>3. adaptive' = [adaptive EXCEPT !.phase = "learning", !.epoch = @ + 1,
                                   !.learningStartedAt = now, !.observedTokens = n,
                                   !.expiresAt = now + Fallback + Grace]
    BY DEF BeginLearning
<1>4. /\ adaptive' \in AdaptiveState /\ adaptive'.phase = "learning"
      /\ adaptive'.learningStartedAt = now /\ adaptive'.observedTokens = n
    <2> DEFINE ends == now + Fallback + Grace
               e == adaptive.epoch + 1
    <2>1. /\ adaptive \in AdaptiveState /\ e \in Nat /\ ends \in Int /\ now \in Int /\ n \in Int
          /\ adaptive' = [adaptive EXCEPT !.phase = "learning", !.epoch = e, !.learningStartedAt = now,
                                          !.observedTokens = n, !.expiresAt = ends]
        BY <1>1, <1>2, <1>3
    <2> HIDE DEF ends, e
    <2> QED BY <2>1 DEF AdaptiveState
<1>5. AdaptiveHolds'
    BY <1>1, <1>2, <1>4 DEF AdaptiveHolds
<1>6. calls' \subseteq [epoch : Nat, tokens : Tokens]
    <2>1. adaptive.epoch + 1 \in Nat
        BY <1>1
    <2> QED BY <1>1, <2>1, AnsweredType DEF StoreTypeOK, BeginLearning
<1>7. passed' \in [0..End -> Nat]
    BY <1>1, StateTypes DEF BeginLearning
<1>8. adaptive'.phase # "learned" /\ Learned(adaptive')
    BY <1>4 DEF Learned
<1> QED BY <1>4, <1>5, <1>6, <1>7, <1>8, AdaptiveCall DEF BeginLearning

LEMMA LearningInv ==
    ASSUME StoreInv, NEW n \in Tokens, ConsumeLearning(n)
    PROVE  StoreInv'
<1>1. /\ adaptive # NoEntry /\ adaptive \in AdaptiveState /\ adaptive.epoch \in Nat /\ StoreTypeOK
      /\ adaptive.phase = "learning" /\ adaptive.observedTokens \in Int
      /\ Whole(adaptive.learningStartedAt) /\ n \in Int
    BY HeldType, NumbersAreInts DEF ConsumeLearning, StoreInv, AdaptiveHolds
<1>2. adaptive' = [adaptive EXCEPT !.observedTokens = @ + n]
    BY DEF ConsumeLearning
<1>3. /\ adaptive' \in AdaptiveState /\ adaptive'.phase = "learning"
      /\ adaptive'.learningStartedAt = adaptive.learningStartedAt
      /\ adaptive'.observedTokens = adaptive.observedTokens + n
    BY <1>1, <1>2 DEF AdaptiveState
<1>4. AdaptiveHolds'
    BY <1>1, <1>3 DEF AdaptiveHolds, ConsumeLearning
<1>5. calls' \subseteq [epoch : Nat, tokens : Tokens]
    BY <1>1, AnsweredType DEF StoreTypeOK, ConsumeLearning
<1>6. passed' \in [0..End -> Nat]
    BY <1>1, StateTypes DEF ConsumeLearning
<1>7. adaptive'.phase # "learned" /\ Learned(adaptive')
    BY <1>3 DEF Learned
<1> QED BY <1>3, <1>4, <1>5, <1>6, <1>7, AdaptiveCall DEF ConsumeLearning

LEMMA LearnedInv ==
    ASSUME StoreInv, NEW n \in Tokens, ConsumeLearned(n)
    PROVE  StoreInv'
<1>1. adaptive.epoch \in Nat /\ StoreTypeOK
    BY HeldType DEF ConsumeLearned, StoreInv
<1>2. calls' \subseteq [epoch : Nat, tokens : Tokens]
    BY <1>1, AnsweredType DEF StoreTypeOK, ConsumeLearned
<1> QED BY <1>2, ConsumeLearnedHolds, AdaptiveCall DEF ConsumeLearned

\* A regime that learned nothing lets nothing through on its own account.
LEMMA UnlearnedInv ==
    ASSUME StoreInv, algorithm = "adaptive", UNCHANGED <<now, config, algorithm, counter, bucket, reply>>,
           calls' \in SUBSET calls, passed' = passed,
           \/ adaptive' = NoEntry
           \/ adaptive' \in AdaptiveState /\ adaptive'.phase = "cooldown"
    PROVE  StoreInv'
<1>1. AdaptiveHolds'
    BY DEF AdaptiveHolds
<1>2. calls' \subseteq [epoch : Nat, tokens : Tokens] /\ passed' \in [0..End -> Nat]
    BY StateTypes DEF StoreInv, StoreTypeOK
<1>3. adaptive' # NoEntry => Learned(adaptive')
    BY DEF Learned
<1> QED BY <1>1, <1>2, <1>3, AdaptiveCall

\* What is learned: whole windows of so many calls.
LEMMA LearnInv ==
    ASSUME StoreInv, NEW call \in calls, NEW retryAfter \in Retries,
           algorithm = "adaptive", UNCHANGED <<now, config, algorithm, counter, bucket, reply>>,
           calls' \in SUBSET calls, Current # NoEntry, adaptive.phase = "learning",
           NEW accepted, accepted = adaptive.observedTokens - call.tokens, accepted > 0,
           NEW learned, learned = Clamped(now - adaptive.learningStartedAt + Clamped(retryAfter)),
           adaptive' = [adaptive EXCEPT
                !.phase = "learned", !.epoch = @ + 1,
                !.cooldownUntil = adaptive.learningStartedAt + learned,
                !.observedTokens = accepted, !.learnedLimit = accepted,
                !.learnedWindow = learned, !.expiresAt = now + learned + Grace],
           passed' = [t \in 0..End |-> 0]
    PROVE  StoreInv'
<1>1. /\ adaptive \in AdaptiveState /\ adaptive.epoch \in Nat
      /\ adaptive.learningStartedAt \in Int /\ adaptive.observedTokens \in Int
      /\ Whole(adaptive.learningStartedAt) /\ adaptive.observedTokens <= MaxObserved
      /\ now \in Int /\ Whole(now) /\ StoreTypeOK
    BY HeldType, StateTypes DEF StoreInv, AdaptiveHolds
<1>2. call.tokens \in Nat \ {0} /\ call \in [epoch : Nat, tokens : Tokens]
    BY <1>1, NumbersAreInts DEF StoreTypeOK
<1>3. accepted \in 1..(MaxObserved - 1) /\ accepted \in Nat \ {0}
    BY <1>1, <1>2, BoundsAreNumbers
<1>4. learned \in Nat \ {0} /\ Whole(learned)
    <2>1. retryAfter \in Int /\ Whole(retryAfter)
        BY WindowsAreNumbers
    <2> DEFINE left == Clamped(retryAfter)
               waited == now - adaptive.learningStartedAt
    <2>2. left \in Int /\ Whole(left)
        BY <2>1, ClampedIsWhole
    <2> HIDE DEF left
    <2>3. waited \in Int /\ Whole(waited)
        BY <1>1, WholeSum
    <2> HIDE DEF waited
    <2>4. waited + left \in Int /\ Whole(waited + left)
        BY <2>2, <2>3, WholeSum
    <2>5. Clamped(waited + left) \in Nat \ {0} /\ Whole(Clamped(waited + left))
        BY <2>4, ClampedIsWhole
    <2> QED BY <2>5 DEF waited, left
<1>5. learned \div accepted \in Nat \ {0} /\ (learned \div accepted) * accepted = learned
    BY <1>3, <1>4, RateIsExact
<1>6. /\ adaptive' \in AdaptiveState /\ adaptive'.phase = "learned"
      /\ adaptive'.observedTokens = accepted /\ adaptive'.learnedLimit = accepted
      /\ adaptive'.learnedWindow = learned
      /\ adaptive'.cooldownUntil = adaptive.learningStartedAt + learned
    <2> DEFINE over == adaptive.learningStartedAt + learned
               gone == now + learned + Grace
               e == adaptive.epoch + 1
    <2>1. accepted \in Int /\ accepted \in Nat /\ learned \in Nat
        BY <1>3, <1>4
    <2>2. over \in Int /\ e \in Nat
        BY <1>1, <2>1
    <2>3. gone \in Int
        BY <1>1, <2>1, NumbersAreInts
    <2>4. adaptive' = [adaptive EXCEPT !.phase = "learned", !.epoch = e, !.cooldownUntil = over,
                !.observedTokens = accepted, !.learnedLimit = accepted,
                !.learnedWindow = learned, !.expiresAt = gone]
        OBVIOUS
    <2>5. adaptive \in AdaptiveState
        BY <1>1
    <2> HIDE DEF over, gone, e
    <2>6. /\ adaptive' \in AdaptiveState /\ adaptive'.phase = "learned"
          /\ adaptive'.observedTokens = accepted /\ adaptive'.learnedLimit = accepted
          /\ adaptive'.learnedWindow = learned /\ adaptive'.cooldownUntil = over
        BY <2>1, <2>2, <2>3, <2>4, <2>5 DEF AdaptiveState
    <2> QED BY <2>6 DEF over
<1>7. Learned(adaptive')
    BY <1>3, <1>4, <1>6 DEF Learned
<1> DEFINE rate == learned \div accepted
           ends == adaptive.learningStartedAt + learned
           k == (accepted - 1) \div accepted
           turn == Later(now, ends - rate * accepted + k * learned)
<1>8. rate \in Int /\ ends \in Int /\ k \in Int /\ turn \in Int /\ rate * (MaxTokens - 1) \in Int
    <2>1. rate \in Int /\ ends \in Int
        BY <1>1, <1>4, <1>5
    <2>2. k \in Int
        BY <1>3, Division
    <2> HIDE DEF rate, ends, k
    <2>3. ends - rate * accepted + k * learned \in Int
        BY <1>3, <1>4, <2>1, <2>2
    <2> QED BY <1>1, <2>1, <2>2, <2>3, NumbersAreInts DEF Later
<1>9. LearnedHolds(adaptive)'
    <2>1. /\ RateOf(adaptive') = rate /\ WindowNumber(adaptive') = k
          /\ BeganAt(adaptive') = ends - rate * accepted /\ adaptive'.cooldownUntil = ends
        BY <1>6 DEF RateOf, WindowNumber, BeganAt
    <2>2. NothingAfter(passed', turn) /\ PaidFor(passed', rate, ends, rate * (MaxTokens - 1))
        <3> HIDE DEF rate, ends, turn
        <3> QED BY <1>8, NothingPassed
    <2>3. /\ rate > 0 /\ rate * accepted = learned /\ accepted > 0 /\ now' = now
          /\ adaptive'.learnedLimit = accepted /\ adaptive'.learnedWindow = learned
          /\ adaptive'.observedTokens = accepted
        BY <1>3, <1>5, <1>6
    <2> HIDE DEF rate, ends, k
    <2> QED BY <2>1, <2>2, <2>3 DEF LearnedHolds
<1>10. AdaptiveHolds'
    BY <1>6, <1>9 DEF AdaptiveHolds
<1>11. passed' \in [0..End -> Nat]
    BY NothingPassed
<1>12. ASSUME NEW from \in Horizon PROVE LearnedBound(passed', from, adaptive')
    <2>1. from \in Int /\ from + learned - 1 \in Int /\ from <= from + learned - 1
        BY <1>4, EndType
    <2>2. Between(passed', from, from + learned - 1) = 0
        BY <2>1, NothingPassed
    <2>3. 0 <= 2 * accepted - 1 + (MaxTokens - 1)
        BY <1>3, RatesAreNumbers
    <2> QED BY <1>6, <2>2, <2>3 DEF LearnedBound
<1>13. calls' \subseteq [epoch : Nat, tokens : Tokens]
    BY <1>1 DEF StoreTypeOK
<1> QED BY <1>6, <1>7, <1>10, <1>11, <1>12, <1>13, AdaptiveCall

LEMMA FeedbackInv ==
    ASSUME StoreInv, NEW call \in calls, NEW retryAfter \in Retries, Feedback(call, retryAfter)
    PROVE  StoreInv'
<1> DEFINE until == now + Clamped(retryAfter)
           accepted == adaptive.observedTokens - call.tokens
           learned == Clamped(now - adaptive.learningStartedAt + Clamped(retryAfter))
<1>1. /\ algorithm = "adaptive" /\ UNCHANGED <<now, config, algorithm, counter, bucket, reply>>
      /\ calls' \in SUBSET calls /\ StoreTypeOK /\ now \in Int
    BY StateTypes DEF Feedback, StoreInv
<1>2. until \in Int
    BY <1>1, ClampedIsWhole, WindowsAreNumbers
<1>3. call.epoch \in Nat
    BY <1>1 DEF StoreTypeOK
<1>4. CASE Current = NoEntry /\ passed' = passed
           /\ adaptive' = IF call.epoch # 0 THEN NoEntry ELSE Cooling(0, until)
    <2> HIDE DEF until
    <2>1. adaptive' = NoEntry \/ (adaptive' \in AdaptiveState /\ adaptive'.phase = "cooldown")
        <3>1. Cooling(0, until) \in AdaptiveState /\ Cooling(0, until).phase = "cooldown"
            BY <1>2, CoolingType
        <3>2. adaptive' = NoEntry \/ adaptive' = Cooling(0, until)
            BY <1>4
        <3>3. CASE adaptive' = Cooling(0, until)
            BY <3>1, <3>3
        <3> QED BY <3>2, <3>3
    <2> QED BY <1>1, <1>4, <2>1, UnlearnedInv
<1>5. CASE UNCHANGED <<adaptive, passed>>
    <2>1. AdaptiveHolds'
        BY <1>1, <1>5, AdaptiveKeeps DEF StoreInv
    <2>2. adaptive' \in AdaptiveState \cup {NoEntry} /\ (adaptive' # NoEntry => Learned(adaptive'))
        BY <1>1, <1>5 DEF StoreTypeOK
    <2>3. calls' \subseteq [epoch : Nat, tokens : Tokens] /\ passed' \in [0..End -> Nat]
        BY <1>1, <1>5 DEF StoreTypeOK
    <2>4. adaptive' # NoEntry /\ adaptive'.phase = "learned" =>
                \A from \in Horizon : LearnedBound(passed', from, adaptive')
        BY <1>5, BoundIs DEF StoreInv
    <2> QED BY <1>1, <2>1, <2>2, <2>3, <2>4, AdaptiveCall
<1>6. CASE /\ Current # NoEntry /\ adaptive.phase = "cooldown" /\ passed' = passed
           /\ adaptive' = [adaptive EXCEPT
                !.cooldownUntil = IF until > @ THEN until ELSE @,
                !.expiresAt = (IF until > adaptive.cooldownUntil
                               THEN until ELSE adaptive.cooldownUntil) + Grace]
    <2> DEFINE later == IF until > adaptive.cooldownUntil THEN until ELSE adaptive.cooldownUntil
    <2>1. adaptive \in AdaptiveState /\ adaptive.phase = "cooldown" /\ adaptive.cooldownUntil \in Int
        BY <1>6, HeldType
    <2>2. later \in Int /\ later + Grace \in Int
        BY <1>2, <2>1, NumbersAreInts
    <2>3. adaptive' = [adaptive EXCEPT !.cooldownUntil = later, !.expiresAt = later + Grace]
        BY <1>6
    <2> HIDE DEF later
    <2>4. adaptive' \in AdaptiveState /\ adaptive'.phase = "cooldown"
        BY <2>1, <2>2, <2>3 DEF AdaptiveState
    <2> QED BY <1>1, <1>6, <2>4, UnlearnedInv
<1>7. CASE Current # NoEntry /\ adaptive' = Cooling(adaptive.epoch, until) /\ passed' = passed
    <2> HIDE DEF until
    <2>1. adaptive' \in AdaptiveState /\ adaptive'.phase = "cooldown"
        BY <1>2, <1>7, HeldType, CoolingType
    <2> QED BY <1>1, <1>7, <2>1, UnlearnedInv
<1>8. CASE /\ Current # NoEntry /\ adaptive.phase = "learning" /\ accepted > 0
           /\ adaptive' = [adaptive EXCEPT
                !.phase = "learned", !.epoch = @ + 1,
                !.cooldownUntil = adaptive.learningStartedAt + learned,
                !.observedTokens = accepted, !.learnedLimit = accepted,
                !.learnedWindow = learned, !.expiresAt = now + learned + Grace]
           /\ passed' = [t \in 0..End |-> 0]
    <2>1. /\ accepted = adaptive.observedTokens - call.tokens
          /\ learned = Clamped(now - adaptive.learningStartedAt + Clamped(retryAfter))
        OBVIOUS
    <2> HIDE DEF accepted, learned
    <2> QED BY <1>1, <1>8, <2>1, LearnInv
<1> QED BY <1>4, <1>5, <1>6, <1>7, <1>8 DEF Feedback

LEMMA StoreInvNext == StoreInv /\ [StoreNext]_storeVars => StoreInv'
<1> SUFFICES ASSUME StoreInv, [StoreNext]_storeVars PROVE StoreInv'
    OBVIOUS
<1>1. CASE UNCHANGED storeVars
    <2>1. now' \in 0..MaxTime /\ now <= now' /\ Whole(now') /\ reply' \in Reply
        BY <1>1, StateTypes DEF storeVars, StoreInv, StoreTypeOK
    <2> QED BY <1>1, <2>1, TimePasses DEF storeVars
<1>2. CASE Tick \/ Sweep
    BY <1>2, TickInv, SweepInv
<1>3. CASE \E n \in Tokens, always \in BOOLEAN :
            PassUncounted(n, always) \/ Admit(n, always) \/ Refuse(n, always) \/ StoreFails(n, always)
    BY <1>3, UncountedInv, AdmitInv, RefuseInv
<1>4. CASE \E n \in Tokens, allowOverflow \in BOOLEAN : TakeTokens(n, allowOverflow)
    BY <1>4, TakeInv
<1>5. CASE \E n \in Tokens : ConsumeInactive(n) \/ ConsumeCooling(n) \/ BeginLearning(n)
                                \/ ConsumeLearning(n) \/ ConsumeLearned(n)
    BY <1>5, InactiveInv, CoolingInv, BeginInv, LearningInv, LearnedInv
<1>6. CASE \E call \in calls, retryAfter \in Retries : Feedback(call, retryAfter)
    BY <1>6, FeedbackInv
<1> QED BY <1>1, <1>2, <1>3, <1>4, <1>5, <1>6 DEF StoreNext

LEMMA StoreInvHolds == StoreSpec => []StoreInv
<1> QED BY StoreInvInit, StoreInvNext, PTL DEF StoreSpec

\* The store's maps, its clock and its history keep their types.
THEOREM StoreTypes == StoreSpec => []StoreTypeOK
<1>1. StoreInv => StoreTypeOK
    BY DEF StoreInv
<1> QED BY <1>1, StoreInvHolds, PTL

\* No span as long as a window lets through two windows' worth, no bucket more than
\* it holds and gains, whatever the limits, the clock, the sweep and the failures.
THEOREM Slides == StoreSpec => []SlidingBound
<1>1. StoreInv => SlidingBound
    BY DEF StoreInv
<1> QED BY <1>1, StoreInvHolds, PTL

-----------------------------------------------------------------------------
(* A window that nobody sweeps is the same window *)

\* The window as it stands at a time.
Standing(entry, t) == IF Expired(entry, t) THEN NoEntry ELSE entry

LEMMA ElapseRefines == StoreInv /\ Tick => Unswept!Elapse
<1> SUFFICES ASSUME StoreInv, Tick PROVE Unswept!Elapse
    OBVIOUS
<1>1. PICK d \in Steps : now' = now + d
    BY DEF Tick
<1>2. now' > now /\ now' \in Int /\ now \in Int /\ counter' = counter
    BY <1>1, WindowsAreNumbers, StateTypes DEF StoreInv, Tick
<1>3. counter # NoEntry => counter.expiresAt \in Int
    BY StateTypes DEF StoreInv
<1>4. reply' = Unswept!NoReply
    BY DEF Tick, NoReply, Unswept!NoReply
<1> QED BY <1>2, <1>3, <1>4 DEF Unswept!Elapse, Unswept!Over, Expired

LEMMA SweepStutters == StoreInv /\ Sweep => Standing(counter, now)' = Standing(counter, now)
BY DEF Sweep, Kept, Standing, Expired

\* What is held of a window is what the store opens.
LEMMA HeldIsOpened == Unswept!Held = Opened
BY DEF Unswept!Held, Opened, Expired

LEMMA RefuseRefines ==
    ASSUME StoreInv, NEW n \in Tokens, NEW always \in BOOLEAN, Refuse(n, always)
    PROVE  Unswept!Refuse(n)
<1>1. counter' = Opened /\ now' = now /\ now \in Int
    BY StateTypes DEF Refuse, Uncharged, StoreInv
<1>2. Standing(counter, now)' = Standing(counter, now)
    <2>1. CASE counter = NoEntry \/ Expired(counter, now)
        <3>1. counter' = [count |-> 0, expiresAt |-> now] /\ counter'.expiresAt <= now
            BY <1>1, <2>1 DEF Opened
        <3>2. Standing(counter, now)' = NoEntry
            BY <1>1, <3>1 DEF Standing, Expired
        <3> QED BY <2>1, <3>2 DEF Standing
    <2>2. CASE ~(counter = NoEntry \/ Expired(counter, now))
        BY <1>1, <2>2 DEF Opened, Standing
    <2> QED BY <2>1, <2>2
<1>3. ~Unswept!Fits(n)
    <2>1. Limit # 0 /\ Opened.count + n > Limit
        BY DEF Refuse, Refuses
    <2>2. Opened.count \in Int /\ n \in Int /\ Limit \in Int
        BY OpenedType, NumbersAreInts, StateTypes DEF Refuse, StoreInv
    <2> QED BY <2>1, <2>2, HeldIsOpened DEF Unswept!Fits
<1>4. reply' = [count |-> Unswept!Held.count + n, left |-> Unswept!Held.expiresAt - now]
    BY HeldIsOpened DEF Refuse
<1> QED BY <1>1, <1>2, <1>3, <1>4 DEF Unswept!Refuse, Standing

LEMMA AdmitRefines ==
    ASSUME StoreInv, NEW n \in Tokens, NEW always \in BOOLEAN, Admit(n, always)
    PROVE  Unswept!Charge(n)
<1>1. StoreTypeOK /\ FixedHolds /\ now' = now /\ now \in Int
    BY StateTypes DEF Admit, StoreInv
<1>2. /\ counter' = Charged(Opened, n) /\ counter' \in FixedCounter /\ counter' # NoEntry
      /\ counter'.expiresAt > now /\ counter'.expiresAt \in Int
    BY <1>1, ChargedType, EntriesDiffer DEF Admit
<1>3. Standing(counter, now)' = [count |-> Opened.count + n, expiresAt |-> Opened.expiresAt + Refill * n]
    BY <1>1, <1>2 DEF Standing, Expired, Charged
<1>4. Unswept!Fits(n)
    <2>1. Limit = 0 \/ Opened.count + n <= Limit
        BY <1>1, OpenedType, NumbersAreInts DEF Admit, Refuses
    <2> QED BY <2>1, HeldIsOpened DEF Unswept!Fits
<1>5. reply' = [count |-> Standing(counter, now)'.count, left |-> Standing(counter, now)'.expiresAt - now]
    BY <1>3 DEF Admit, Charged
<1> QED BY <1>1, <1>3, <1>4, <1>5, HeldIsOpened DEF Unswept!Charge, Standing

LEMMA WindowStep ==
    ASSUME StoreInv, [StoreNext]_storeVars
    PROVE  Unswept!Next \/ (UNCHANGED <<now, reply>> /\ Standing(counter, now)' = Standing(counter, now))
<1>1. CASE UNCHANGED <<now, counter, reply>>
    BY <1>1 DEF Standing, Expired
<1>2. CASE Tick
    BY <1>2, ElapseRefines DEF Unswept!Next
<1>3. CASE Sweep
    BY <1>3, SweepStutters DEF Sweep
<1>4. CASE \E n \in Tokens, always \in BOOLEAN : Admit(n, always)
    BY <1>4, AdmitRefines DEF Unswept!Next
<1>5. CASE \E n \in Tokens, always \in BOOLEAN : Refuse(n, always)
    BY <1>5, RefuseRefines DEF Unswept!Next
<1>6. CASE \E n \in Tokens, always \in BOOLEAN : PassUncounted(n, always) \/ StoreFails(n, always)
    BY <1>1, <1>6 DEF PassUncounted, StoreFails
<1>7. CASE \E n \in Tokens, allowOverflow \in BOOLEAN : TakeTokens(n, allowOverflow)
    BY <1>1, <1>7 DEF TakeTokens
<1>8. CASE \E n \in Tokens : ConsumeInactive(n) \/ ConsumeCooling(n) \/ BeginLearning(n)
                                \/ ConsumeLearning(n) \/ ConsumeLearned(n)
    BY <1>1, <1>8 DEF ConsumeInactive, ConsumeCooling, BeginLearning, ConsumeLearning, ConsumeLearned
<1>9. CASE \E call \in calls, retryAfter \in Retries : Feedback(call, retryAfter)
    BY <1>1, <1>9 DEF Feedback
<1> QED BY <1>1, <1>2, <1>3, <1>4, <1>5, <1>6, <1>7, <1>8, <1>9 DEF StoreNext, storeVars

\* Whatever is swept, and whenever, every call of a fixed window is let through or
\* refused, and answered, as by a counter whose windows are forgotten the moment
\* they are over.
THEOREM Windows == StoreSpec => ImplementsWindow
<1>1. StoreInit => Unswept!Init
    BY DEF StoreInit, Unswept!Init, Unswept!NoReply, NoReply, Expired
<1>2. StoreInv /\ [StoreNext]_storeVars
        => [Unswept!Next]_<<now, IF Expired(counter, now) THEN NoEntry ELSE counter, reply>>
    BY WindowStep DEF Standing
<1> QED BY <1>1, <1>2, StoreInvHolds, PTL DEF StoreSpec, ImplementsWindow, Unswept!Spec
=============================================================================
