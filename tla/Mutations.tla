----------------------------- MODULE Mutations -----------------------------
(***************************************************************************)
(* The MySQL branches of sql/Mutations.ts, statement by statement, over    *)
(* InnoDB at REPEATABLE READ.                                              *)
(*                                                                         *)
(* MySQL has no RETURNING, so a mutation is two or three statements of one *)
(* transaction.  A plain SELECT answers from the snapshot its transaction  *)
(* took at its first one, plus the transaction's own writes; a locking     *)
(* SELECT and a write see the row as it is and wait for whoever holds it.  *)
(* A helper called inside a caller's transaction (sql/stores/              *)
(* Transaction.ts) runs on a snapshot that may be older than the call.     *)
(* Where InnoDB ended that transaction under an earlier statement of its   *)
(* body, and the body went on, every statement commits by itself.          *)
(*                                                                         *)
(* The database is external: committed and current versions, record locks  *)
(* and snapshots are modelled as the comments of the module describe them. *)
(***************************************************************************)
EXTENDS Naturals

CONSTANTS
    Key, Owner, Caller,
    Operations,         \* the mutations that are asked for
    DeadlockRetries,    \* deadlockRetries
    Absent, Pending, NoRow, Conflict, Failed,   \* see RowStore
    Nobody,             \* holds a row that nobody has locked
    NoSnapshot          \* a transaction that has not read yet

VARIABLES
    committed,  \* the last committed version of each row
    current,    \* the version a locking read would see
    holder,     \* who holds each row's lock
    snapshot,   \* what each transaction's plain reads see
    run,        \* where each caller is in its mutation
    answer      \* what each caller was answered

vars == <<committed, current, holder, snapshot, run, answer>>

\* What every dialect promises: this module shares its rows and its operations.
Promise == INSTANCE RowStore WITH
    rows <- committed, request <- [c \in Caller |-> run[c].op],
    strays <- {c \in Caller : run[c].scope = "gone"}

ASSUME OperationsAreTyped == Operations \subseteq Promise!Operation /\ Operations # {}
ASSUME RetriesAreCounted == DeadlockRetries \in Nat
ASSUME NobodyIsNobody == Nobody \notin Caller /\ "initial" \notin Caller
ASSUME NoSnapshotIsNone == NoSnapshot \notin [Key -> Promise!Version]
ASSUME AnswersDiffer ==
    /\ {Absent, Pending, NoRow, Conflict, Failed} \cap Promise!Row = {}
    /\ Pending \notin {NoRow, Conflict, Failed}

Step == {"idle", "first", "claim", "erase", "write", "readBack", "insertedRead", "commit"}

\* What a mutation runs in: its own transaction, a caller's, or one that is gone.
Scope == {"own", "callers", "gone"}

RunState == [at: Step, op: Promise!Operation, row: Promise!Answer,
             scope: Scope, tries: 0..DeadlockRetries]

NoRun == [at |-> "idle", scope |-> "own", tries |-> 0, row |-> Pending,
          op |-> CHOOSE o \in Operations : TRUE]

Init ==
    /\ committed \in [Key -> Promise!Version]
    /\ \A k \in Key : committed[k] # Absent => committed[k].by = "initial"
    /\ current = committed
    /\ holder = [k \in Key |-> Nobody]
    /\ snapshot = [c \in Caller |-> NoSnapshot]
    /\ run = [c \in Caller |-> NoRun]
    /\ answer = [c \in Caller |-> Pending]

-----------------------------------------------------------------------------
(* InnoDB *)

CanLock(c, k) == holder[k] \in {Nobody, c}

\* A plain read: the snapshot, unless the transaction wrote a version itself.
\* An assignment of the values a row already held writes none.
PlainRead(c, k) ==
    IF holder[k] = c /\ current[k] # committed[k] THEN current[k]
    ELSE IF snapshot[c] = NoSnapshot THEN committed[k] ELSE snapshot[c][k]

Gone(c) == run[c].scope = "gone"

Snapshotted(c) ==
    IF snapshot[c] = NoSnapshot /\ ~Gone(c) THEN [snapshot EXCEPT ![c] = committed] ELSE snapshot

Unlocked(c) == [k \in Key |-> IF holder[k] = c THEN Nobody ELSE holder[k]]

\* Mutant: the outermost transaction trusts the shape of the effect.
TrustsTheEffect(c, result) == result

\* RELEASE SAVEPOINT: success only of a transaction that is still there.
Proven(c, result) == IF Gone(c) THEN Failed ELSE result

\* A mutation that wrote nothing ends its transaction and answers.
EndsWith(c, result) ==
    /\ answer' = [answer EXCEPT ![c] = Proven(c, result)]
    /\ run' = [run EXCEPT ![c].at = "idle"]
    /\ holder' = Unlocked(c)
    /\ snapshot' = [snapshot EXCEPT ![c] = NoSnapshot]
    /\ UNCHANGED <<committed, current>>

\* The next statement's turn, holding what the statement answered.
Goes(c, step, row) == run' = [run EXCEPT ![c] = [@ EXCEPT !.at = step, !.row = row]]

\* A lock lasts as long as its transaction: one statement, where that is gone.
Takes(c, k) == holder' = IF Gone(c) THEN holder ELSE [holder EXCEPT ![k] = c]

Stores(c, k, v) ==
    /\ current' = [current EXCEPT ![k] = v]
    /\ committed' = IF Gone(c) THEN [committed EXCEPT ![k] = v] ELSE committed

Op(c) == run[c].op
At(c, step) == run[c].at = step

-----------------------------------------------------------------------------

\* atomically: alone the mutation opens a transaction; inside a caller's one it
\* opens nothing, whether that has already read or is gone.
Begin(c, o, scope) ==
    /\ At(c, "idle")
    /\ answer[c] = Pending
    /\ run' = [run EXCEPT ![c] = [NoRun EXCEPT !.at = "first", !.op = o, !.scope = scope]]
    /\ snapshot' = IF scope = "callers" THEN [snapshot EXCEPT ![c] = committed] ELSE snapshot
    /\ UNCHANGED <<committed, current, holder, answer>>

(* consumeOne *)

\* A plain SELECT finds the candidate and locks nothing.
Candidate(c) ==
    LET k == Op(c).key IN
    /\ At(c, "first")
    /\ Op(c).kind = "consume"
    /\ IF Promise!Matches(Op(c), PlainRead(c, k))
       THEN /\ Goes(c, "claim", PlainRead(c, k))
            /\ snapshot' = Snapshotted(c)
            /\ UNCHANGED <<committed, current, holder, answer>>
       ELSE EndsWith(c, NoRow)

\* SELECT ... WHERE key AND guard FOR UPDATE: this decides the claim.
Claim(c) ==
    LET k == Op(c).key IN
    /\ At(c, "claim")
    /\ CanLock(c, k)
    /\ IF Promise!Matches(Op(c), current[k])
       THEN /\ Takes(c, k)
            /\ Goes(c, "erase", current[k])
            /\ UNCHANGED <<committed, current, snapshot, answer>>
       ELSE EndsWith(c, NoRow)

Erase(c) ==
    LET k == Op(c).key IN
    /\ At(c, "erase")
    /\ CanLock(c, k)
    /\ Takes(c, k)
    /\ Stores(c, k, Absent)
    /\ Goes(c, "commit", run[c].row)
    /\ UNCHANGED <<snapshot, answer>>

(* updateAndRead *)

LockMatching(c) ==
    LET k == Op(c).key IN
    /\ At(c, "first")
    /\ Op(c).kind \in {"update", "touch"}
    /\ CanLock(c, k)
    /\ IF Promise!Matches(Op(c), current[k])
       THEN /\ Takes(c, k)
            /\ Goes(c, "write", current[k])
            /\ UNCHANGED <<committed, current, snapshot, answer>>
       ELSE EndsWith(c, NoRow)

Write(c) ==
    LET k == Op(c).key IN
    /\ At(c, "write")
    /\ CanLock(c, k)
    /\ Stores(c, k, IF current[k] = Absent THEN Absent ELSE Promise!Assigned(Op(c), current[k]))
    /\ Goes(c, "readBack", run[c].row)
    /\ UNCHANGED <<holder, snapshot, answer>>

\* What the read-back of an update or an upsert is narrowed to.
ReadBackFinds(c, v) ==
    v # Absent /\ (Op(c).kind = "upsert" => v.owner = Op(c).owner)

\* Mutant: the read-back is a plain SELECT.
ReadBackPlain(c) ==
    LET v == PlainRead(c, Op(c).key) IN
    /\ At(c, "readBack")
    /\ Goes(c, "commit", IF ReadBackFinds(c, v) THEN v ELSE NoRow)
    /\ UNCHANGED <<committed, current, holder, snapshot, answer>>

ReadBack(c) ==
    LET v == current[Op(c).key] IN
    /\ At(c, "readBack")
    /\ CanLock(c, Op(c).key)
    /\ Goes(c, "commit", IF ReadBackFinds(c, v) THEN v ELSE NoRow)
    /\ UNCHANGED <<committed, current, holder, snapshot, answer>>

(* deleteAndCount *)

DeleteMatching(c) ==
    LET k == Op(c).key IN
    /\ At(c, "first")
    /\ Op(c).kind = "delete"
    /\ CanLock(c, k)
    /\ IF Promise!Matches(Op(c), current[k])
       THEN /\ Takes(c, k)
            /\ Stores(c, k, Absent)
            /\ Goes(c, "commit", current[k])
            /\ UNCHANGED <<snapshot, answer>>
       ELSE EndsWith(c, NoRow)

(* insertAndRead *)

Insert(c) ==
    LET k == Op(c).key IN
    /\ At(c, "first")
    /\ Op(c).kind = "insert"
    /\ CanLock(c, k)
    /\ IF current[k] = Absent
       THEN /\ Takes(c, k)
            /\ Stores(c, k, Promise!Offered(c, Op(c)))
            /\ Goes(c, "insertedRead", run[c].row)
            /\ UNCHANGED <<snapshot, answer>>
       ELSE EndsWith(c, Conflict)

\* The one plain read-back: a transaction sees its own insert.
InsertedRead(c) ==
    LET v == PlainRead(c, Op(c).key) IN
    /\ At(c, "insertedRead")
    /\ Goes(c, "commit", IF v = Absent THEN NoRow ELSE v)
    /\ UNCHANGED <<committed, current, holder, snapshot, answer>>

(* upsertAndRead *)

Upsert(c) ==
    LET k == Op(c).key IN
    /\ At(c, "first")
    /\ Op(c).kind = "upsert"
    /\ CanLock(c, k)
    /\ Takes(c, k)
    /\ Stores(c, k, IF Promise!MayWrite(Op(c), current[k])
                    THEN Promise!Offered(c, Op(c)) ELSE current[k])
    /\ Goes(c, "readBack", run[c].row)
    /\ UNCHANGED <<snapshot, answer>>

-----------------------------------------------------------------------------

Commit(c) ==
    /\ At(c, "commit")
    /\ committed' = [k \in Key |-> IF holder[k] = c THEN current[k] ELSE committed[k]]
    /\ holder' = Unlocked(c)
    /\ answer' = [answer EXCEPT ![c] = Proven(c, run[c].row)]
    /\ run' = [run EXCEPT ![c].at = "idle"]
    /\ snapshot' = [snapshot EXCEPT ![c] = NoSnapshot]
    /\ UNCHANGED current

Undone(c) == [k \in Key |-> IF holder[k] = c THEN committed[k] ELSE current[k]]

\* A statement failed, the fiber was interrupted, or InnoDB broke a deadlock:
\* the whole transaction goes, the caller's own one too.
Rollback(c) ==
    /\ ~At(c, "idle")
    /\ current' = Undone(c)
    /\ holder' = Unlocked(c)
    /\ snapshot' = [snapshot EXCEPT ![c] = NoSnapshot]
    /\ answer' = [answer EXCEPT ![c] = Failed]
    /\ run' = [run EXCEPT ![c].at = "idle"]
    /\ UNCHANGED committed

\* retryDeadlocks: a delete that is its own transaction starts again.
Retry(c) ==
    /\ Op(c).kind = "delete"
    /\ ~At(c, "idle")
    /\ run[c].scope = "own"
    /\ run[c].tries < DeadlockRetries
    /\ current' = Undone(c)
    /\ holder' = Unlocked(c)
    /\ snapshot' = [snapshot EXCEPT ![c] = NoSnapshot]
    /\ run' = [run EXCEPT ![c].at = "first", ![c].tries = @ + 1]
    /\ UNCHANGED <<committed, answer>>

Statement(c) ==
    \/ Candidate(c) \/ Claim(c) \/ Erase(c)
    \/ LockMatching(c) \/ Write(c) \/ ReadBack(c)
    \/ DeleteMatching(c)
    \/ Insert(c) \/ InsertedRead(c)
    \/ Upsert(c)

Next ==
    \E c \in Caller :
        \/ \E o \in Operations, scope \in Scope : Begin(c, o, scope)
        \/ Statement(c)
        \/ Commit(c)
        \/ Rollback(c)
        \/ Retry(c)

Spec == Init /\ [][Next]_vars

-----------------------------------------------------------------------------
(* Properties *)

\* Every variable has its type, and a row nobody holds has nothing uncommitted.
TypeOK ==
    /\ committed \in [Key -> Promise!Version]
    /\ current \in [Key -> Promise!Version]
    /\ holder \in [Key -> Caller \cup {Nobody}]
    /\ snapshot \in [Caller -> [Key -> Promise!Version] \cup {NoSnapshot}]
    /\ run \in [Caller -> RunState]
    /\ answer \in [Caller -> Promise!Answer]
    /\ \A k \in Key : holder[k] = Nobody => current[k] = committed[k]

\* The callers who were answered with a row that they removed.
Removing == {c \in Caller : Op(c).kind \in {"consume", "delete"} /\ answer[c] \in Promise!Row}

\* The exactly-once primitive: of all the consumes and deletes that race for one
\* row, as it was put there by one write, one at most is answered with it, also
\* where bodies went on without the transaction that held their locks.
ClaimedOnce ==
    \A c, d \in Removing :
        Op(c).key = Op(d).key /\ answer[c].by = answer[d].by => c = d

\* Statement by statement, under any interleaving and any rollback, the MySQL
\* branches do what one RETURNING statement does, and a body whose transaction
\* is gone is never told that it succeeded.
ImplementsPromise == Promise!Spec
=============================================================================
