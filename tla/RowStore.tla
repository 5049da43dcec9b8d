------------------------------ MODULE RowStore ------------------------------
(***************************************************************************)
(* What the mutations of sql/Mutations.ts promise on every dialect, which  *)
(* is what one statement with a RETURNING clause does on PostgreSQL and    *)
(* SQLite: a mutation takes effect in one step and answers with the row it *)
(* deleted, wrote or found, or does nothing and answers that.  Only MySQL  *)
(* may end a transaction under a body that goes on (sql/stores/            *)
(* Transaction.ts): what such a body still writes stays, in pieces, but it *)
(* is told that it failed.                                                 *)
(*                                                                         *)
(* A row is what the predicates in use can tell apart: who owns it,        *)
(* whether its guard is still open (not used, not verified, not expired),  *)
(* and which write put it there.  A key of the table names it.             *)
(***************************************************************************)
EXTENDS Naturals

CONSTANTS
    Key, Owner,
    Caller,     \* concurrent callers, one mutation each
    Absent,     \* there is no such row
    Pending,    \* still running
    NoRow,      \* the mutation matched nothing
    Conflict,   \* a unique key refused an insert
    Failed      \* the mutation failed, and nothing of it is stored, but see Stray

Incarnation == {"initial"} \cup Caller

Row == [owner: Owner, open: BOOLEAN, by: Incarnation]

Version == Row \cup {Absent}

Answer == Row \cup {Pending, NoRow, Conflict, Failed}

Kind == {"consume", "update", "touch", "delete", "insert", "upsert"}

Operation == [kind: Kind, key: Key, owner: Owner]

\* The row an insert or upsert by a caller offers.
Offered(c, o) == [owner |-> o.owner, open |-> TRUE, by |-> c]

Outcome(stored, answer) == [stored |-> stored, answer |-> answer]

\* The caller's WHERE: a consume and a guarded update ask for an open row, a
\* touch and a delete for any.
Matches(o, v) == v # Absent /\ (o.kind \in {"consume", "update"} => v.open)

Assigned(o, v) == IF o.kind = "update" THEN [v EXCEPT !.open = FALSE] ELSE v

\* An upsert rewrites what it collides with only while the owner is the same.
MayWrite(o, v) == v = Absent \/ v.owner = o.owner

Effect(c, o, v) ==
    CASE o.kind \in {"consume", "delete"} ->
            IF Matches(o, v) THEN Outcome(Absent, v) ELSE Outcome(v, NoRow)
      [] o.kind \in {"update", "touch"} ->
            IF Matches(o, v) THEN Outcome(Assigned(o, v), Assigned(o, v))
            ELSE Outcome(v, NoRow)
      [] o.kind = "insert" ->
            IF v = Absent THEN Outcome(Offered(c, o), Offered(c, o))
            ELSE Outcome(v, Conflict)
      [] o.kind = "upsert" ->
            IF MayWrite(o, v) THEN Outcome(Offered(c, o), Offered(c, o))
            ELSE Outcome(v, NoRow)

\* What a statement after the first writes by itself: the guard is behind it.
Strayed(c, o, v) ==
    CASE o.kind \in {"consume", "delete"} -> Absent
      [] o.kind \in {"update", "touch"} -> IF v = Absent THEN Absent ELSE Assigned(o, v)
      [] OTHER -> Effect(c, o, v).stored

VARIABLES
    rows,       \* what is stored
    request,    \* what each caller asked for
    answer,     \* what each caller was answered
    strays      \* callers whose transaction ended under them

Init ==
    /\ rows \in [Key -> Version]
    /\ \A k \in Key : rows[k] # Absent => rows[k].by = "initial"
    /\ request \in [Caller -> Operation]
    /\ answer = [c \in Caller |-> Pending]
    /\ strays = {}

Ask(c, o) ==
    /\ answer[c] = Pending
    /\ request' = [request EXCEPT ![c] = o]
    /\ strays' \in {strays, strays \cup {c}}
    /\ UNCHANGED <<rows, answer>>

Do(c) ==
    LET o == request[c]
        outcome == Effect(c, o, rows[o.key])
    IN  /\ answer[c] = Pending
        /\ c \notin strays
        /\ rows' = [rows EXCEPT ![o.key] = outcome.stored]
        /\ answer' = [answer EXCEPT ![c] = outcome.answer]
        /\ UNCHANGED <<request, strays>>

Stray(c) ==
    LET o == request[c] IN
    /\ answer[c] = Pending
    /\ c \in strays
    /\ rows' = [rows EXCEPT ![o.key] = Strayed(c, o, @)]
    /\ UNCHANGED <<request, answer, strays>>

\* Any mutation may fail, and a consume may miss a row that the transaction it
\* runs in is too old to see: both are closed, nothing more is stored.
Refuse(c) ==
    /\ answer[c] = Pending
    /\ \/ answer' = [answer EXCEPT ![c] = Failed]
       \/ c \notin strays /\ request[c].kind = "consume" /\ answer' = [answer EXCEPT ![c] = NoRow]
    /\ UNCHANGED <<rows, request, strays>>

Next == \E c \in Caller : Do(c) \/ Stray(c) \/ Refuse(c) \/ \E o \in Operation : Ask(c, o)

Spec == Init /\ [][Next]_<<rows, request, answer, strays>>
=============================================================================
