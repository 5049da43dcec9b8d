------------------------------- MODULE Window -------------------------------
(***************************************************************************)
(* What a fixed-window counter promises, whether or not anybody sweeps it: *)
(* a window is opened by the first call it lets through, every token       *)
(* charged to it extends it by Refill, a call is refused only where the    *)
(* window could not hold it, a refusal charges nothing, and a window that  *)
(* is over is forgotten.  Either way a call is answered with what it would *)
(* make of the count and with how long the window still stands.            *)
(***************************************************************************)
EXTENDS Integers

CONSTANTS Limit, Refill, Tokens, Closed

VARIABLES
    now,
    window,
    reply       \* what the last call was answered, until time passes

NoReply == [count |-> 0, left |-> 0]

Init == now = 0 /\ window = Closed /\ reply = NoReply

Over(w, t) == w # Closed /\ w.expiresAt <= t

Elapse ==
    /\ now' > now
    /\ window' = IF Over(window, now') THEN Closed ELSE window
    /\ reply' = NoReply

Held == IF window = Closed THEN [count |-> 0, expiresAt |-> now] ELSE window

Fits(n) == Limit = 0 \/ Held.count + n <= Limit

Charge(n) ==
    /\ Fits(n)
    /\ window' = [count |-> Held.count + n, expiresAt |-> Held.expiresAt + Refill * n]
    /\ reply' = [count |-> window'.count, left |-> window'.expiresAt - now]
    /\ now' = now

Refuse(n) ==
    /\ ~Fits(n)
    /\ reply' = [count |-> Held.count + n, left |-> Held.expiresAt - now]
    /\ UNCHANGED <<now, window>>

Next == Elapse \/ \E n \in Tokens : Charge(n) \/ Refuse(n)

Spec == Init /\ [][Next]_<<now, window, reply>>
=============================================================================
