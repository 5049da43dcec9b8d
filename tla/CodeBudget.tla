----------------------------- MODULE CodeBudget -----------------------------
(***************************************************************************)
(* What the guessable codes of domain/Challenges.ts promise, whatever      *)
(* races: a handle is issued once, with a number of guesses; each wrong    *)
(* guess takes one for good; it is answered at most once; and once it has  *)
(* no guess left, by being answered, exhausted, retired, lost or expired,  *)
(* it never has one again.                                                 *)
(***************************************************************************)
EXTENDS Naturals

CONSTANTS Handle, Attempts

VARIABLES
    issued,     \* the handles that were issued
    left,       \* the guesses each handle has left
    wrongs,     \* the wrong guesses made at each handle
    answered    \* the handles answered with the right code

Init ==
    /\ issued = {}
    /\ left = [h \in Handle |-> 0]
    /\ wrongs = [h \in Handle |-> 0]
    /\ answered = {}

Issue(h) ==
    /\ h \notin issued
    /\ issued' = issued \cup {h}
    /\ left' = [left EXCEPT ![h] = Attempts]
    /\ UNCHANGED <<wrongs, answered>>

Wrong(h) ==
    /\ left[h] > 0
    /\ left' = [left EXCEPT ![h] = @ - 1]
    /\ wrongs' = [wrongs EXCEPT ![h] = @ + 1]
    /\ UNCHANGED <<issued, answered>>

Answer(h) ==
    /\ left[h] > 0
    /\ answered' = answered \cup {h}
    /\ left' = [left EXCEPT ![h] = 0]
    /\ UNCHANGED <<issued, wrongs>>

\* Retired, swept, or lost with the process that had claimed it; one statement
\* can end several.
Die ==
    /\ \E dead \in SUBSET Handle :
         left' = [h \in Handle |-> IF h \in dead THEN 0 ELSE left[h]]
    /\ UNCHANGED <<issued, wrongs, answered>>

Next == (\E h \in Handle : Issue(h) \/ Wrong(h) \/ Answer(h)) \/ Die

Spec == Init /\ [][Next]_<<issued, left, wrongs, answered>>
=============================================================================
