--------------------------- MODULE MCSessionCache ---------------------------
(* Instances of SessionCache for TLC. *)
EXTENDS SessionCache, TLC

CONSTANTS r1, r2, s1, s2, t1, t2, t3, b1, alice, bob

Ev(m, f) == [method |-> m, factor |-> f, userVerified |-> FALSE, ago |-> 0]

PasswordLog == {<<Ev("password", "knowledge")>>}
OneStepUp == {Ev("totp", "possession")}

\* Tokens, sessions and people are interchangeable until they are drawn, and each
\* is drawn from those that were not drawn before: it is enough to look at the
\* behaviours that draw them in this order.
DrawnInOrder ==
    /\ minted \in {{}, {t1}, {t1, t2}, {t1, t2, t3}}
    /\ created \in {{}, {s1}, {s1, s2}}
    /\ s1 \in created => row[s1].userId = alice

\* Two sessions for as long as it takes one to be refreshed and one to expire; one,
\* raised once, for as long as it takes to be refreshed twice.
LongOrBroad == now <= 1 \/ (created \subseteq {s1} /\ minted \subseteq {t1, t2})

\* Without the histories of Sessions, which nothing here reads.
NoHistory == <<now, created, live, row, minted, req, jar, call, holder, told>>

RequestSymmetry == Permutations({r1, r2})
=============================================================================
