----------------------------- MODULE MCSessions -----------------------------
(***************************************************************************)
(* Instances of Sessions for TLC.                                          *)
(***************************************************************************)
EXTENDS Sessions, TLC

CONSTANTS r1, r2, s1, s2, t1, t2, t3, t4, alice, bob

Ev(m, f, uv, ago) == [method |-> m, factor |-> f, userVerified |-> uv, ago |-> ago]

Password == Ev("password", "knowledge", FALSE, 0)
Earlier == Ev("password", "knowledge", FALSE, 1)
Totp == Ev("totp", "possession", FALSE, 0)
Recovery == Ev("recoveryCode", "possession", FALSE, 0)

Methods == {"password", "totp", "sms", "recoveryCode", "trustedDevice"}

MCPolicies == [aal: Aal, hasMaxAge: BOOLEAN, maxAge: {1},
               hasMethods: BOOLEAN, methods: {{}, {"totp"}, {"recoveryCode"}},
               allowRecovery: BOOLEAN]

ReplayedLog == {<<Earlier, Recovery>>}
OneStepUp == {Totp}
NoStepUps == {}

RequestSymmetry == Permutations({r1, r2})
=============================================================================
