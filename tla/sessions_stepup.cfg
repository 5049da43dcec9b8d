\* Two requests of one session: every race of refresh, step-up and revocation.
SPECIFICATION Spec
CONSTANTS
    r1 = r1  r2 = r2
    s1 = s1  s2 = s2
    t1 = t1  t2 = t2  t3 = t3  t4 = t4
    alice = alice  bob = bob
    Method <- Methods
    RecoveryMethod = "recoveryCode"
    SessionId = {s1}
    UserId = {alice}
    Token = {t1, t2, t3}
    Request = {r1, r2}
    ExpiresIn = 3
    ShortTtl = 2
    UpdateAge = 1
    SignInLogs <- ReplayedLog
    StepUps <- OneStepUp
    Policies <- MCPolicies
    MaxTime = 3
    MaxLog = 3
SYMMETRY RequestSymmetry
CHECK_DEADLOCK FALSE
INVARIANTS
    EvidenceBacked
    EndAnnouncedOnce
PROPERTIES
    DeadTokenStaysDead
    NoResurrection
    StepUpOnlyAdds
