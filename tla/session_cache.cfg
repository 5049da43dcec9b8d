\* Two requests of one browser; two people, two sign-ins and a step-up there, in any
\* order, or one session over two refreshes.  A unit of time is the age at which a
\* refresh is due.
SPECIFICATION CacheSpec
CONSTANTS
    r1 = r1  r2 = r2
    s1 = s1  s2 = s2
    t1 = t1  t2 = t2  t3 = t3
    b1 = b1
    alice = alice  bob = bob
    Method = {"password", "totp", "recoveryCode"}
    RecoveryMethod = "recoveryCode"
    SessionId = {s1, s2}
    UserId = {alice, bob}
    Token = {t1, t2, t3}
    Request = {r1, r2}
    Browser = {b1}
    ExpiresIn = 3
    ShortTtl = 1
    UpdateAge = 1
    MaxAge = 2
    SignInLogs <- PasswordLog
    StepUps <- OneStepUp
    Policies = {}
    MaxTime = 3
    MaxLog = 2
    None = None
SYMMETRY RequestSymmetry
CONSTRAINTS DrawnInOrder LongOrBroad
VIEW NoHistory
CHECK_DEADLOCK FALSE
INVARIANTS
    AnswersItsHolder
    RefreshStaysHonest
    EndedHereIsOver
