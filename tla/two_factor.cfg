\* Two requests, every operation of either.
SPECIFICATION Spec
CONSTANTS
    r1 = r1  r2 = r2
    Request = {r1, r2}
    Initial = Initial
    Nobody = Nobody
    Window = 1
    SetSize = 1
    PendingTtl = 2
    DeviceTtl = 2
    MaxTime = 2
SYMMETRY RequestSymmetry
CHECK_DEADLOCK FALSE
INVARIANTS
    OneProofPerCode
    OneSessionPerSignIn
    DeviceTokenOnce
    SecuredForgets
PROPERTIES
    TimeOnlyRunsOut
