\* Two requests, every operation of either.
SPECIFICATION Spec
CONSTANTS
    r1 = r1  r2 = r2
    old = old  new = new
    Request = {r1, r2}
    Password = {old, new}
    Initial = Initial
    NoCredential = NoCredential
    NoHash = NoHash
    Other = Other
    Nobody = Nobody
CHECK_DEADLOCK FALSE
INVARIANTS
    SecuredEvicts
    ResetAllOrNothing
PROPERTIES
    Finishes
