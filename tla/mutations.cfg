\* Three callers, any of the six mutations each, of one row.
SPECIFICATION Spec
CONSTANTS
    k1 = k1  alice = alice  bob = bob
    c1 = c1  c2 = c2  c3 = c3
    Key = {k1}
    Owner = {alice, bob}
    Caller = {c1, c2, c3}
    Operations <- AllMutations
    DeadlockRetries = 1
    Absent = Absent  Pending = Pending  NoRow = NoRow
    Conflict = Conflict  Failed = Failed
    Nobody = Nobody  NoSnapshot = NoSnapshot
SYMMETRY CallerSymmetry
CHECK_DEADLOCK FALSE
INVARIANTS
    ClaimedOnce
PROPERTIES
    ImplementsPromise
