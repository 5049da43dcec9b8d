\* Two requests, every operation of either.
SPECIFICATION Spec
CONSTANTS
    r1 = r1  r2 = r2  r3 = r3
    alice = alice
    i1 = i1  i2 = i2
    Request = {r1, r2}
    Does <- Anything
    User = {alice}
    Identity = {i1, i2}
    Initial = Initial
    NoUser = NoUser
CHECK_DEADLOCK FALSE
INVARIANTS
    CountedAccountStays
    OneIdentityOnePerson
    AnnouncedWasStored
PROPERTIES
    ProvisionedWhole
    SweepMissesNothing
    Finishes
