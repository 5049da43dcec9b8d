\* Three requests complete two ceremonies of two people.
SPECIFICATION CeremoniesSpec
CONSTANTS
    ann = ann  bob = bob
    k1 = k1  k2 = k2
    c1 = c1  c2 = c2
    r1 = r1  r2 = r2  r3 = r3
    User = {ann, bob}
    CredentialId = {k1, k2}
    Ceremony = {c1, c2}
    Request = {r1, r2, r3}
    MaxCount = 1
    RejectRegression = FALSE
    Initial = Initial
    None = None
SYMMETRY Interchangeable
CHECK_DEADLOCK FALSE
INVARIANTS
    OneUsePerCeremony
    OutcomeIsOfItsCeremony
    HandleIsKept
PROPERTIES
    MarkIsKept
