\* Three requests, two identities of which one person may hold both.
SPECIFICATION TokensSpec
CONSTANTS
    i1 = i1  i2 = i2
    sue = sue
    t1 = t1  t2 = t2  t3 = t3
    r1 = r1  r2 = r2  r3 = r3
    ProviderIdentity = {i1, i2}
    Refreshable = {i1, i2}
    User = {sue}
    Token = {t1, t2, t3}
    Caller = {r1, r2, r3}
    Initial = Initial
    Nothing = Nothing
SYMMETRY Interchangeable
CHECK_DEADLOCK FALSE
INVARIANTS
    TokensOfTheirIdentity
    NotStranded
