\* Two requests, two issuances of a code and a link each.
SPECIFICATION HybridSpec
CONSTANTS
    h1 = h1  h2 = h2
    c1 = c1  c2 = c2
    k1 = k1  k2 = k2
    ada = ada
    Subject = {ada}
    Handle = {h1, h2}
    Link = {k1, k2}
    Caller = {c1, c2}
    Attempts = 2
    Ttl = 1
    MaxTime = 2
SYMMETRY CallerSymmetry
CHECK_DEADLOCK FALSE
INVARIANTS
    EachDoorOnce
PROPERTIES
    ShutStaysShut
    ImplementsBudget
