\* Two requests, two flows of two browsers at two providers.
SPECIFICATION Spec
CONSTANTS
    b1 = b1  b2 = b2
    google = google  github = github
    sue = sue  tom = tom
    f1 = f1  f2 = f2
    r1 = r1  r2 = r2
    Browser = {b1, b2}
    Provider = {google, github}
    Pkce = {github}
    Oidc = {google}
    Subject = {sue, tom}
    Flow = {f1, f2}
    Request = {r1, r2}
    Ttl = 1
    MaxTime = 1
    MaxCodes = 2
    None = None
SYMMETRY Interchangeable
CHECK_DEADLOCK FALSE
INVARIANTS
    OutcomeIsOfItsFlow
    OneOutcomePerFlow
