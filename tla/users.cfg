\* One person who asks and one who may take the other address; two requests at once.
SPECIFICATION Spec
CONSTANTS
    ann = ann
    bob = bob
    home = home
    work = work
    r1 = r1
    r2 = r2
    None = None
    User = {ann, bob}
    Asker = {ann}
    Address = {home, work}
    Request = {r1, r2}
    ConfirmByEmail = TRUE
    MaxLinks = 3
SYMMETRY Interchangeable
CHECK_DEADLOCK FALSE
INVARIANTS
    MovesAreAgreed
    VerifiedMeansProven
    NoLinkOutlivesTheMove
