SPECIFICATION Spec
CONSTANTS
    r1 = r1
    r2 = r2
    r3 = r3
    k1 = k1
    k2 = k2
    closing = closing
    f1 = f1
    f2 = f2
    e1 = e1
    e2 = e2
    Runs = {r1, r2, r3}
    Keys = {k1, k2, closing}
    FindingKeys = {k1, k2}
    Paths = {f1, f2, e1, e2}
    BoundTo <- OwnerOf
    Drafts <- AllDrafts
    Registrations <- AllRegistrations
    Closure = closing
    Unsaid = Unsaid
    NoRun = NoRun
INVARIANTS LineageIsSound
PROPERTIES EachFindingItsOwnAnswer ParentCannotReopen
CHECK_DEADLOCK FALSE
