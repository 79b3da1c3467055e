SPECIFICATION Spec
CONSTANTS
    i1 = i1
    i2 = i2
    u1 = u1
    u2 = u2
    o1 = o1
    o2 = o2
    c1 = c1
    c2 = c2
    c3 = c3
    a1 = a1
    k1 = k1
    k2 = k2
    e1 = e1
    e2 = e2
    e3 = e3
    f = f
    g = g
    x = x
    t1 = t1
    t2 = t2
    Nobody = Nobody
    None = None
    NoList = NoList
    Unowned = Unowned
    Outside = Outside
    Unavailable = Unavailable
    Files = {f, g, x}
    Indexed = {f, g, x}
    Code = {f, g, x}
    Versions <- MCVersions
    Source <- MCSource
    Quoted = {x}
    Base <- MCBase
    Broad = 2
    Stories <- MCStories
    Tells <- MCTells
    DiffBlocks = TRUE
    ForecastBlocks = TRUE
    FloorBlocks = FALSE
    MaxAccounts = 2
INVARIANTS AccountIsCurrent SilentMeansCovered SilentMeansGraded
PROPERTIES OnlyAPassClears OutcomeIsLateWork
