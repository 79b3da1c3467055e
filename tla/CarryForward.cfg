SPECIFICATION CarrySpec
CONSTANTS
    o1 = o1
    o2 = o2
    d1 = d1
    d2 = d2
    Obligations = {o1, o2}
    Items = {d1, d2}
    Offers <- AllDrafts
    Reopened = {"contract", "checkpoint", "readiness"}
    Missing = Missing
INVARIANTS CarryTypeOK OwedReachesClosure
PROPERTIES NoUnassessedObligation
CHECK_DEADLOCK FALSE
