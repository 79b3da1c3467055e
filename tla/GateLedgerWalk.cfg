SPECIFICATION Spec
CONSTANTS
    Procs = {p1, p2}
    NoProc = NoProc
    StartPhases = {"triage", "brainstorm"}
    HandCalls <- Calls
    Crashers = {p1, p2}
    MaxLedger = 7
INVARIANTS OnePassPerGate LedgerLeadsByOneEdge ResolvedIsCoherent
CHECK_DEADLOCK FALSE
