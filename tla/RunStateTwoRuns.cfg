SPECIFICATION Spec
CONSTANTS
    Runs = {r1, r2}
    Procs = {p1, p2}
    NoRun = NoRun
    NoProc = NoProc
    Fields = {}
    HandGates = {}
    Initialisers = {p1}
    Finalisers = {}
    Crashers = {p1, p2}
    LateCallers = TRUE
    OperatorEdits = TRUE
    MaxEdges = 0
PROPERTIES ClaimsHeldWhileActive RegistryUpdatesOwn
