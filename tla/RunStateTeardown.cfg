SPECIFICATION TeardownSpec
CONSTANTS
    Runs = {r1}
    Procs = {p1, p2}
    NoRun = NoRun
    NoProc = NoProc
    Fields = {}
    HandGates = {}
    Initialisers = {p1}
    Finalisers = {}
    Crashers = {p1, p2}
    LateCallers = FALSE
    OperatorEdits = TRUE
    MaxEdges = 0
PROPERTIES HandlersReturn AbortTeardownCompletes
