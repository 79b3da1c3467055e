SPECIFICATION Spec
CONSTANTS
    Runs = {r1}
    Procs = {p1, p2}
    NoRun = NoRun
    NoProc = NoProc
    Fields = {f1}
    HandGates <- ByHand
    Initialisers = {p1}
    Finalisers = {p1}
    Crashers = {p1, p2}
    LateCallers = FALSE
    OperatorEdits = FALSE
    MaxEdges = 6
INVARIANTS TypeOK LockInv GateBeforeEdge
PROPERTIES ImplementsLifecycle AbortIsFinal FieldsKeptWhileActive
