SPECIFICATION Spec
CONSTANTS
    Runs = {r1, r2, r3}
    Scopes <- Plain
    Careless = {}
    None = None
    Up = Up
    Glob = Glob
    Files <- Tree
    x = x
    y = y
    a = a
    b = b
    c = c
INVARIANTS IsolatedExecution
