SPECIFICATION Spec
CONSTANTS
    r1 = r1
    r2 = r2
    c1 = c1
    c2 = c2
    d1 = d1
    k1 = k1
    Runs = {r1, r2}
    Checks = {c1, c2}
    Docs = {d1}
    Corpus = Corpus
    Shared = {k1}
    Ids = {i1, i2}
    Bodies = {b1}
    NoText = NoText
    Crashers = {r1}
    Stories <- OneRunTwoRuns
    Edits = {c1, d1, k1}
SYMMETRY Renamings
INVARIANTS FlaggedOnlyIfOutOfBand OutOfBandIsFlagged OneCheckPerId
PROPERTIES FrozenChecksKept
