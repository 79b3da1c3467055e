SPECIFICATION Spec
CONSTANTS
    r1 = r1
    r2 = r2
    r3 = r3
    r4 = r4
    r5 = r5
    r6 = r6
    r7 = r7
    g1 = g1
    g2 = g2
    Runs = {r1, r2, r3, r4, r5, r6, r7}
    Goals = {g1, g2}
    Units = {u1, u2}
    NoRecord = NoRecord
    NoGoal = NoGoal
    Namesakes <- AllNamesakes
    Casts <- AllCasts
    Drafts <- AllDrafts
    Audited = {r1}
    MaxBudget = 1
    MaxRecords = 3
SYMMETRY Twins
INVARIANTS PromotionsBounded AdviceIsSufficient
PROPERTIES CountNeverResets ResolvedOnOwnGoal
CHECK_DEADLOCK FALSE
