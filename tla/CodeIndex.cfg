SPECIFICATION Spec
CONSTANTS
    Files <- ThePaths
    Texts <- TheTexts
    Gone = "gone"
    Names = {"a", "b"}
    Defs <- TheDefs
    Calls <- TheCalls
    MaxEdits = 3
    MaxJobs = 3
INVARIANTS NothingStaleIsTrusted CleanFilesAreComplete
CHECK_DEADLOCK FALSE
