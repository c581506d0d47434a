SPECIFICATION Spec
CONSTANTS
    Products = {old, kept, new}
    Inherited = {old, kept}
    Eligible = {old, kept, new}
    Calls = {c1, c2}
    SearchSlots = 2
    ToolLimit = 4
    PerSearch = 1
    ResultLimit = 2
    Modes = {"answer"}
    FollowsPrompt = TRUE
    old = old
    kept = kept
    new = new
    c1 = c1
    c2 = c2
SYMMETRY Workers
CHECK_DEADLOCK FALSE
INVARIANTS
    PoolIsRetrieved
    RetryKeepsSelection
PROPERTIES
    RecordWrittenOnce
    GatesHoldAtPublication
