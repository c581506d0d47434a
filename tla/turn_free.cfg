SPECIFICATION Spec
CONSTANTS
    Products = {old, kept, new}
    Inherited = {old, kept}
    Eligible = {old, kept, new}
    Calls = {c1, c2}
    SearchSlots = 2
    ToolLimit = 3
    PerSearch = 1
    ResultLimit = 2
    Modes = {"stream"}
    FollowsPrompt = FALSE
    old = old
    kept = kept
    new = new
    c1 = c1
    c2 = c2
SYMMETRY Workers
CHECK_DEADLOCK FALSE
INVARIANTS
    TypeOK
    SearchSlotsConserved
    ComparedTogether
    FallbackStaysInPool
    NoMatchesMeansNoMatches
    LateWorkersNeverAnswer
    ToldIsStored
    
PROPERTIES
    KeepsContract
