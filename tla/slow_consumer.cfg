SPECIFICATION FairSpec
CONSTANTS
    Products = {old, new}
    Inherited = {old}
    Eligible = {old, new}
    Calls = {c1, c2}
    SearchSlots = 1
    ToolLimit = 3
    PerSearch = 1
    ResultLimit = 1
    Modes = {"stream"}
    FollowsPrompt = FALSE
    old = old
    new = new
    c1 = c1
    c2 = c2
CHECK_DEADLOCK FALSE
INVARIANTS
    DeadlineIsTold
