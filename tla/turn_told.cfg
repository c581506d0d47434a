SPECIFICATION FairSpec
CONSTANTS
    Products = {old, new}
    Inherited = {old}
    Eligible = {new}
    Calls = {c1}
    SearchSlots = 1
    ToolLimit = 3
    PerSearch = 1
    ResultLimit = 1
    Modes = {"answer", "stream"}
    FollowsPrompt = FALSE
    old = old
    new = new
    c1 = c1
CHECK_DEADLOCK FALSE
PROPERTIES
    EventuallyTold
