SPECIFICATION FairSpec
CONSTANTS
    Products = {old, new}
    Inherited = {old}
    Eligible = {old, new}
    Calls = {c1}
    SearchSlots = 1
    ToolLimit = 4
    PerSearch = 1
    ResultLimit = 1
    Modes = {"answer"}
    FollowsPrompt = TRUE
    old = old
    new = new
    c1 = c1
CHECK_DEADLOCK FALSE
INVARIANTS
    ReceiptIsCurrent
