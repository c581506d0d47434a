SPECIFICATION ConversationSpec
CONSTANTS
    Shoppers = {s}
    NoShopper = none
    Sessions = {S0, S1, S2}
    NoSession = nosession
    Runs = {r0, r1, r2}
    NoRun = norun
    Posts = {}
    AtOnce = 2
    Requests = {}
    Clears = {}
    Products = {x, y}
    r0 = r0
    S0 = S0
    Earlier = {r0}
    SessionOf <- EarlierSession
CHECK_DEADLOCK FALSE
INVARIANTS
    FollowUpsAuthorized
