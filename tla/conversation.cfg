SPECIFICATION McSpec
CONSTANTS
    Shoppers = {s, t}
    NoShopper = none
    Sessions = {S0, S1, S2, S3}
    NoSession = nosession
    Runs = {r0, r1, r2}
    NoRun = norun
    Posts = {p1, p2}
    AtOnce = 2
    Requests = {q}
    Clears = {n}
    Products = {x}
    r0 = r0
    S0 = S0
    Earlier = {r0}
    SessionOf <- EarlierSession
    Versions = 3
    SessionIds = {S1, S2, S3}
    NoSessionId = none
    Tickets = 4
    SearchEvents = {e1, e2}
    NoEvent = noevent
CHECK_DEADLOCK FALSE
INVARIANTS
    TurnsAreNumbered
    OneEventPerRequest
    SessionsAreOwned
    OneConversation
    RestIsSettled
PROPERTIES
    OwnersStay
    RequestsEnd
    EndedTurnsStay
    KeepsHistory
