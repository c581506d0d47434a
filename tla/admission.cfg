SPECIFICATION FairSpec
CONSTANTS
    Runs = {r1, r2, r3}
    MaxRuns = 1
    RateLimit = 2
    Window = 2
    MaxTime = 2
    r1 = r1
    r2 = r2
    r3 = r3
CHECK_DEADLOCK FALSE
INVARIANTS
    SlotsConserved
    RateBounded
PROPERTIES
    SlotsComeBack
