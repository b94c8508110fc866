SPECIFICATION FairSpec
CONSTANTS
    p1 = p1
    p2 = p2
    Names = {p1, p2}
    Mutable = {p1, p2}
    Related <- MCRelated
    Mapped = {p1}
    Prepared = {}
    Reports <- MCFewReports
    Outcomes <- MCFewOutcomes
    Settings <- MCLongSettings
    TestcasePerSeed = 2
    MaxLoops = 2
    SeedPicks = 2
    StackPicks = 2
    OneH = 0
    TwoH = 0
    MaxIdle = 0
INVARIANTS
    PoolSeedsExercised
    CountersAgree
    StopBound
PROPERTIES
    Termination
CHECK_DEADLOCK FALSE
