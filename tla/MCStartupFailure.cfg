SPECIFICATION Spec
CONSTANTS
    p1 = p1
    p2 = p2
    Names = {p1, p2}
    Mutable = {p1, p2}
    Related <- MCRelated
    Mapped = {p1}
    Prepared = {p1}
    Reports <- MCReports
    Outcomes <- MCOutcomes
    Settings <- MCSmartSettings
    TestcasePerSeed = 1
    MaxLoops = 2
    SeedPicks = 2
    StackPicks = 2
    OneH = 0
    TwoH = 0
    MaxIdle = 1
PROPERTIES
    StartupFailuresCounted
CHECK_DEADLOCK FALSE
