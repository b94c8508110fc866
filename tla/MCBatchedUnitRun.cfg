SPECIFICATION FairSpec
CONSTANTS
    p1 = p1
    p2 = p2
    t1 = t1
    t2 = t2
    t3 = t3
    Tests <- MCTests
    ClassOf <- MCClassOf
    Mapped <- MCMapped
    Params <- MCParams
    Inputs <- MCInputs
    Settings <- MCSettings
    Sampling = 2
    BatchSize = 1
    MaxRounds = 2
    MaxOdd = 1
    MaxSlow = 1
    MaxAlone = 1
INVARIANTS
    TypeOK
    PassEarned
    PassMeansAllRan
    ForeignNeedsRejection
    PassedTraced
PROPERTIES
    ImplementsGate
    EveryCaseEnds
CHECK_DEADLOCK FALSE
