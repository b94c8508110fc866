SPECIFICATION FairSpec
CONSTANTS
    MaxClasses = 3
    IdleTimeout = 2
    HardTimeout = 8
INVARIANTS
    TypeOK
    PassMeansPassed
    CountedOnce
    LeftOverIsDying
PROPERTIES
    Returns
    ImplementsGate
CHECK_DEADLOCK FALSE
