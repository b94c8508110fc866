SPECIFICATION Spec
CONSTANTS
    Mutable <- MCMutable
    TypeOf <- MCTypeOf
    Default <- MCDefault
    Ints = {"0", "1"}
    Floats = {"0.5"}
    Texts = {"text"}
    Prepared <- MCPrepared
    Settings <- MCSettings
    SeedSizes = {1, 2}
    StackSizes = {2}
    TestcasePerSeed = 2
    MaxPool = 1
    MaxLoops = 2
CHECK_DEADLOCK FALSE
INVARIANTS
    TypeOK
    MutationRecorded
    RaisesOnlyCrossed
    DrawnInTurn
PROPERTIES
    PoolSeedsFrozen
