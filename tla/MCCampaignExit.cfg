SPECIFICATION FairSpec
CONSTANTS
    cpu = cpu
    logs = logs
    Kinds = {cpu}
    Sustained = {cpu}
    Needed = 2
    FuzzingLoop = 2
    MaxSigint = 2
INVARIANTS
    OrphansBelongToShutdown
PROPERTIES
    ExitsOrHangs
CHECK_DEADLOCK FALSE
