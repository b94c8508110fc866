SPECIFICATION Spec
CONSTANTS
    cpu = cpu
    logs = logs
    Kinds = {cpu, logs}
    Sustained = {cpu}
    Needed = 2
    FuzzingLoop = 2
    MaxSigint = 2
INVARIANTS
    AlarmOfThisRun
CHECK_DEADLOCK FALSE
