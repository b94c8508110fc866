SPECIFICATION Spec
CONSTANTS
    cpu = cpu
    logs = logs
    Kinds = {cpu, logs}
    Sustained = {cpu}
    Needed = 2
    FuzzingLoop = 2
    MaxSigint = 0
INVARIANTS
    TypeOK
    AlarmEarned
    ForeignAlarmOverlaps
    LastLoopUnwatched
CHECK_DEADLOCK FALSE
