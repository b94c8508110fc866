SPECIFICATION Spec
CONSTANTS
    Projects <- MCProjects
    Targets = {1, 2}
    MaxAttempts = 3
    Retries = 2
    MaxAccepted = 2
    MaxLaunches = 3
CHECK_DEADLOCK FALSE
INVARIANTS
    TypeOK
    SelectedBacked
PROPERTIES
    SelectedKept
