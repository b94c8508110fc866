SPECIFICATION FairSpec
CONSTANTS
    LogFiles = {log}
    ShellFiles = {shell}
    FileKinds = {"named", "blank"}
    MaxRuns = 2
    MaxWrites = 3
    MaxRewrite = 2
    log = log
    shell = shell
CHECK_DEADLOCK FALSE
INVARIANTS
    TypeOK
    
    OwnOutputKept
PROPERTIES
    HangsOnlyInScript
