SPECIFICATION FairSpec
CONSTANTS
    Main = Main
    Idle = Idle
    Setup = Setup
    Shell = Shell
    NULL = NULL
    Procs = {p1}
    MaxTicks = 2
    MaxKeys = 1
    MaxId = 4
    KeysWhileLoading = FALSE
INVARIANTS
    UserRunsWithUserGs
PROPERTIES
    SleepIsNotCutShort
    ZombiesAreReaped
    ReadyThreadsRun
    PromptReturns
