SPECIFICATION Spec
CONSTANTS
    Main = Main
    Idle = Idle
    Setup = Setup
    Shell = Shell
    NULL = NULL
    Procs = {p1, p2}
    MaxTicks = 2
    MaxKeys = 2
    MaxId = 4
    KeysWhileLoading = TRUE
SYMMETRY ProcSymmetry
INVARIANTS
    RunListIsOneCycle
    ZombieListIsComplete
    CurrentIsAlive
    OneProcessAtATime
PROPERTIES
    SwitchesOnlyToReady
    WaitEndsOnlyAfterExit
