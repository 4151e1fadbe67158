SPECIFICATION Spec
CONSTANTS
    Main = Main
    Idle = Idle
    Setup = Setup
    Shell = Shell
    NULL = NULL
    Procs = {p1, p2}
    MaxTicks = 2
    MaxKeys = 2
    MaxId = 4
    KeysWhileLoading = FALSE
SYMMETRY ProcSymmetry
INVARIANTS
    BlocksOnlyWithoutInput
