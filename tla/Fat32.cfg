SPECIFICATION Spec
CONSTANTS
    h1 = h1
    h2 = h2
    Names <- MCNames
    LastCluster = 7
    Tables <- MCTables
    PerCluster = 2
    Image <- MCImage
    ImageSize = 3
    Handles <- MCHandles
    FileSectors = 3
    WriteLens <- MCWriteLens
    MaxOps = 4
    MaxCrashes = 1
SYMMETRY Symmetry
INVARIANTS
    ChainsAreSound
    ReadsSeeWrites
    NamesAreFound
CHECK_DEADLOCK FALSE
