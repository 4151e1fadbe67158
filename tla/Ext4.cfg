SPECIFICATION Spec
CONSTANTS
    Names <- MCNames
    NameSize <- MCNameSize
    DotSize = 2
    DirSize = 7
    NInodes = 4
    NBlocks = 6
    Images <- MCImages
    PerBlock = 2
    EhMax = 2
    LogMax = 6
    MaxDepth = 2
    Fds = {f1, f2}
    FileParts = 5
    WriteLens <- MCWriteLens
    MaxOps = 4
    MaxCrashes = 1
INVARIANTS
    TypeOK
    EntriesNameInodes
    EntriesTileTheBlock
    DirectoriesFollowCalls
    PlainBlocksHaveOneOwner
    PlainReadsSeeWrites
SYMMETRY FdSymmetry
CHECK_DEADLOCK FALSE
