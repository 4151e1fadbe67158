CONSTANTS
    Header = 3
    Align = 2
    Page = 8
    InitPages = 2
    MaxPages = 4
    Sizes = {0, 3, 6}
SPECIFICATION FairSpec
INVARIANTS MemoryIsExclusive FreeBlocksAreMerged BlocksTileTheHeap
PROPERTY CallsReturn
