CONSTANTS
    TotalFrames = 10
    Reserved = {0}
    ImageBase = 3
    StackPages = 2
    TableLevels = 2
    MaxSegment = 2
    MaxHeap = 2
    MaxKernel = 2
SPECIFICATION Spec
INVARIANTS  KernelHeapStaysMapped
PROPERTY FramesAreLostTwoWays
