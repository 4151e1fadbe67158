SPECIFICATION Spec
CONSTANTS
    Systems <- MCSystems
    Names <- MCNames
    Dirs <- MCDirs
    Sizes <- MCSizes
    CdPaths <- MCCdPaths
    ShellPaths <- MCShellPaths
    ProgramPaths <- MCProgramPaths
    Fds = {3, 4}
    MaxObjects = 5
    MaxNodes = 6
    Lens = {1}
    MaxSize = 2
    MaxDepth = 2
    MaxRefs = 2
INVARIANTS
    DescriptorsAreLive
    NodesAreLostTwoWays
    OpenFollowsThePath
    
PROPERTIES
    FilesShrinkOnlyWhenOpenTwice
CHECK_DEADLOCK FALSE
