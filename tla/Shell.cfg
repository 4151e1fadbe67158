SPECIFICATION Spec
CONSTANTS
    VGA_WIDTH = 3
    VGA_HEIGHT = 3
    TabStop = 2
    SHELL_BUFFER_SIZE = 5
    MAX_HISTORY = 2
    Letters <- MCLetters
    Prompt <- MCPrompt
    command_list <- MCCommands
    Listings <- MCListings
    Outputs <- MCOutputs
    MaxKeys = 8
INVARIANTS
    ScreenShowsLine
    OnlyCompletionFillsTheBuffer
CHECK_DEADLOCK FALSE
