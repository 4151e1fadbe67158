SPECIFICATION Spec
CONSTANTS
    KEYBOARD_BUFFER_SIZE = 3
    Keys <- MCKeys
INVARIANTS
    ShiftFollowsTheKeys

    
