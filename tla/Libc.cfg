SPECIFICATION Spec
CONSTANTS
    WordSize = 256
    IntMax = 127
    UintSize = 256
    Thousand = 10
    Rates <- MCRates
    Bases <- MCBases
    Values <- MCValues
    Widths <- MCWidths
INVARIANTS
    NumbersReadBack
    
    StringsAreHandled
    SleepsAreRounded
