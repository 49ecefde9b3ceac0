SPECIFICATION DoublesSpec
CONSTANTS
    Width = 4
    Precision = 2
    NaN = NaN
INVARIANT CastIsDefined
