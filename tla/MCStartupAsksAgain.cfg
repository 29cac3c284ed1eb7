SPECIFICATION Spec
CONSTANTS
    Param = {slippage, margin}
    Short = Short
    Long = Long
    Unset = Unset
    Value = {Short}
    Default = Short
    Length <- MCLength
    MaxExtra = 2
    MaxBroken = 4
    MaxStarts = 3
    MaxRows = 1
INVARIANT AsksOnFirstRunOnly
\* The last process may have ended.
CHECK_DEADLOCK FALSE
