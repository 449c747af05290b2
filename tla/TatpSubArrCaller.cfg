SPECIFICATION SubArrSpec
CONSTANTS
    Elements <- MCElements
    MinLen = 1
    MaxLen = 4
    Contents = {1, 99}
INVARIANTS
    CallerGetsSubarray
