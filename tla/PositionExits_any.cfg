SPECIFICATION Spec
CONSTANTS
    MaxTrades = 4
    MaxEntries = 2
    MaxRefusals = 1
    MaxQty = 2
    Foreign = 0
    Faults = {"resting", "unsignalled", "liquidate"}
INVARIANTS
    MatchingIsFifo
    NothingUnmatched
CHECK_DEADLOCK FALSE
