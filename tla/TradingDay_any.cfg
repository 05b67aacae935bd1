SPECIFICATION Spec
CONSTANTS
    Symbols = {btc, eth}
    Orders = {o1}
    Prices = {2, 3}
    MaxPositionPct = 50
    MaxExposurePct = 80
    MaxLossPct = 20
    MinNotional = 2
    MaxTrades = 1
    MaxMoves = 1
    Markets <- CalmOrFaulty
SYMMETRY Symmetry
INVARIANTS
    EntriesStayCapped
    ApprovedIsAffordable
    BuysNeedBaseline
PROPERTY
    ExposureStaysCapped
