SPECIFICATION Spec
CONSTANTS
    Symbols = {btc, eth}
    Orders = {}
    Prices = {2, 3}
    MaxPositionPct = 50
    MaxExposurePct = 80
    MaxLossPct = 20
    MinNotional = 4
    MaxTrades = 2
    MaxMoves = 1
    Markets <- UnpricedOnly
PROPERTIES
    ExposureAlwaysCapped
