SPECIFICATION Spec
CONSTANTS
    Cost = 2
    Prices = {2, 5}
    Fee = 1
    Equities = {80, 100}
    MinDays = 1
    MinTrades = 2
    MinWins = 50
    MaxDrawdown = 15
    MaxQty = 1
    MaxRows = 4
    MaxSnapshots = 3
    MaxDay = 1
PROPERTY
    EntriesAreEarned
