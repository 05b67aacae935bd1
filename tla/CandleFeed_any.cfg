SPECIFICATION FairSpec
CONSTANTS
    btc = btc
    eth = eth
    Symbols = {btc, eth}
    Traded = {btc}
    Prices <- TwoLevels
    BeatSpan = 1
    MaxFetchAge = 1
INVARIANT
    CandlesAreTheirOwn
PROPERTIES
    OrdersOnLiveFeed
    DueLotsClose
