SPECIFICATION Spec
CONSTANTS
    Workers = {w1}
    Rules = {r1}
    Rivals = {}
    Kinds = {"price_below"}
    Prices = {6, 9, 12}
    Stocks = {TRUE}
    ThresholdPrice = 10
    ThresholdPct = 25
    MaterialPct = 50
    Cooldown = 1
    MaxScrapes = 2
    MaxClock = 1
    MaxRivalMoves = 0
    MaxFailures = 0
INVARIANT OnlyFurtherBelow
CHECK_DEADLOCK FALSE
