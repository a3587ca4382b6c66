SPECIFICATION Spec
CONSTANTS
    Workers = {w1, w2}
    Rules = {r1}
    Rivals = {}
    Kinds = {"price_below"}
    Prices = {8, 12}
    Stocks = {TRUE}
    ThresholdPrice = 10
    ThresholdPct = 25
    MaterialPct = 50
    Cooldown = 2
    MaxScrapes = 2
    MaxClock = 1
    MaxRivalMoves = 0
    MaxFailures = 0
INVARIANT CooldownRespected
CHECK_DEADLOCK FALSE
