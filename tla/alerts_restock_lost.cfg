SPECIFICATION Spec
CONSTANTS
    Workers = {w1}
    Rules = {r1}
    Rivals = {}
    Kinds = {"back_in_stock"}
    Prices = {8}
    Stocks = {TRUE, FALSE}
    ThresholdPrice = 10
    ThresholdPct = 25
    MaterialPct = 50
    Cooldown = 2
    MaxScrapes = 5
    MaxClock = 2
    MaxRivalMoves = 0
    MaxFailures = 0
PROPERTY RestockRetried
CHECK_DEADLOCK FALSE
