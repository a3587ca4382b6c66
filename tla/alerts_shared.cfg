SPECIFICATION WatchSpec
CONSTANTS
    Workers = {w1, w2}
    Rules = {r1}
    Rivals = {}
    Kinds = {"price_below", "back_in_stock"}
    Prices = {6, 8, 12}
    Stocks = {TRUE, FALSE}
    ThresholdPrice = 10
    ThresholdPct = 25
    MaterialPct = 50
    Cooldown = 2
    MaxScrapes = 3
    MaxClock = 2
    MaxRivalMoves = 0
    MaxFailures = 1
SYMMETRY Symmetry
INVARIANTS CooldownPerWorker EvaluationsCatchUp AlertsAccountedFor
CHECK_DEADLOCK FALSE
