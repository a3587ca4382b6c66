SPECIFICATION WatchSpec
CONSTANTS
    Workers = {w1}
    Rules = {r1}
    Rivals = {c1, c2}
    Kinds = {"undercut", "price_below", "price_drop_pct", "back_in_stock"}
    Prices = {6, 8, 12}
    Stocks = {TRUE, FALSE}
    ThresholdPrice = 10
    ThresholdPct = 25
    MaterialPct = 50
    Cooldown = 2
    MaxScrapes = 3
    MaxClock = 3
    MaxRivalMoves = 1
    MaxFailures = 1
SYMMETRY Symmetry
INVARIANTS TypeOK CooldownPerWorker AlertsAccountedFor OneOpen OneAlertPerStreak AlertsInTurn
PROPERTIES AgreesWithCondition ImplementsAlertLog
CHECK_DEADLOCK FALSE
