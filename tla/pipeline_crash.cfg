SPECIFICATION Spec
CONSTANTS
    NoJob = NoJob
    Workers = {w1, w2}
    Killable = {w1, w2}
    Requests = {}
    Errors = {"Retryable", "Selector", "Unclassified"}
    MaxAttempts = 3
    PromoteLimit = 2
    MaxPushes = 2
    MaxTerms = 0
    MaxKills = 1
SYMMETRY Symmetry
INVARIANTS TypeOK NoDoubleDelivery RetryPolicy RowsMatchHistory
PROPERTIES ImplementsLifecycle MovesRunOut RetryLostOnlyInFlight LossesHaveACause
