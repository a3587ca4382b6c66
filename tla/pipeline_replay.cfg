SPECIFICATION Spec
CONSTANTS
    NoJob = NoJob
    Workers = {w1}
    Killable = {w1}
    Requests = {r1, r2}
    Errors = {"Retryable", "Terminal"}
    MaxAttempts = 2
    PromoteLimit = 1
    MaxPushes = 3
    MaxTerms = 0
    MaxKills = 1
SYMMETRY Symmetry
INVARIANTS NoDoubleDelivery RetryPolicy RowsMatchHistory
PROPERTIES ImplementsLifecycle LossesHaveACause
