SPECIFICATION FairSpec
CONSTANTS
    NoJob = NoJob
    Workers = {w1, w2}
    Killable = {w1}
    Requests = {}
    Errors = {"Retryable", "Terminal"}
    MaxAttempts = 2
    PromoteLimit = 1
    MaxPushes = 2
    MaxTerms = 1
    MaxKills = 1
INVARIANT GracefulLosesNothing
PROPERTIES EverySettles ShutdownCompletes
