SPECIFICATION Spec
CONSTANTS
    NoJob = NoJob
    Workers = {w1}
    Killable = {w1}
    Requests = {}
    Errors = {"Retryable"}
    MaxAttempts = 2
    PromoteLimit = 1
    MaxPushes = 1
    MaxTerms = 0
    MaxKills = 1
PROPERTY RetrySurvivesRestart
