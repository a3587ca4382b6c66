SPECIFICATION Spec
CONSTANTS
    NoJob = NoJob
    Workers = {w1}
    Killable = {}
    Requests = {r1}
    Errors = {"Terminal"}
    MaxAttempts = 1
    PromoteLimit = 1
    MaxPushes = 2
    MaxTerms = 0
    MaxKills = 0
PROPERTY DeadLetterKept
