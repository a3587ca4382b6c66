SPECIFICATION DashboardSpec
CONSTANTS
    NoJob = NoJob
    Pod = pod
    Workers = {pod}
    Killable = {pod}
    Requests = {}
    Errors = {"Retryable", "Selector", "Terminal", "Unclassified"}
    MaxAttempts = 2
    PromoteLimit = 1
    MaxPushes = 2
    MaxTerms = 1
    MaxKills = 1
    PoliteDelay = 2
    LaunchTimeout = 1
    PageTimeout = 1
    NotifyMaxAttempts = 3
    PostTimeout = 1
    RetryBaseDelay = 1
    RetryBackoffFactor = 2
    RetryMaxDelay = 2
    DequeueTimeout = 1
    PromoteInterval = 1
    Grace = 7
    MaxAlerts = 1
    MaxPolls = 2
    MaxClicks = 1
    MaxVisits = 1
INVARIANTS DashboardTypeOK GraceProtectsScrape DuplicatesUnanswered UpdatedIsNew HealthAddsUp
PROPERTIES RequestSpacing ImplementsDelivery
