SPECIFICATION FairSpec
CONSTANTS
    MaxEvents = 1
    MaxAttempts = 2
    MaxFaults = 1
    BackfillLimit = 1
    Sizes = {1, 2}
    Limits = {1}
PROPERTY
    MetricDeferralKeepsAttempt
CHECK_DEADLOCK FALSE
