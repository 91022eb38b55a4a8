SPECIFICATION FairSpec
CONSTANTS
    MaxEvents = 2
    MaxAttempts = 2
    MaxFaults = 1
    BackfillLimit = 1
    Sizes = {2}
    Limits = {1, 2}
INVARIANTS
    GivesUpOnlyAfterSpentAttempts
    NoLostWakeup
PROPERTIES
    IntentServed
    NotifiedJobIsTried
CHECK_DEADLOCK FALSE
