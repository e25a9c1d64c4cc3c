SPECIFICATION Spec
CONSTANTS
    Ticks = {t1}
    MaxAttempts = 1
    LambdaTimeout = 0
    RetryDelay = 1
    MinAge = 1
    StuckAfter = 1
    Deadline = 1
    Grace = 1
    MaxAudios = 2
    MaxActs = 1
    MaxFaults = 0
    Sounds = {"speech"}
    Acts = {"ahead"}
PROPERTIES GivesUpOnOwnBudget
