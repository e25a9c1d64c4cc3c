SPECIFICATION FairSpec
CONSTANTS
    Ticks = {t1}
    MaxAttempts = 1
    LambdaTimeout = 0
    RetryDelay = 1
    MinAge = 1
    StuckAfter = 1
    Deadline = 1
    Grace = 1
    MaxAudios = 1
    MaxActs = 1
    MaxFaults = 1
    Sounds = {"speech", "silence", "corrupt"}
    Acts = {"update", "relate", "rediarize"}
INVARIANTS ObjectsOutliveRow SpeechNeverDeleted
PROPERTIES Settles DeletesOnlyQuietFailures
