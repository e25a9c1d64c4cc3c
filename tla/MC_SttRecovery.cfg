SPECIFICATION Spec
CONSTANTS
    Ticks = {t1, t2}
    MaxAttempts = 2
    LambdaTimeout = 0
    RetryDelay = 1
    MinAge = 1
    StuckAfter = 1
    Deadline = 1
    Grace = 2
    MaxAudios = 1
    MaxActs = 0
    MaxFaults = 1
    Sounds = {"speech"}
    Acts = {}
SYMMETRY Symmetry
INVARIANTS TypeOK AttemptsCharged OneRecoveryRun
