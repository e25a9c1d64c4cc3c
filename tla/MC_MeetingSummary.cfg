SPECIFICATION Spec
CONSTANTS
    Workers = {w1, w2}
    MaxSummaryRetries = 2
    AsyncRetries = 2
    LambdaTimeout = 1
    ClaimTTL = 1
    RetryEligible = 1
    StuckAfter = 2
    MaxUploads = 1
    MaxEvents = 2
SYMMETRY Symmetry
INVARIANTS TypeOK LeaseInv LiveBatchNotExpired SpendInv DoneNotPending
PROPERTIES LeaseRespected OwnerContentKept
