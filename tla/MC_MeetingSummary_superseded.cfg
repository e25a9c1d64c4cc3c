SPECIFICATION FairSpec
CONSTANTS
    Workers = {w1, w2}
    MaxSummaryRetries = 1
    AsyncRetries = 1
    LambdaTimeout = 1
    ClaimTTL = 1
    RetryEligible = 1
    StuckAfter = 2
    MaxUploads = 2
    MaxEvents = 1
PROPERTIES SummaryMatchesTranscript Settles
