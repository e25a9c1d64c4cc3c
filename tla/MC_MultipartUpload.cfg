SPECIFICATION Spec
CONSTANTS
    Workers = {w1, w2}
    MaxParts = 2
    PartCounts = {2}
    AsyncRetries = 1
    MaxBatches = 1
    MaxUploads = 2
    MaxEvents = 1
SYMMETRY Symmetry
INVARIANTS TypeOK EmitComplete
PROPERTIES PublishedOnce
CHECK_DEADLOCK FALSE
