SPECIFICATION Spec
CONSTANTS
    Tasks = {}
    Clients = {c1}
    Editors = {e}
    Summarizers = {w1, w2}
    Extractors = {}
    MaxGens = 2
    MaxRuns <- TwoSummaries
SYMMETRY Symmetry
INVARIANTS
    OneWorkerPerRun
PROPERTIES
    ReplacesWhatWasRead
    ResummaryIsARun
