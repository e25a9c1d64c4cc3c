SPECIFICATION Spec
CONSTANTS
    Tasks = {t1}
    Clients = {c1}
    Editors = {}
    Summarizers = {w1}
    Extractors = {x1}
    MaxGens = 2
    MaxRuns <- OneEach
INVARIANTS
    TicksKept
    AnsweredForThisSummary
PROPERTIES
    ActionItemsIsARun
