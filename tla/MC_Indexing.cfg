SPECIFICATION Spec
CONSTANTS
    Resources = {r1, r2}
    Ticks = {t1, t2}
    Runs = {1, 2, 3, 4, 5}
    Lease = 2
    TickTimeout = 1
    MemberAttempts = 2
    Kinds = {"file", "DELETED"}
    Legacies = {"object"}
    MaxEdits = 1
    MaxNotes = 2
    MaxExternals = 0
    MaxFaults = 1
SYMMETRY Symmetry
INVARIANTS SettledIsServed SidecarFirst
PROPERTIES SettlesOnCurrentSource Frozen
