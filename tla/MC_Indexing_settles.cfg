SPECIFICATION FairSpec
CONSTANTS
    Resources = {r1}
    Ticks = {t1}
    Runs = {1, 2, 3, 4, 5}
    Lease = 2
    TickTimeout = 1
    MemberAttempts = 2
    Kinds = {"INDEXED", "invalid", "DELETED"}
    Legacies = {"vector"}
    MaxEdits = 1
    MaxNotes = 1
    MaxExternals = 1
    MaxFaults = 1
INVARIANTS TypeOK
PROPERTIES Settles
