SPECIFICATION Spec
CONSTANTS
    e1 = e1
    u1 = u1
    u2 = u2
    Emails = {e1}
    Subs = {u1, u2}
    Identities <- MCIdentities
    Requests = {r1, r2}
    Operators = {o1}
    MaxInvites = 2
    MaxRevs = 2
SYMMETRY Symmetry
INVARIANTS NoResurrection VisibleToOwner QueueOfThisEpoch DrainHolds
