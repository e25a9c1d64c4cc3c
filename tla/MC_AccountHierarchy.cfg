SPECIFICATION Spec
CONSTANTS
    Accounts = {a, b}
    Users = {u, v}
    Requests = {r1, r2}
    None = None
    Unread = Unread
    MaxAncestors = 1
    MaxAttempts = 2
    Kinds = {"move", "create", "edit"}
    Jobs = TRUE
SYMMETRY Symmetry
INVARIANTS Acyclic NoStaleReference BootstrapComplete
PROPERTIES EditsEntitled
