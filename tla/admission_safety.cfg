SPECIFICATION MCSpec
CONSTANTS
    Key = {k1, k2}
    Op = {o1, o2, o3}
    NoOp = NoOp
    small = small
    large = large
    Plan = {small, large}
    NoPlan = NoPlan
    StorageLimit <- MCStorageLimit
    FileLimit <- MCFileLimit
    MaxSize = 2
    Web = {m1}
    Event = {e1, e2}
    Group = {e2}
    Hook = {101, 102}
    Body = {1, 2}
    NoBody = NoBody
    QuotaLimit = 1
    MaxSockets = 3
    MaxFaults = 2
    MaxPosts = 2
    MaxPeriods = 2
INVARIANTS
    LedgerSafety AdmissionInv IntakeSafety
SYMMETRY Symmetry
CHECK_DEADLOCK FALSE
