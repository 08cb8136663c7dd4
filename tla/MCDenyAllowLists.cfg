SPECIFICATION Spec
CONSTANTS
    Lists = {l1, l2}
    Sourced = {}
    Ips = {x, y}
    Admins = {a1}
    NoList = NoList
    NoForm = NoForm
    MaxSaves = 3
    MaxRefreshes = 1
INVARIANT NoSilentConflict
CHECK_DEADLOCK FALSE
