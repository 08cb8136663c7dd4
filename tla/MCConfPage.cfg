SPECIFICATION Spec
CONSTANTS
    allowlist = allowlist
    site = site
    Names <- MCNames
    Pos <- MCPos
    Versions = {1, 2}
    SubsOf <- MCSubsOf
    MaxWork = 3
INVARIANT EditShowsActual
CHECK_DEADLOCK FALSE
