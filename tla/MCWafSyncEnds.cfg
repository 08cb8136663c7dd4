SPECIFICATION FairSpec
CONSTANTS
    hit = hit
    other = other
    late = late
    None = None
    Alerts <- MCTwo
    Waf <- MCWaf
    Overlap = 1
    GapCheckAfter = 1
    MaxAge = 3
    PageSize = 1
    MaxPages = 2
    Retentions = {4, 5}
    Slack = 1
    MaxTime = 5
PROPERTIES
    SyncEnds
CHECK_DEADLOCK FALSE
