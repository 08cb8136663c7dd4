SPECIFICATION Spec
CONSTANTS
    t1 = t1
    t2 = t2
    i1 = i1
    i2 = i2
    as1 = as1
    as2 = as2
    net1 = net1
    net2 = net2
    Threads <- MCThreads
    Ids <- MCIds
    Asns <- MCAsns
    Ranges <- MCRanges
    PageSize = 1
    MaxPages = 3
    MaxRequests = 5
    MaxBans = 3
    MaxFaults = 1
INVARIANTS
    TypeOK
    RevokedMeansGone
    ActiveMeansBanned
    PushIsConcluded
SYMMETRY Symmetry
CHECK_DEADLOCK FALSE
