SPECIFICATION FairSpec
CONSTANTS
    r1 = r1
    r2 = r2
    block = block
    off = off
    NoFile = NoFile
    Rules <- MCRules
    Actions <- MCActions
    DefaultAction = block
    Rejected <- MCRejected
    Killing <- MCKilling
    Readings <- MCReadings
    Timely = TRUE
    MaxApplies = 2
    MaxStops = 2
INVARIANTS
    TypeOK
    IdOrder
    OnlyTestedLoaded
    LastGoodIsLoaded
PROPERTIES
    OkNotOlder
    KeepsPromise
    KeepsServing
CHECK_DEADLOCK FALSE
