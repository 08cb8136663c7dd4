SPECIFICATION Spec
CONSTANTS
    r1 = r1
    r2 = r2
    block = block
    off = off
    NoFile = NoFile
    Rules <- MCRules
    Actions <- MCActions
    DefaultAction = block
    Rejected <- MCRejected
    Killing <- MCKilling
    Readings <- MCReadings
    Timely = FALSE
    MaxApplies = 2
    MaxStops = 2
INVARIANTS
    OnlyTestedLoaded
CHECK_DEADLOCK FALSE
