SPECIFICATION Spec
CONSTANTS
    s1 = s1
    s2 = s2
    c1 = c1
    base = base
    geoip = geoip
    good = good
    bad = bad
    NoName = NoName
    NoOne = NoOne
    NoConf = NoConf
    Savers <- MCSavers
    Checkers <- MCCheckers
    Editors = TRUE
    Stops = FALSE
    Ids = {1, 2, 3, 4}
    InitRows <- MCInitRows
    Names <- MCNames
    Values <- MCValues
    Locked = {base}
    Refused <- MCRefused
    Forms <- MCForms
    PageConfs <- MCPageConfs
    MaxSaves = 2
    MaxEdits = 2
PROPERTIES
    PassedTestIsOwn
CHECK_DEADLOCK FALSE
