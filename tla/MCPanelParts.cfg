SPECIFICATION MCSpec
CONSTANTS
    allowlist = allowlist
    site = site
    nonce = nonce
    c1 = c1
    c2 = c2
    alpha = alpha
    beta = beta
    p1 = p1
    task = task
    w1 = w1
    w2 = w2
    l1 = l1
    l2 = l2
    ip1 = ip1
    ip2 = ip2
    a1 = a1
    red = red
    Workers <- MCWorkers
    Names <- MCNames
    Pos <- MCPos
    Versions <- MCVersions
    SubsOf <- MCSubsOf
    PublishRequests = 3
    PublishFaults = 1
    PageWork = 3
    Nonces <- MCNonces
    RequestTtl = 3
    ResponseTtl = 1
    MaxAhead = 3
    DictSlack = 1
    PassTtl = 2
    Prefixes = 2
    Skews <- MCSkews
    PassTime = 4
    PassChanges = 1
    Alerts <- MCAlerts
    KeyOf <- MCKeyOf
    TimeOf <- MCTimeOf
    RulesOf <- MCRulesOf
    Cutoffs <- MCCutoffs
    MaxStores = 2
    MaxCleanups = 1
    Clients <- MCClients
    Lifetime = 3
    RenewBefore = 1
    Timeout = 1
    TokenTime = 5
    MaxSecrets = 3
    NoToken = NoToken
    Certs <- MCCerts
    Pages <- MCPages
    Task = task
    NoCert = NoCert
    NoRow = NoRow
    MaxEdits = 2
    MaxRenewals = 3
    IpLists <- MCIpLists
    Sourced <- MCSourced
    Ips <- MCIps
    Admins <- MCAdmins
    NoList = NoList
    NoForm = NoForm
    MaxSaves = 3
    MaxRefreshes = 1
    NServers = 3
    FirstPlace <- MCFirstPlace
    FirstParam = 1
    ServerForms <- MCServerForms
    Descrs <- MCDescrs
    NoDescr = NoDescr
    ServerRequests = 2
    ServerFaults = 1
SYMMETRY Symmetry
INVARIANTS
    PublishTypeOK
    RunsWhole
    LiveIsExpected
    BackupIsWhole
    LeftIsGenerated
    TokenPassesOnce
    NoFalseRefusal
    FirstDecides
    OneEvent
    KnownIsWhole
    AckedIsStored
    NoFalseAlarm
    NoneExpires
    EditSurvives
    FlagHasOwner
    SavedStays
    NotEmptied
    SavedIsShown
    DescrStays
    OrderIsWanted
    EditsStay
CHECK_DEADLOCK FALSE
