SPECIFICATION ConfigSpec
CONSTANTS
    Admins = {a1, a2}
    Keys = {budget}
    Entries <- Several
    NoEntry = NoEntry
    NoJob = NoJob
    File <- OneEach
    Failing = TRUE
    ManagedKey = {"k1", "k2", "k3"}
    PrefixOf <- Prefixed
    Callers = {a1, a2}
    Bearers <- WithAndWithout
    KeyIDs = {id1}
    NoID = NoID
    Models = {"m1", "m2", "m3", "m4"}
    Providers <- ThreeProviders
    DefaultURL = "upstream"
    Nobody = "nobody"
    PricedModels = {"m1", "m2"}
    Prices = {"f", "g", "o1", "o2"}
    NoPrice = NoPrice
    Catalogues <- OneCatalogue
    FileOverrides <- OfTheFile
    Asks <- Tables
    Reloaders = {a1, a2}
    AlertConfigs <- ThreeSets
    RuleNames = {"r", "q"}
    Notifiers = {"slack", "hook"}
    MaxClock = 4
    Answers <- ThreeAnswers
    TokenPrices = {1, 3}
    Micro = 2
    Cent = 4
    Zones <- EastAndWest
    DayLength = 2
    Window = 2
    SessionWindow = 2
    Limit = 1
    MaxHour = 4
    MaxAnswers = 2
SYMMETRY Interchangeable
INVARIANTS InForce AuditExplains
INVARIANTS FirstKeyOnly OwnCredential
INVARIANT OverridesPrevail
INVARIANTS CountersMatch RangesAdjoin
PROPERTY AlertsInOrder
CHECK_DEADLOCK FALSE
