SPECIFICATION KeysSpec
CONSTANTS
    ManagedKey = {k1, k2}
    PrefixOf <- OwnPrefix
    Callers = {c1}
    Bearers = {Nobody}
    KeyIDs = {id1}
    NoID = NoID
    Models = {m1}
    Providers <- OneProvider
    DefaultURL = "upstream"
    Nobody = Nobody
INVARIANT AnnouncedWorks
