SPECIFICATION StoresSpec
CONSTANTS
    Keys = {k1, k2}
    Deltas <- MCDeltas
    TTLs = {1, 2}
    NoEntry = NoEntry
    MaxTime = 5
    MaxValue = 2
    Publishers = {p1, p2}
    Subscribers = {s1, s2}
    Cap = 1
    MaxEvents = 3
    NoOne = NoOne
    Prod = prod
    ProdEU = prodeu
    Sessions = {prod, prodeu}
    Containing <- Within
    Finished <- Three
    PageSize = 1
    MaxRows = 3
    MaxMillis = 2
    NoCursor = NoCursor
    Instances = {i1, i2}
    Columns = 3
    MaxKills = 2
    MaxFaults = 2
INVARIANTS NoSendOnClosed Delivery
INVARIANTS ListComplete SessionComplete BodiesKept
INVARIANT WholeSchema
PROPERTIES ActsEagerly NeverStuck ListEnds MigrationFails StartsServe
CHECK_DEADLOCK FALSE
