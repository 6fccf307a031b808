SPECIFICATION FairSpec
CONSTANTS
    Clients = {c1, c2}
    Backends = {"memory", "redis"}
    TTL = 2
    Tokens = {0, 1}
    Configs <- Limits
    InitialConfig <- TwoPerMinute
    Saturation = 4
INVARIANTS TwiceTheLimit SlidingWindow TokenOvershoot
PROPERTY MemoryRecovers
