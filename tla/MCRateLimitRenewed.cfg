SPECIFICATION FairSpec
CONSTANTS
    Clients = {c1, c2}
    Backends = {"redis"}
    TTL = 2
    Tokens = {0, 2}
    Configs = {}
    InitialConfig <- RequestsOnly
    Saturation = 2
PROPERTY Recovers
