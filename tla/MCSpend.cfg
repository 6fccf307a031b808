SPECIFICATION Spec
CONSTANTS
    Gateways = {g1, g2}
    Administered = {g1}
    Workers = {w1, w2}
    Sessions = {s1, s2}
    Costs = {0, 1, 3, 5}
    Scale = 2
    MaxCharge = 2
    Configs <- Raising
    Startups <- OfTheFile
    LastDay = 2
    MaxRequests = 3
    MaxRestarts = 1
    Unreliable = TRUE
SYMMETRY Interchangeable
VIEW Seen
INVARIANTS SessionOvershoot DailyOvershoot LedgersAgree
CHECK_DEADLOCK FALSE
