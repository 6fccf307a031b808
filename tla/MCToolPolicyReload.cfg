SPECIFICATION Spec
CONSTANTS
    Handlers = {h1}
    Admins = {a1}
    Bash = bash
    ReadFile = read
    Tools = {bash, read}
    Answers <- UpToTwo
    Kinds = {"stream"}
    Policies <- Strict
    InitialPolicy <- BlockBash
    Budget = 2
INVARIANT AlwaysBlockedNeverSeen
CHECK_DEADLOCK FALSE
