SPECIFICATION AnswerSpec
CONSTANTS
    Handlers = {h1}
    Admins = {a1, a2}
    Bash = bash
    ReadFile = read
    Tools = {bash, read}
    Answers <- UpToTwo
    Kinds = {"stream", "opaque", "plain"}
    Policies <- Various
    InitialPolicy <- BlockBash
    Budget = 2
    Feeds <- AllFeeds
    Messages <- Streamed
    Originals <- Translatable
    Requests <- Bodies
INVARIANTS Shielded FollowUpExplains ReloadExact
INVARIANTS Verbatim RecordsAgree
INVARIANTS StreamKept RoundTrip
PROPERTY Ends
CHECK_DEADLOCK FALSE
