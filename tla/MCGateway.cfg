SPECIFICATION FairSpec
CONSTANTS
    Requests = {r1, r2}
    Statuses = {200, 503}
    Verdicts = {429, 500}
    RouterMode = TRUE
INVARIANTS TypeOK OnlyRejectsLeak DrainedIsDone PublishedIsReadable
PROPERTIES Finishes DrainCompletes
CHECK_DEADLOCK FALSE
