SPECIFICATION Spec
CONSTANTS
    Requests = {r1}
    Statuses = {200, 503}
    Verdicts = {429, 500}
    RouterMode = FALSE
INVARIANT ExitsDrained
CHECK_DEADLOCK FALSE
