SPECIFICATION Spec
CONSTANTS
    Requests = {r1}
    Statuses = {200, 503}
    Verdicts = {429, 500}
    RouterMode = TRUE
INVARIANT InFlightCounted
CHECK_DEADLOCK FALSE
