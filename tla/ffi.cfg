SPECIFICATION FairSpec
CONSTANTS
    Requests = {r1, r2}
    Queries = {q1}
    Setters = {s1}
    Overlap = FALSE
CHECK_DEADLOCK FALSE
INVARIANTS
    NoWorkerAfterDestroy
    NoCallbackAfterDestroy
PROPERTIES
    DestroyReturns
    BackgroundEnds
