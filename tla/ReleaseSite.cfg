CONSTANTS
    MaxPipes = 2
    MaxRetries = 1
    Flaky = {}
SPECIFICATION Spec
INVARIANT LatestOnSite
CHECK_DEADLOCK FALSE
