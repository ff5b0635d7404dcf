\* A numeric resource with distinct periods: fair timers.
CONSTANTS
    Numeric = TRUE
    Values = {1, 2, 3}
    Ids = {0}
    Options <- Distinct
    MaxOptions = 2
    Server = {"misspells"}
    HORIZON = 4
SPECIFICATION FairSpec
INVARIANTS HeartbeatIsArmed ChangeIsPending MaximumPeriod
PROPERTIES MinimumPeriod ChangeIsTold
\* A node nobody observes or changes may rest.
CHECK_DEADLOCK FALSE
