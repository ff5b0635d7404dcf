\* Thresholds beside a maximum period, accepted or refused, and everything else a
\* server may do.
CONSTANTS
    Numeric = TRUE
    Values = {0, 1, 2, 3, 4}
    Ids = {0}
    Options <- WithThresholds
    MaxOptions = 3
    Server = {"renews", "resets", "misspells"}
    HORIZON = 4
SPECIFICATION Spec
INVARIANTS TypeOK AttributesAreValid
PROPERTIES ThresholdsDecide
\* A node nobody observes or changes may rest.
CHECK_DEADLOCK FALSE
