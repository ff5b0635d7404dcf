\* An object with three instances.
CONSTANTS
    Numeric = FALSE
    Values = {}
    Ids = {0, 1, 2}
    Options <- Distinct
    MaxOptions = 2
    Server = {"renews", "resets"}
    HORIZON = 4
SPECIFICATION Spec
INVARIANTS ChangedAreCarried ChangeIsPending
\* A node nobody observes or changes may rest.
CHECK_DEADLOCK FALSE
