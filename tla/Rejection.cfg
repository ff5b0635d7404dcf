\* An attempt that fails, then one the server rejects.
CONSTANTS
    srvA = srvA
    bs = bs
    NULL = NULL
    Servers = {srvA}
    BootstrapServers = {}
    Provisioned = srvA
    RECONNECTION_COUNT = 2
    RECONNECTION_LOOP = TRUE
    Tcp = FALSE
    ConnectionErrors = {3}
    QueueMode = FALSE
    EndpointNameFits = TRUE
    Outcomes = {"sent"}
    Lifetimes = {"granted"}
SPECIFICATION Spec
INVARIANTS RejectionIsNotRetried
\* A client nobody calls and no server answers may stop.
CHECK_DEADLOCK FALSE
