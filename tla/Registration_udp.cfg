\* One server over UDP, reconnection loop, every outcome of a send.
CONSTANTS
    srvA = srvA
    bs = bs
    NULL = NULL
    Servers = {srvA}
    BootstrapServers = {}
    Provisioned = srvA
    RECONNECTION_COUNT = 3
    RECONNECTION_LOOP = TRUE
    Tcp = FALSE
    ConnectionErrors = {3, 5}
    QueueMode = FALSE
    EndpointNameFits = TRUE
    Outcomes = {"sent", "refused", "unbuilt"}
    Lifetimes = {"granted", "none", "absent"}
SPECIFICATION Spec
INVARIANTS TypeOK RetryTimerArmed RetryCountMatchesReconnecting IdleIsQuiet UnregistrationCanEnd
PROPERTIES ImplementsReconnection RejectionIsFinal
\* A client nobody calls and no server answers may stop.
CHECK_DEADLOCK FALSE
