\* One server over TCP in queue mode, no reconnection loop: fair timers.
CONSTANTS
    srvA = srvA
    bs = bs
    NULL = NULL
    Servers = {srvA}
    BootstrapServers = {}
    Provisioned = srvA
    RECONNECTION_COUNT = 2
    RECONNECTION_LOOP = FALSE
    Tcp = TRUE
    ConnectionErrors = {3}
    QueueMode = TRUE
    EndpointNameFits = TRUE
    Outcomes = {"sent", "refused"}
    Lifetimes = {"granted", "none", "absent"}
SPECIFICATION FairSpec
INVARIANTS ReconnectsOnItsOwn
PROPERTIES ImplementsReconnection ReconnectionEnds
\* A client nobody calls and no server answers may stop.
CHECK_DEADLOCK FALSE
