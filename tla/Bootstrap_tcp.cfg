\* A bootstrap server and the server it provisions, over TCP: fair timers.
CONSTANTS
    srvA = srvA
    bs = bs
    NULL = NULL
    Servers = {srvA}
    BootstrapServers = {bs}
    Provisioned = srvA
    RECONNECTION_COUNT = 1
    RECONNECTION_LOOP = FALSE
    Tcp = TRUE
    ConnectionErrors = {3}
    QueueMode = FALSE
    EndpointNameFits = TRUE
    Outcomes = {"sent", "refused"}
    Lifetimes = {"granted"}
SPECIFICATION FairSpec
INVARIANTS NeverStalls BootstrapDoneIsComplete
PROPERTIES OwedIsTold
\* A client nobody calls and no server answers may stop.
CHECK_DEADLOCK FALSE
