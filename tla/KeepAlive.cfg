\* A reconnection by registration update.
CONSTANTS
    srvA = srvA
    bs = bs
    NULL = NULL
    Servers = {srvA}
    BootstrapServers = {}
    Provisioned = srvA
    RECONNECTION_COUNT = 2
    RECONNECTION_LOOP = FALSE
    Tcp = FALSE
    ConnectionErrors = {3}
    QueueMode = FALSE
    EndpointNameFits = TRUE
    Outcomes = {"sent"}
    Lifetimes = {"granted"}
SPECIFICATION Spec
PROPERTIES RegistrationIsKeptAlive
\* A client nobody calls and no server answers may stop.
CHECK_DEADLOCK FALSE
