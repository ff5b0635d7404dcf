-------------------------- MODULE M2MInterfaceImpl --------------------------
(***************************************************************************)
(* The connection state machine of mbed Client: class M2MInterfaceImpl     *)
(* (source/m2minterfaceimpl.cpp) together with the registration half of    *)
(* M2MNsdlInterface (source/m2mnsdlinterface.cpp) it calls synchronously.  *)
(*                                                                         *)
(* Every entry point of the class runs to completion before the next one   *)
(* starts: an application call, a callback of M2MConnectionHandler, the    *)
(* expiry of an M2MTimer.  Each is one action.  Inside an entry point the  *)
(* code is a sequence of calls that nest state_engine() in internal_event; *)
(* that sequence is modelled by operators from client states to client     *)
(* states, applied in the order of the calls, so the whole client is one   *)
(* record-valued variable.                                                 *)
(*                                                                         *)
(* The states SENDING_COAP_DATA, COAP_DATA_SENT, COAP_DATA_RECEIVED,       *)
(* PROCESSING_COAP_DATA and COAP_DATA_PROCESSED do nothing but raise       *)
(* STATE_WAITING, UNREGISTERED does nothing but raise STATE_IDLE: no entry *)
(* point returns in one of them, and they are passed through in one step.  *)
(***************************************************************************)
EXTENDS Naturals, FiniteSets

CONSTANTS
    Servers,            \* M2MSecurity objects of type M2MServer with a usable URI
    BootstrapServers,   \* M2MSecurity objects of type Bootstrap with a usable URI
    Provisioned,        \* the M2MServer object a bootstrap server fills in
    NULL,
    RECONNECTION_COUNT, \* MBED_CLIENT_RECONNECTION_COUNT
    RECONNECTION_LOOP,  \* MBED_CLIENT_RECONNECTION_LOOP > 0
    Tcp,                \* binding mode TCP or TCP_QUEUE: a flow timer exists
    ConnectionErrors,   \* the codes the connection handler reports
    QueueMode,          \* a *_QUEUE binding mode with a sleep handler installed
    EndpointNameFits,   \* endpoint name and domain fit in MAX_PATH_SIZE
    Outcomes,           \* what may become of a message: see AllOutcomes
    Lifetimes           \* what a registration response says: see AllLifetimes

\* What becomes of a message given to the nsdl library: handed to the socket,
\* refused by send_data(), or never built (the library returns 0).
AllOutcomes == {"sent", "refused", "unbuilt"}

\* The lifetime in the response to a registration: a positive Max-Age, a zero one,
\* or a response without options.
AllLifetimes == {"granted", "none", "absent"}

Securities == Servers \cup BootstrapServers

ASSUME ConstantsAssumption ==
    /\ Provisioned \in Servers
    /\ Servers \cap BootstrapServers = {}
    /\ NULL \notin Securities
    /\ RECONNECTION_COUNT \in Nat \ {0}
    /\ RECONNECTION_LOOP \in BOOLEAN
    /\ Tcp \in BOOLEAN
    /\ ConnectionErrors \subseteq 1..6
    /\ QueueMode \in BOOLEAN
    /\ EndpointNameFits \in BOOLEAN
    /\ Outcomes \subseteq AllOutcomes
    /\ Lifetimes \subseteq AllLifetimes

States == {"IDLE", "BOOTSTRAP", "BOOTSTRAP_ADDRESS_RESOLVED",
           "BOOTSTRAP_RESOURCE_CREATED", "BOOTSTRAP_WAIT", "BOOTSTRAPPED",
           "REGISTER", "REGISTER_ADDRESS_RESOLVED", "REGISTERED",
           "UPDATE_REGISTRATION", "WAITING"}

\* _registration_flow_timer is one timer started with one of two types.
FlowTimers == {"BootstrapFlow", "RegistrationFlow"}
Timers == FlowTimers \cup {"Retry", "QueueSleep", "Registration", "NsdlExecution"}

\* The requests whose message id the nsdl library remembers.
Requests == {"register", "update", "unregister", "bootstrap"}

Errors == {"InvalidParameters", "NotRegistered", "NetworkError",
           "SecureConnectionFailed", "DnsResolvingFailed", "UnregisterFailed"}
Callbacks == Errors \cup {"bootstrap_done", "object_registered",
                          "registration_updated", "object_unregistered"}

VARIABLE client

(***************************************************************************)
(* client.told and client.owed are history: the observer callbacks of the  *)
(* last step, and whether the application is still owed the outcome of a   *)
(* bootstrap, a registration or an automatic reconnection.  client.ended   *)
(* is history too: the registration was rejected or removed, and since     *)
(* then the application has called nothing, no datagram has arrived and no *)
(* connection has failed.                                                  *)
(***************************************************************************)
ClientState ==
    [current_state       : States,
     retry_count         : 0..RECONNECTION_COUNT,
     reconnecting        : BOOLEAN,
     retry_timer_expired : BOOLEAN,
     bootstrapped        : BOOLEAN,
     reconnection_state  : {"None", "WithUpdate", "FullRegistration"},
     security            : Securities \cup {NULL},
     server_address      : Securities \cup {NULL},
     timers              : SUBSET Timers,
     lifetime            : BOOLEAN,
     unregister_ongoing  : BOOLEAN,
     bootstrap_id        : BOOLEAN,
     identity_accepted   : BOOLEAN,
     nsdl_security       : {"none", "incomplete", "complete"},
     ep_registered       : BOOLEAN,
     outstanding         : SUBSET Requests,
     connection          : {"closed", "resolving", "open"},
     server_type         : {"Bootstrap", "LWM2MServer"},
     told                : Callbacks \cup {"nothing"},
     owed                : BOOLEAN,
     ended               : {"no", "rejected", "unregistered"}]

Init ==
    client = [current_state       |-> "IDLE",
              retry_count         |-> 0,
              reconnecting        |-> FALSE,
              retry_timer_expired |-> FALSE,
              bootstrapped        |-> TRUE,
              reconnection_state  |-> "None",
              security            |-> NULL,
              server_address      |-> NULL,
              timers              |-> {},
              lifetime            |-> TRUE,
              unregister_ongoing  |-> FALSE,
              bootstrap_id        |-> FALSE,
              identity_accepted   |-> FALSE,
              nsdl_security       |-> "none",
              ep_registered       |-> FALSE,
              outstanding         |-> {},
              connection          |-> "closed",
              server_type         |-> "LWM2MServer",
              told                |-> "nothing",
              owed                |-> FALSE,
              ended               |-> "no"]

-----------------------------------------------------------------------------
(***************************************************************************)
(* Callbacks to the application, timers, and the states without a body of  *)
(* their own.                                                              *)
(***************************************************************************)

\* A callback that concludes the operation in progress.  The error() of a call
\* that is refused (NotAllowed, a NULL object, a lifetime out of range) and of
\* a datagram that cannot be parsed does not: it is not recorded.
Tell(c, callback) == [c EXCEPT !.told = callback, !.owed = FALSE]

\* Start of an entry point: nothing told yet in this step.
Fresh(c) == [c EXCEPT !.told = "nothing"]

StartFlowTimer(c, type) ==
    IF Tcp THEN [c EXCEPT !.timers = (@ \ FlowTimers) \cup {type}] ELSE c

StopFlowTimer(c) == [c EXCEPT !.timers = @ \ FlowTimers]

\* Mutants of StateIdle: the retry timer is stopped too; the registration timer
\* is not; a pending unregistration is not forgotten.
StateIdle_StopsRetry(c) ==
    [c EXCEPT !.current_state      = "IDLE",
              !.timers             = @ \ {"Registration", "NsdlExecution", "Retry"},
              !.bootstrap_id       = FALSE,
              !.unregister_ongoing = FALSE]
StateIdle_KeepsRegistrationTimer(c) ==
    [c EXCEPT !.current_state      = "IDLE",
              !.timers             = @ \ {"NsdlExecution"},
              !.bootstrap_id       = FALSE,
              !.unregister_ongoing = FALSE]
StateIdle_KeepsUnregistration(c) ==
    [c EXCEPT !.current_state      = "IDLE",
              !.timers             = @ \ {"Registration", "NsdlExecution"},
              !.bootstrap_id       = FALSE]

\* internal_event(STATE_IDLE): state_idle() calls M2MNsdlInterface::stop_timers().
StateIdle(c) ==
    [c EXCEPT !.current_state      = "IDLE",
              !.timers             = @ \ {"Registration", "NsdlExecution"},
              !.bootstrap_id       = FALSE,
              !.unregister_ongoing = FALSE]

StateWaiting(c) == [c EXCEPT !.current_state = "WAITING"]

\* Mutant: success does not start the count again.
StateRegistered_KeepsCount(c) ==
    [c EXCEPT !.current_state      = "REGISTERED",
              !.reconnecting       = FALSE,
              !.reconnection_state = "None"]

StateRegistered(c) ==
    [c EXCEPT !.current_state      = "REGISTERED",
              !.retry_count        = 0,
              !.reconnecting       = FALSE,
              !.reconnection_state = "None"]

StateIdleWithError(c, error) == Tell(StateIdle(c), error)

ResolveServerAddress(c, type) ==
    [c EXCEPT !.connection = "resolving", !.server_type = type]

-----------------------------------------------------------------------------
(***************************************************************************)
(* Sending: M2MNsdlInterface builds a message, the library calls           *)
(* send_to_server_callback(), which calls coap_message_ready().            *)
(***************************************************************************)

\* Nothing leaves an idle client; an error while reconnecting is not reported.
CoapMessageReady(c, outcome) ==
    IF c.current_state = "IDLE" THEN c
    ELSE IF outcome = "sent" THEN StateWaiting(c)
    ELSE IF c.reconnecting THEN StateIdle(c)
    ELSE StateIdleWithError(c, "NetworkError")

\* A response, or no message at all.
Respond(c, outcome) == IF outcome = "unbuilt" THEN c ELSE CoapMessageReady(c, outcome)

\* A request of the nsdl library: once sent, an answer to it is possible.
SendRequest(c, request, outcome) ==
    LET responded == Respond(c, outcome)
    IN  IF outcome = "sent" /\ c.current_state # "IDLE"
        THEN [responded EXCEPT !.outstanding = @ \cup {request}] ELSE responded

\* send_register_message() and the error path both of its callers share.
SendRegisterMessage(c, outcome) ==
    LET started == [c EXCEPT !.timers = @ \cup {"NsdlExecution"}]
    IN  IF outcome = "unbuilt"
        THEN StateIdleWithError(started, "InvalidParameters")
        ELSE SendRequest(started, "register", outcome)

\* The library updates and removes only a registration it knows of.
RequestOutcome(c, outcome) == IF c.ep_registered THEN outcome ELSE "unbuilt"

SendUpdateRegistration(c, lifetime, outcome) ==
    LET renewed == [c EXCEPT !.lifetime = TRUE,
                             !.timers   = @ \cup {"Registration"}]
    IN  SendRequest(IF lifetime = "keep" THEN c ELSE renewed,
                    "update", RequestOutcome(c, outcome))

StateUpdateRegistration(c, lifetime, outcome) ==
    LET updated == SendUpdateRegistration(
                       [c EXCEPT !.current_state = "UPDATE_REGISTRATION"],
                       lifetime, outcome)
    IN  IF /\ RequestOutcome(c, outcome) = "unbuilt"
           /\ c.reconnection_state = "WithUpdate"
        THEN SendRegisterMessage(
                 [updated EXCEPT !.reconnection_state = "FullRegistration"],
                 outcome)
        ELSE updated

\* state_unregister() and send_unregister_message().
StateUnregister(c, outcome) ==
    LET waiting == StateWaiting(c)
        ongoing == [waiting EXCEPT !.unregister_ongoing = TRUE]
    IN  IF c.unregister_ongoing THEN waiting
        ELSE IF RequestOutcome(c, outcome) = "unbuilt"
             THEN StateIdleWithError(ongoing, "NotRegistered")
             ELSE SendRequest(ongoing, "unregister", outcome)

-----------------------------------------------------------------------------
(***************************************************************************)
(* Connecting.  The first attempt adopts the object of the event; once     *)
(* _security is set every attempt, whoever asked for it, goes back to the  *)
(* address resolved for it.                                                *)
(***************************************************************************)
\* Mutant: no flow timer guards the attempt.
Connect_Unguarded(c, flow, type) == ResolveServerAddress(c, type)

Connect(c, flow, type) == ResolveServerAddress(StartFlowTimer(c, flow), type)

\* state_register(); object is NULL when the retry timer raised the event.
StateRegister(c, object, listCreated) ==
    LET entered == [c EXCEPT !.current_state = "REGISTER"]
        adopted == [entered EXCEPT !.security = object]
    IN  IF c.security # NULL
        THEN Connect(entered, "RegistrationFlow", "LWM2MServer")
        ELSE IF object \in Servers /\ listCreated
        THEN Connect([adopted EXCEPT !.server_address = object],
                     "RegistrationFlow", "LWM2MServer")
        ELSE StateIdleWithError(adopted, "InvalidParameters")

\* state_bootstrap()
StateBootstrap(c, object) ==
    LET entered == [c EXCEPT !.current_state = "BOOTSTRAP", !.bootstrapped = FALSE]
        adopted == [entered EXCEPT !.security = object]
    IN  IF c.security # NULL
        THEN Connect(entered, "BootstrapFlow", "Bootstrap")
        ELSE IF object \in BootstrapServers
        THEN Connect([adopted EXCEPT !.server_address = object],
                     "BootstrapFlow", "Bootstrap")
        ELSE StateIdleWithError(adopted, "InvalidParameters")

\* state_register_address_resolved()
StateRegisterAddressResolved(c, outcome) ==
    LET listening == [c EXCEPT !.current_state = "REGISTER_ADDRESS_RESOLVED",
                               !.connection    = "open"]
    IN  IF c.reconnection_state = "WithUpdate"
        THEN StateUpdateRegistration(listening, "keep", outcome)
        ELSE SendRegisterMessage(listening, outcome)

\* state_bootstrap_address_resolved() and create_bootstrap_resource()
StateBootstrapAddressResolved(c, outcome) ==
    LET listening == [c EXCEPT !.current_state = "BOOTSTRAP_ADDRESS_RESOLVED",
                               !.connection    = "open"]
        anonymous == [listening EXCEPT !.identity_accepted = FALSE]
    IN  IF ~EndpointNameFits THEN Tell(listening, "InvalidParameters")
        ELSE IF c.bootstrap_id \/ outcome = "unbuilt"
        THEN StateIdleWithError(anonymous, "InvalidParameters")
        ELSE [SendRequest(anonymous, "bootstrap", outcome) EXCEPT
                  !.bootstrap_id  = TRUE,
                  !.current_state = "BOOTSTRAP_RESOURCE_CREATED"]

-----------------------------------------------------------------------------
(***************************************************************************)
(* Failing: socket_error() and its callers.                                *)
(***************************************************************************)

\* M2MConnectionHandler::ConnectionError, and what socket_error() makes of it.
SOCKET_SEND_ERROR == 3
ErrorOf(code) ==
    CASE code \in {1, 6} -> "SecureConnectionFailed"
      [] code = 5        -> "DnsResolvingFailed"
      [] OTHER           -> "NetworkError"

\* M2MInterface::BootstrapFailed, passed to socket_error() as an error code.
BootstrapFailed == 2

\* Mutants: the count is not bounded; running out of attempts is not told.
ScheduleRetry_Unbounded(c, code) ==
    [StateIdle(c) EXCEPT !.retry_count         = @ + 1,
                         !.reconnecting        = TRUE,
                         !.connection          = "closed",
                         !.retry_timer_expired = FALSE,
                         !.timers              = @ \cup {"Retry"},
                         !.owed                = TRUE]
ScheduleRetry_Silent(c, code) ==
    [StateIdle(c) EXCEPT
        !.retry_count         = IF @ < RECONNECTION_COUNT THEN @ + 1 ELSE 1,
        !.reconnecting        = TRUE,
        !.connection          = "closed",
        !.retry_timer_expired = FALSE,
        !.timers              = @ \cup {"Retry"},
        !.owed                = TRUE]

\* One more automatic attempt; past the last one the count starts again.
ScheduleRetry(c, code) ==
    LET counted == IF c.retry_count < RECONNECTION_COUNT
                   THEN [c EXCEPT !.retry_count = @ + 1]
                   ELSE Tell([c EXCEPT !.retry_count = 1], ErrorOf(code))
    IN  [StateIdle(counted) EXCEPT !.reconnecting        = TRUE,
                                   !.connection          = "closed",
                                   !.retry_timer_expired = FALSE,
                                   !.timers              = @ \cup {"Retry"},
                                   !.owed                = TRUE]

\* Mutant: giving up does not start the count again.
GiveUp_KeepsCount(c, code) ==
    StateIdleWithError([c EXCEPT !.connection         = "closed",
                                 !.timers             = @ \ {"Retry"},
                                 !.reconnecting       = FALSE,
                                 !.reconnection_state = "None"],
                       ErrorOf(code))

GiveUp(c, code) ==
    StateIdleWithError([c EXCEPT !.connection         = "closed",
                                 !.timers             = @ \ {"Retry"},
                                 !.retry_count        = 0,
                                 !.reconnecting       = FALSE,
                                 !.reconnection_state = "None"],
                       ErrorOf(code))

\* Mutant: one attempt too many is allowed for.
SocketError_OffByOne(c, code, retry) ==
    LET updating == [c EXCEPT !.reconnection_state = "WithUpdate"]
    IN  IF /\ ~RECONNECTION_LOOP
           /\ ~c.retry_timer_expired
           /\ c.reconnecting
        THEN updating
        ELSE IF retry /\ (RECONNECTION_LOOP \/ c.retry_count <= RECONNECTION_COUNT)
        THEN ScheduleRetry(updating, code)
        ELSE GiveUp(updating, code)

\* Without the loop, an error while the retry timer runs is dropped.
SocketError(c, code, retry) ==
    LET updating == [c EXCEPT !.reconnection_state = "WithUpdate"]
    IN  IF /\ ~RECONNECTION_LOOP
           /\ ~c.retry_timer_expired
           /\ c.reconnecting
        THEN updating
        ELSE IF retry /\ (RECONNECTION_LOOP \/ c.retry_count < RECONNECTION_COUNT)
        THEN ScheduleRetry(updating, code)
        ELSE GiveUp(updating, code)

\* registration_error(..., retry = true): full registration, decided last.
RetryRegistration(c) ==
    [SocketError(c, SOCKET_SEND_ERROR, TRUE) EXCEPT
        !.reconnection_state = "FullRegistration"]

BootstrapError(c) ==
    SocketError(StopFlowTimer([c EXCEPT !.bootstrapped = FALSE]),
                BootstrapFailed, TRUE)

HandleBootstrapError(c) ==
    BootstrapError([c EXCEPT !.identity_accepted = FALSE,
                             !.nsdl_security     = "none"])

\* Any other end of a request than the success code: an error response, or the
\* library giving up its retransmissions.  A failed unregistration is told with
\* the error interface_error() makes of the response: "UnregisterFailed" here.
RequestFailed(c, request, outcome) ==
    LET answered == [c EXCEPT !.outstanding = @ \ {request}]
    IN  CASE request = "register"   -> RetryRegistration(answered)
          [] request = "unregister" ->
                 StateIdleWithError([answered EXCEPT !.unregister_ongoing = FALSE],
                                    "UnregisterFailed")
          [] request = "update"     ->
                 SendRequest([answered EXCEPT !.timers = @ \ {"Registration"}],
                             "register", outcome)
          [] request = "bootstrap"  ->
                 HandleBootstrapError([answered EXCEPT !.bootstrap_id = FALSE])

-----------------------------------------------------------------------------
(***************************************************************************)
(* Calls of the application (M2MInterface).  A call the transition map     *)
(* refuses is answered with NotAllowed; the members assigned before the    *)
(* map is consulted keep their new value all the same.                     *)
(***************************************************************************)
Accepted(c) == [c EXCEPT !.ended = "no"]
Promised(c) == [Accepted(c) EXCEPT !.owed = TRUE]

Bootstrap(object) ==
    LET c == Fresh(client)
    IN  client' = IF object = NULL \/ c.current_state # "IDLE" THEN c
                  ELSE StateBootstrap(Promised(c), object)

RegisterObject(object, listCreated) ==
    LET c == Fresh(client)
    IN  client' =
            IF \/ object = NULL
               \/ c.current_state \notin {"IDLE", "BOOTSTRAPPED", "REGISTERED", "WAITING"}
            THEN c
            ELSE StateRegister(Promised(c), object, listCreated)

\* A new lifetime that is too short is reported, and used.  From IDLE the event is
\* read as an M2MRegisterData, which it is not: whether the list found there
\* is usable is left open.
UpdateRegistration(object, lifetime, listCreated, outcome) ==
    LET c       == Fresh(client)
        begun   == [c EXCEPT !.reconnection_state = "WithUpdate"]
    IN  client' =
            IF c.reconnecting THEN c
            ELSE IF c.current_state = "IDLE"
                 THEN StateRegister(Promised(begun), object, listCreated)
            ELSE IF c.current_state \in {"REGISTERED", "WAITING"}
                 THEN StateUpdateRegistration(Accepted(begun), lifetime, outcome)
            ELSE begun

UnregisterObject(outcome) ==
    LET c == Fresh(client)
    IN  client' =
            IF c.current_state \in {"REGISTERED", "UPDATE_REGISTRATION", "WAITING"}
            THEN StateUnregister(Accepted(c), outcome)
            ELSE c

Application ==
    \/ \E object \in Securities \cup {NULL} : Bootstrap(object)
    \/ \E object \in Securities \cup {NULL}, listCreated \in BOOLEAN :
           RegisterObject(object, listCreated)
    \/ \E object \in Securities \cup {NULL}, listCreated \in BOOLEAN,
          lifetime \in {"keep", "new"}, outcome \in Outcomes :
           UpdateRegistration(object, lifetime, listCreated, outcome)
    \/ \E outcome \in Outcomes : UnregisterObject(outcome)

-----------------------------------------------------------------------------
(***************************************************************************)
(* Callbacks of the connection handler.                                    *)
(***************************************************************************)
\* An address that was never set, the empty string, does not resolve.
AddressReady(outcome) ==
    /\ client.connection = "resolving"
    /\ client.server_address # NULL
    /\ client' = IF client.server_type = "Bootstrap"
                 THEN StateBootstrapAddressResolved(Fresh(client), outcome)
                 ELSE StateRegisterAddressResolved(Fresh(client), outcome)

\* socket_error() as the connection handler calls it, once it has been asked to
\* resolve an address, be it the empty one; it may report an error it had queued
\* before it was told to stop.
ConnectionFails(code, retry) ==
    /\ client.server_address # NULL \/ client.connection = "resolving"
    /\ client' = SocketError(Accepted(Fresh(client)), code, retry)

\* bootstrap_done() hands _security over to the application.
BootstrapDone(c) ==
    Tell(StopFlowTimer([c EXCEPT !.security           = NULL,
                                 !.retry_count        = 0,
                                 !.reconnecting       = FALSE,
                                 !.reconnection_state = "None",
                                 !.bootstrapped       = TRUE,
                                 !.current_state      = "BOOTSTRAPPED"]),
         "bootstrap_done")

DataSent ==
    LET c      == Fresh(client)
        awake  == IF QueueMode
                  THEN [c EXCEPT !.timers = @ \cup {"QueueSleep"}] ELSE c
    IN  /\ client.connection = "open"
        /\ client' = IF c.current_state = "BOOTSTRAP_WAIT"
                     THEN BootstrapDone(awake) ELSE StateWaiting(awake)

Network ==
    \/ \E outcome \in Outcomes : AddressReady(outcome)
    \/ \E code \in ConnectionErrors, retry \in BOOLEAN : ConnectionFails(code, retry)
    \/ DataSent

-----------------------------------------------------------------------------
(***************************************************************************)
(* data_available(): the datagram is parsed by the nsdl library, which     *)
(* calls received_from_server_callback() or resource_callback(); both      *)
(* begin with coap_data_processed().                                       *)
(***************************************************************************)
Received(c) == StateWaiting(Accepted(Fresh(c)))

DataAvailable == client.connection = "open"

DataUnparsable ==
    /\ DataAvailable
    /\ client' = Received(client)

Awaited(request) == DataAvailable /\ request \in client.outstanding

Answered(c, request) == [Received(c) EXCEPT !.outstanding = @ \ {request}]

\* client_registered(), then the lifetime of the response and its timer.
ObjectRegistered(lifetime) ==
    LET c          == [Answered(client, "register") EXCEPT !.ep_registered = TRUE]
        registered == Tell(StateRegistered(StopFlowTimer(c)), "object_registered")
        known      == lifetime = "granted" \/ (lifetime = "absent" /\ c.lifetime)
    IN  /\ Awaited("register")
        /\ client' = [registered EXCEPT
                          !.lifetime = known,
                          !.timers   = IF known THEN @ \cup {"Registration"} ELSE @]

\* Mutant: rejected data is sent again.
RegistrationRejected_Retries ==
    /\ Awaited("register")
    /\ client' = [RetryRegistration(Answered(client, "register")) EXCEPT !.ended = "rejected"]

RegistrationRejected ==
    /\ Awaited("register")
    /\ client' = [StateIdleWithError(Answered(client, "register"),
                                     "InvalidParameters")
                  EXCEPT !.ended = "rejected"]

RegistrationUpdated ==
    /\ Awaited("update")
    /\ client' = Tell(StateRegistered(Answered(client, "update")),
                      "registration_updated")

ObjectUnregistered ==
    /\ Awaited("unregister")
    /\ client' = [Tell(StateIdle(Answered(client, "unregister")),
                       "object_unregistered")
                  EXCEPT !.timers        = @ \ {"Registration"},
                         !.ep_registered = FALSE,
                         !.ended         = "unregistered"]

\* Mutant: the bootstrap is taken for done when the server accepts the client.
IdentityAccepted_StopsFlowTimer ==
    /\ Awaited("bootstrap")
    /\ client' = [StopFlowTimer(Answered(client, "bootstrap")) EXCEPT
                      !.bootstrap_id = FALSE, !.identity_accepted = TRUE]

IdentityAccepted ==
    /\ Awaited("bootstrap")
    /\ client' = [Answered(client, "bootstrap") EXCEPT
                      !.bootstrap_id = FALSE, !.identity_accepted = TRUE]

ErrorResponse(request, outcome) ==
    /\ Awaited(request)
    /\ client' = RequestFailed(Received(client), request, outcome)

\* A request for a resource, a reset or an empty acknowledgement.
ResourceRequest(outcome) ==
    /\ DataAvailable
    /\ client' = Respond(Received(client), outcome)

\* A POST that creates an object instance publishes it before the response.
InstanceCreated(update, response) ==
    /\ DataAvailable
    /\ client' = Respond(SendUpdateRegistration(Received(client), "keep", update),
                         response)

Server ==
    \/ DataUnparsable
    \/ \E lifetime \in Lifetimes : ObjectRegistered(lifetime)
    \/ RegistrationRejected
    \/ RegistrationUpdated
    \/ ObjectUnregistered
    \/ IdentityAccepted
    \/ \E request \in Requests, outcome \in Outcomes : ErrorResponse(request, outcome)
    \/ \E outcome \in Outcomes : ResourceRequest(outcome)
    \/ \E update, response \in Outcomes : InstanceCreated(update, response)

-----------------------------------------------------------------------------
(***************************************************************************)
(* Requests of the bootstrap server.                                       *)
(***************************************************************************)
FromBootstrapServer ==
    /\ DataAvailable
    /\ client.server_type = "Bootstrap"
    /\ client.server_address \in BootstrapServers

\* handle_bootstrap_put_message(): content is what the security object holds
\* afterwards, or "bad"; a failure is handled before it is answered.
BootstrapPut(content, ack, response) ==
    LET acknowledged == Respond(Received(client), ack)
        stored       == IF content = "bad" THEN HandleBootstrapError(acknowledged)
                        ELSE [acknowledged EXCEPT !.nsdl_security = content]
    IN  /\ FromBootstrapServer
        /\ client' = Respond(stored, response)

\* handle_bootstrap_delete()
BootstrapDelete(pathAccepted, response) ==
    LET c         == Received(client)
        responded == Respond(c, response)
        cleared   == IF response = "unbuilt" \/ c.nsdl_security = "none"
                     THEN responded
                     ELSE [responded EXCEPT !.nsdl_security = "incomplete"]
    IN  /\ FromBootstrapServer
        /\ client' = IF pathAccepted /\ c.identity_accepted /\ response # "unbuilt"
                     THEN cleared ELSE HandleBootstrapError(cleared)

\* Mutant: what the server has written is not checked.
BootstrapFinished_Unchecked(pathAccepted, response) ==
    LET responded == Respond(Received(client), response)
    IN  /\ FromBootstrapServer
        /\ client' = IF pathAccepted
                     THEN [responded EXCEPT !.security      = Provisioned,
                                            !.current_state = "BOOTSTRAP_WAIT"]
                     ELSE HandleBootstrapError(responded)

\* handle_bootstrap_finished() and bootstrap_wait()
BootstrapFinished(pathAccepted, response) ==
    LET responded == Respond(Received(client), response)
    IN  /\ FromBootstrapServer
        /\ client' = IF pathAccepted /\ client.nsdl_security = "complete"
                     THEN [responded EXCEPT !.security      = Provisioned,
                                            !.current_state = "BOOTSTRAP_WAIT"]
                     ELSE HandleBootstrapError(responded)

BootstrapServer ==
    \/ \E content \in {"bad", "incomplete", "complete"},
          ack, response \in Outcomes : BootstrapPut(content, ack, response)
    \/ \E pathAccepted \in BOOLEAN, response \in Outcomes :
           BootstrapDelete(pathAccepted, response)
    \/ \E pathAccepted \in BOOLEAN, response \in Outcomes :
           BootstrapFinished(pathAccepted, response)

-----------------------------------------------------------------------------
(***************************************************************************)
(* Timers.  The registration and the nsdl execution timer are periodic,    *)
(* the others fire once.                                                   *)
(***************************************************************************)
Expired(timer) == [Fresh(client) EXCEPT !.timers = @ \ {timer}]

RetryTimerExpired ==
    LET c == [Expired("Retry") EXCEPT !.retry_timer_expired = TRUE]
    IN  /\ "Retry" \in client.timers
        /\ client' = IF c.bootstrapped THEN StateRegister(c, NULL, FALSE)
                     ELSE StateBootstrap(c, NULL)

BootstrapFlowTimerExpired ==
    /\ "BootstrapFlow" \in client.timers
    /\ client' = BootstrapError(Expired("BootstrapFlow"))

RegistrationFlowTimerExpired ==
    /\ "RegistrationFlow" \in client.timers
    /\ client' = RetryRegistration(Expired("RegistrationFlow"))

QueueSleepTimerExpired ==
    /\ "QueueSleep" \in client.timers
    /\ client' = Expired("QueueSleep")

RegistrationTimerExpired(outcome) ==
    /\ "Registration" \in client.timers
    /\ client' = SendUpdateRegistration(Fresh(client), "keep", outcome)

\* sn_nsdl_exec(): a request has been retransmitted as often as allowed, and
\* the library hands its failure to received_from_server_callback().
NsdlExecutionTimerExpired(request, outcome) ==
    /\ "NsdlExecution" \in client.timers
    /\ request \in client.outstanding
    /\ client' = RequestFailed(Received(client), request, outcome)

Timer ==
    \/ RetryTimerExpired
    \/ BootstrapFlowTimerExpired
    \/ RegistrationFlowTimerExpired
    \/ QueueSleepTimerExpired
    \/ \E outcome \in Outcomes : RegistrationTimerExpired(outcome)
    \/ \E request \in Requests, outcome \in Outcomes :
           NsdlExecutionTimerExpired(request, outcome)

-----------------------------------------------------------------------------
Next == Application \/ Network \/ Server \/ BootstrapServer \/ Timer

Spec == Init /\ [][Next]_client

\* A timer that is armed and not stopped fires.
FairSpec ==
    /\ Spec
    /\ WF_client(RetryTimerExpired)
    /\ WF_client(BootstrapFlowTimerExpired)
    /\ WF_client(RegistrationFlowTimerExpired)

-----------------------------------------------------------------------------
\* Every member keeps a value its C++ type and its enumerations allow.
TypeOK == client \in ClientState

\* A client that is reconnecting and whose retry timer has not fired since the
\* failure has that timer armed (socket_error(), timer_expired()).
RetryTimerArmed ==
    client.reconnecting /\ ~client.retry_timer_expired => "Retry" \in client.timers

\* The retry count and the reconnecting flag are kept by different functions
\* and never part: the count is zero exactly when the client is not reconnecting.
RetryCountMatchesReconnecting ==
    client.reconnecting <=> client.retry_count > 0

\* An idle client neither refreshes a registration nor retransmits.
IdleIsQuiet ==
    client.current_state = "IDLE" =>
        client.timers \cap {"Registration", "NsdlExecution"} = {}

\* send_unregister_message() does nothing while an earlier unregistration is
\* ongoing, so an ongoing one must be one that can still be answered.
UnregistrationCanEnd ==
    client.unregister_ongoing => "unregister" \in client.outstanding

\* Something will wake the client up without the help of the peer.
WillWakeUp ==
    \/ client.timers \cap ({"Retry", "NsdlExecution"} \cup FlowTimers) # {}
    \/ client.connection = "resolving"

\* While the application is owed the outcome of a registration, a bootstrap or
\* a reconnection, the client does not depend on an answer that may be lost.
NeverStalls == client.owed => WillWakeUp

\* update_registration() is ignored while the client is reconnecting, because the
\* state machine will reconnect on its own.
ReconnectsOnItsOwn == client.reconnecting => WillWakeUp

\* What the client tells, as module Reconnection sees it.
Report(callback) ==
    CASE callback = "nothing"  -> "nothing"
      [] callback \in Errors   -> "error"
      [] OTHER                 -> "success"

Promise == INSTANCE Reconnection WITH
               COUNT        <- RECONNECTION_COUNT,
               LOOP         <- RECONNECTION_LOOP,
               count        <- client.retry_count,
               reconnecting <- client.reconnecting,
               report       <- Report(client.told)

\* socket_error(), state_registered() and bootstrap_done() together keep the
\* promise of reconnecting: failures counted one by one, an error told when the
\* count runs out, and no reconnection that ends in silence.
ImplementsReconnection == Promise!Spec

\* The client reports a finished bootstrap only when the security objects in
\* place are complete, whatever was written or deleted before the last
\* acknowledgement left (bootstrap_wait(), data_sent()).
BootstrapDoneIsComplete ==
    client.told = "bootstrap_done" => client.nsdl_security = "complete"

\* A reconnection that ends in a registration update leaves the registration,
\* whose lifetime is known, with the timer that refreshes it.
RegistrationIsKeptAlive ==
    [][/\ client.reconnecting
       /\ client'.told = "registration_updated"
       /\ client'.lifetime
       => "Registration" \in client'.timers]_client

\* No timer runs that would make the client connect or send, and it is not connecting.
AtRest ==
    /\ client.connection # "resolving"
    /\ client.timers \cap ({"Retry", "Registration", "NsdlExecution"} \cup FlowTimers) = {}

\* docs/Introduction.md:168: the client "does not attempt a reconnection as the
\* server has rejected the data from the client."  registration_error() stops
\* neither the retry timer nor the flow timer, which goes on to register again.
RejectionIsNotRetried ==
    client.ended = "rejected" => client.current_state # "REGISTER"

\* A rejection that finds neither of them armed brings the client to rest, and it
\* starts nothing by itself from there, until the application calls, a datagram
\* comes or the connection fails (registration_error(), state_idle()).
RejectionIsFinal ==
    [][/\ client'.ended = "rejected"
       /\ IF client.ended = "rejected" THEN AtRest
          ELSE client.timers \cap ({"Retry"} \cup FlowTimers) = {}
       => AtRest' /\ client'.outstanding \subseteq client.outstanding]_client

\* A client that has deregistered and awaits no answer sends no request by
\* itself.
DeregistrationIsFinal ==
    [][/\ client.ended = "unregistered" /\ client'.ended = "unregistered"
       /\ client.outstanding = {}
       => client'.outstanding = {}]_client

\* A call of the application begins to connect, which starts the flow timer anew; a
\* retry does the same when its timer fires.
Restart ==
    /\ client.current_state # client'.current_state
    /\ client'.current_state \in {"BOOTSTRAP", "REGISTER"}
    /\ "Retry" \in client.timers => "Retry" \in client'.timers

\* Whoever is owed the outcome of a registration, a bootstrap or a reconnection
\* is told one, even if no answer ever comes, unless the application keeps starting
\* the flow timer anew (state_register(), state_bootstrap()).
OwedIsTold ==
    \/ client.owed ~> client.told # "nothing"
    \/ []<><<Restart>>_client

\* Without the reconnection loop, and unless the application keeps calling, no
\* reconnection goes on for ever.
ReconnectionEnds ==
    \/ client.reconnecting ~> ~client.reconnecting
    \/ []<><<Application>>_client

=============================================================================
