---------------------- MODULE M2MInterfaceImpl_proofs -----------------------
(***************************************************************************)
(* Proofs about M2MInterfaceImpl.  Every entry point is a composition of   *)
(* operators from client states to client states, so each operator has a   *)
(* lemma that says what kind of step it is for the reconnection, the kinds *)
(* compose, and one lemma per group of actions puts them together.         *)
(***************************************************************************)
EXTENDS M2MInterfaceImpl, TLAPS

-----------------------------------------------------------------------------
(***************************************************************************)
(* The kinds of step.                                                      *)
(***************************************************************************)
Armed(c) == c.reconnecting /\ ~c.retry_timer_expired => "Retry" \in c.timers

\* d differs from c in nothing the reconnection depends on.
Quiet(c, d) ==
    /\ d \in ClientState
    /\ d.retry_count = c.retry_count
    /\ d.reconnecting = c.reconnecting
    /\ Armed(c) => Armed(d)
    /\ d.told \in {c.told} \cup Errors

Retried(c, d) ==
    /\ d \in ClientState
    /\ d.reconnecting
    /\ Armed(d)
    /\ \/ /\ c.retry_count < RECONNECTION_COUNT
          /\ d.retry_count = c.retry_count + 1
          /\ d.told \in {c.told} \cup Errors
       \/ /\ RECONNECTION_LOOP
          /\ c.retry_count = RECONNECTION_COUNT
          /\ d.retry_count = 1
          /\ d.told \in Errors

Ended(d, callbacks) ==
    /\ d \in ClientState
    /\ d.retry_count = 0
    /\ ~d.reconnecting
    /\ d.told \in callbacks

Failing(c, d) == Quiet(c, d) \/ Retried(c, d) \/ Ended(d, Errors)

\* d goes on where c was, whatever it tells.
Proceeded(c, d) ==
    /\ d \in ClientState
    /\ d.retry_count = c.retry_count
    /\ d.reconnecting = c.reconnecting
    /\ Armed(c) => Armed(d)

Kind(c, d) == Failing(c, d) \/ Proceeded(c, d) \/ Ended(d, Callbacks \ Errors)

\* A quiet step changes neither kind, before or after.
LEMMA QuietThenQuiet ==
    ASSUME NEW c, NEW d, NEW e, Quiet(c, d), Quiet(d, e)
    PROVE  Quiet(c, e)
BY DEF Quiet

LEMMA QuietThenFailing ==
    ASSUME NEW c, NEW d, NEW e, Quiet(c, d), Failing(d, e)
    PROVE  Failing(c, e)
BY DEF Quiet, Failing, Retried, Ended

LEMMA FailingThenQuiet ==
    ASSUME NEW c, NEW d, NEW e, Failing(c, d), Quiet(d, e)
    PROVE  Failing(c, e)
BY DEF Quiet, Failing, Retried, Ended, Armed

-----------------------------------------------------------------------------
(***************************************************************************)
(* Types.  An assignment of a value of its type keeps the client one.      *)
(***************************************************************************)
LEMMA AssignTyped ==
    ASSUME NEW c \in ClientState
    PROVE  /\ \A x \in States : [c EXCEPT !.current_state = x] \in ClientState
           /\ \A x \in 0..RECONNECTION_COUNT : [c EXCEPT !.retry_count = x] \in ClientState
           /\ \A x \in BOOLEAN : [c EXCEPT !.reconnecting = x] \in ClientState
           /\ \A x \in BOOLEAN : [c EXCEPT !.retry_timer_expired = x] \in ClientState
           /\ \A x \in BOOLEAN : [c EXCEPT !.bootstrapped = x] \in ClientState
           /\ \A x \in {"None", "WithUpdate", "FullRegistration"} : [c EXCEPT !.reconnection_state = x] \in ClientState
           /\ \A x \in Securities \cup {NULL} : [c EXCEPT !.security = x] \in ClientState
           /\ \A x \in Securities \cup {NULL} : [c EXCEPT !.server_address = x] \in ClientState
           /\ \A x \in SUBSET Timers : [c EXCEPT !.timers = x] \in ClientState
           /\ \A x \in BOOLEAN : [c EXCEPT !.lifetime = x] \in ClientState
           /\ \A x \in BOOLEAN : [c EXCEPT !.unregister_ongoing = x] \in ClientState
           /\ \A x \in BOOLEAN : [c EXCEPT !.bootstrap_id = x] \in ClientState
           /\ \A x \in BOOLEAN : [c EXCEPT !.identity_accepted = x] \in ClientState
           /\ \A x \in {"none", "incomplete", "complete"} : [c EXCEPT !.nsdl_security = x] \in ClientState
           /\ \A x \in BOOLEAN : [c EXCEPT !.ep_registered = x] \in ClientState
           /\ \A x \in SUBSET Requests : [c EXCEPT !.outstanding = x] \in ClientState
           /\ \A x \in {"closed", "resolving", "open"} : [c EXCEPT !.connection = x] \in ClientState
           /\ \A x \in {"Bootstrap", "LWM2MServer"} : [c EXCEPT !.server_type = x] \in ClientState
           /\ \A x \in Callbacks \cup {"nothing"} : [c EXCEPT !.told = x] \in ClientState
           /\ \A x \in BOOLEAN : [c EXCEPT !.owed = x] \in ClientState
           /\ \A x \in {"no", "rejected", "unregistered"} : [c EXCEPT !.ended = x] \in ClientState
<1>1. ASSUME NEW x \in States
      PROVE [c EXCEPT !.current_state = x] \in ClientState
  BY Zenon DEF ClientState
<1>2. ASSUME NEW x \in 0..RECONNECTION_COUNT
      PROVE [c EXCEPT !.retry_count = x] \in ClientState
  BY DEF ClientState
<1>3. ASSUME NEW x \in BOOLEAN
      PROVE [c EXCEPT !.reconnecting = x] \in ClientState
  BY DEF ClientState
<1>4. ASSUME NEW x \in BOOLEAN
      PROVE [c EXCEPT !.retry_timer_expired = x] \in ClientState
  BY DEF ClientState
<1>5. ASSUME NEW x \in BOOLEAN
      PROVE [c EXCEPT !.bootstrapped = x] \in ClientState
  BY DEF ClientState
<1>6. ASSUME NEW x \in {"None", "WithUpdate", "FullRegistration"}
      PROVE [c EXCEPT !.reconnection_state = x] \in ClientState
  BY Zenon DEF ClientState
<1>7. ASSUME NEW x \in Securities \cup {NULL}
      PROVE [c EXCEPT !.security = x] \in ClientState
  BY DEF ClientState
<1>8. ASSUME NEW x \in Securities \cup {NULL}
      PROVE [c EXCEPT !.server_address = x] \in ClientState
  BY DEF ClientState
<1>10. ASSUME NEW x \in SUBSET Timers
       PROVE [c EXCEPT !.timers = x] \in ClientState
  BY DEF ClientState
<1>11. ASSUME NEW x \in BOOLEAN
       PROVE [c EXCEPT !.lifetime = x] \in ClientState
  BY DEF ClientState
<1>12. ASSUME NEW x \in BOOLEAN
       PROVE [c EXCEPT !.unregister_ongoing = x] \in ClientState
  BY DEF ClientState
<1>13. ASSUME NEW x \in BOOLEAN
       PROVE [c EXCEPT !.bootstrap_id = x] \in ClientState
  BY DEF ClientState
<1>14. ASSUME NEW x \in BOOLEAN
       PROVE [c EXCEPT !.identity_accepted = x] \in ClientState
  BY DEF ClientState
<1>15. ASSUME NEW x \in {"none", "incomplete", "complete"}
       PROVE [c EXCEPT !.nsdl_security = x] \in ClientState
  BY Zenon DEF ClientState
<1>16. ASSUME NEW x \in BOOLEAN
       PROVE [c EXCEPT !.ep_registered = x] \in ClientState
  BY DEF ClientState
<1>17. ASSUME NEW x \in SUBSET Requests
       PROVE [c EXCEPT !.outstanding = x] \in ClientState
  BY DEF ClientState
<1>18. ASSUME NEW x \in {"closed", "resolving", "open"}
       PROVE [c EXCEPT !.connection = x] \in ClientState
  BY DEF ClientState
<1>19. ASSUME NEW x \in {"Bootstrap", "LWM2MServer"}
       PROVE [c EXCEPT !.server_type = x] \in ClientState
  BY DEF ClientState
<1>20. ASSUME NEW x \in Callbacks \cup {"nothing"}
       PROVE [c EXCEPT !.told = x] \in ClientState
  BY DEF ClientState
<1>21. ASSUME NEW x \in BOOLEAN
       PROVE [c EXCEPT !.owed = x] \in ClientState
  BY DEF ClientState
<1>22. ASSUME NEW x \in {"no", "rejected", "unregistered"}
       PROVE [c EXCEPT !.ended = x] \in ClientState
  BY Z3 DEF ClientState
<1>. QED
  BY <1>1, <1>2, <1>3, <1>4, <1>5, <1>6, <1>7, <1>8, <1>10, <1>11, <1>12,
     <1>13, <1>14, <1>15, <1>16, <1>17, <1>18, <1>19, <1>20, <1>21, <1>22

-----------------------------------------------------------------------------
(***************************************************************************)
(* The operators.                                                          *)
(***************************************************************************)
LEMMA QuietRefl == ASSUME NEW c \in ClientState PROVE Quiet(c, c)
BY DEF Quiet

\* Telling an error, the timers, and the states without a body.
LEMMA TellType ==
    ASSUME NEW c \in ClientState, NEW callback \in Callbacks
    PROVE  Tell(c, callback) \in ClientState
BY DEF Tell, ClientState

LEMMA TellQuiet ==
    ASSUME NEW c \in ClientState, NEW error \in Errors
    PROVE  Quiet(c, Tell(c, error))
<1>1. Tell(c, error) \in ClientState
  BY TellType DEF Callbacks
<1>. QED
  BY <1>1 DEF Quiet, Armed, Tell, ClientState

LEMMA StopFlowTimerQuiet ==
    ASSUME NEW c \in ClientState PROVE Quiet(c, StopFlowTimer(c))
BY DEF Quiet, Armed, StopFlowTimer, ClientState, FlowTimers

LEMMA StartFlowTimerQuiet ==
    ASSUME NEW c \in ClientState, NEW type \in FlowTimers
    PROVE  Quiet(c, StartFlowTimer(c, type))
<1>1. StartFlowTimer(c, type) \in ClientState
  BY DEF StartFlowTimer, ClientState, Timers
<1>. QED
  BY <1>1 DEF Quiet, Armed, StartFlowTimer, ClientState, FlowTimers

LEMMA StateIdleQuiet ==
    ASSUME NEW c \in ClientState PROVE Quiet(c, StateIdle(c))
<1>1. StateIdle(c) \in ClientState
  <2>1. "IDLE" \in States /\ c.timers \ {"Registration", "NsdlExecution"} \in SUBSET Timers
    BY DEF ClientState, States
  <2>2. [c EXCEPT !.current_state = "IDLE"].timers = c.timers
    BY DEF ClientState
  <2>. QED
    BY <2>1, <2>2, AssignTyped DEF StateIdle
<1>. QED
  BY <1>1 DEF Quiet, Armed, StateIdle, ClientState

LEMMA StateWaitingQuiet ==
    ASSUME NEW c \in ClientState PROVE Quiet(c, StateWaiting(c))
BY DEF Quiet, Armed, StateWaiting, ClientState, States

LEMMA StateIdleWithErrorQuiet ==
    ASSUME NEW c \in ClientState, NEW error \in Errors
    PROVE  Quiet(c, StateIdleWithError(c, error))
<1>1. Quiet(c, StateIdle(c)) /\ StateIdle(c) \in ClientState
  BY StateIdleQuiet DEF Quiet
<1>2. Quiet(StateIdle(c), Tell(StateIdle(c), error))
  BY <1>1, TellQuiet
<1>. QED
  BY <1>1, <1>2, QuietThenQuiet DEF StateIdleWithError

LEMMA ResolveServerAddressQuiet ==
    ASSUME NEW c \in ClientState, NEW type \in {"Bootstrap", "LWM2MServer"}
    PROVE  Quiet(c, ResolveServerAddress(c, type))
<1>1. ResolveServerAddress(c, type) \in ClientState
  BY DEF ResolveServerAddress, ClientState
<1>. QED
  BY <1>1 DEF Quiet, Armed, ResolveServerAddress, ClientState

\* Sending.
LEMMA CoapMessageReadyQuiet ==
    ASSUME NEW c \in ClientState, NEW outcome
    PROVE  Quiet(c, CoapMessageReady(c, outcome))
BY QuietRefl, StateWaitingQuiet, StateIdleQuiet, StateIdleWithErrorQuiet
   DEF CoapMessageReady, Errors

LEMMA RespondQuiet ==
    ASSUME NEW c \in ClientState, NEW outcome
    PROVE  Quiet(c, Respond(c, outcome))
BY QuietRefl, CoapMessageReadyQuiet DEF Respond

LEMMA SendRequestQuiet ==
    ASSUME NEW c \in ClientState, NEW request \in Requests, NEW outcome
    PROVE  Quiet(c, SendRequest(c, request, outcome))
<1>. DEFINE responded == Respond(c, outcome)
<1>1. Quiet(c, responded) /\ responded \in ClientState
  BY RespondQuiet DEF Quiet
<1>2. Quiet(responded, [responded EXCEPT !.outstanding = @ \cup {request}])
  <2>1. [responded EXCEPT !.outstanding = @ \cup {request}] \in ClientState
    BY <1>1 DEF ClientState
  <2>. QED
    BY <1>1, <2>1 DEF Quiet, Armed, ClientState
<1>. QED
  BY <1>1, <1>2, QuietThenQuiet DEF SendRequest

LEMMA SendRegisterMessageQuiet ==
    ASSUME NEW c \in ClientState, NEW outcome
    PROVE  Quiet(c, SendRegisterMessage(c, outcome))
<1>. DEFINE started == [c EXCEPT !.timers = @ \cup {"NsdlExecution"}]
<1>1. started \in ClientState
  BY DEF ClientState, Timers
<1>2. Quiet(c, started)
  BY <1>1 DEF Quiet, Armed, ClientState
<1>3. Quiet(started, StateIdleWithError(started, "InvalidParameters"))
  BY <1>1, StateIdleWithErrorQuiet DEF Errors
<1>4. Quiet(started, SendRequest(started, "register", outcome))
  BY <1>1, SendRequestQuiet DEF Requests
<1>. QED
  BY <1>2, <1>3, <1>4, QuietThenQuiet DEF SendRegisterMessage
LEMMA SendUpdateRegistrationQuiet ==
    ASSUME NEW c \in ClientState, NEW lifetime, NEW outcome
    PROVE  Quiet(c, SendUpdateRegistration(c, lifetime, outcome))
<1>. DEFINE renewed == [c EXCEPT !.lifetime = TRUE,
                                 !.timers   = @ \cup {"Registration"}]
            begun == IF lifetime = "keep" THEN c ELSE renewed
<1>1. renewed \in ClientState
  BY DEF ClientState, Timers
<1>2. Quiet(c, renewed)
  BY <1>1 DEF Quiet, Armed, ClientState
<1>3. Quiet(c, begun) /\ begun \in ClientState
  BY <1>1, <1>2, QuietRefl
<1>4. Quiet(begun, SendRequest(begun, "update", RequestOutcome(c, outcome)))
  BY <1>3, SendRequestQuiet DEF Requests
<1>. QED
  BY <1>3, <1>4, QuietThenQuiet DEF SendUpdateRegistration

LEMMA StateUpdateRegistrationQuiet ==
    ASSUME NEW c \in ClientState, NEW lifetime, NEW outcome
    PROVE  Quiet(c, StateUpdateRegistration(c, lifetime, outcome))
<1>. DEFINE entered == [c EXCEPT !.current_state = "UPDATE_REGISTRATION"]
            updated == SendUpdateRegistration(entered, lifetime, outcome)
            full    == [updated EXCEPT !.reconnection_state = "FullRegistration"]
<1>1. entered \in ClientState
  BY DEF ClientState, States
<1>2. Quiet(c, entered)
  BY <1>1 DEF Quiet, Armed, ClientState
<1>. HIDE DEF entered
<1>3. Quiet(c, updated) /\ updated \in ClientState
  <2>1. Quiet(entered, updated)
    BY <1>1, SendUpdateRegistrationQuiet
  <2>. QED
    BY <1>2, <2>1, QuietThenQuiet DEF Quiet
<1>. HIDE DEF updated
<1>4. full \in ClientState
  BY <1>3 DEF ClientState
<1>5. Quiet(updated, full)
  BY <1>3, <1>4 DEF Quiet, Armed, ClientState
<1>6. Quiet(full, SendRegisterMessage(full, outcome))
  BY <1>4, SendRegisterMessageQuiet
<1>7. Quiet(c, SendRegisterMessage(full, outcome))
  BY <1>3, <1>5, <1>6, QuietThenQuiet
<1>. QED
  BY <1>3, <1>7 DEF StateUpdateRegistration, entered, updated

LEMMA StateUnregisterQuiet ==
    ASSUME NEW c \in ClientState, NEW outcome
    PROVE  Quiet(c, StateUnregister(c, outcome))
<1>. DEFINE waiting == StateWaiting(c)
            ongoing == [waiting EXCEPT !.unregister_ongoing = TRUE]
<1>1. Quiet(c, waiting) /\ waiting \in ClientState
  BY StateWaitingQuiet DEF Quiet
<1>2. ongoing \in ClientState
  BY <1>1 DEF ClientState
<1>3. Quiet(waiting, ongoing)
  BY <1>1, <1>2 DEF Quiet, Armed, ClientState
<1>4. Quiet(ongoing, StateIdleWithError(ongoing, "NotRegistered"))
  BY <1>2, StateIdleWithErrorQuiet DEF Errors
<1>5. Quiet(ongoing, SendRequest(ongoing, "unregister", outcome))
  BY <1>2, SendRequestQuiet DEF Requests
<1>. QED
  BY <1>1, <1>3, <1>4, <1>5, QuietThenQuiet DEF StateUnregister

\* Connecting.
LEMMA ConnectQuiet ==
    ASSUME NEW c \in ClientState, NEW flow \in FlowTimers,
           NEW type \in {"Bootstrap", "LWM2MServer"}
    PROVE  Quiet(c, Connect(c, flow, type))
<1>1. Quiet(c, StartFlowTimer(c, flow)) /\ StartFlowTimer(c, flow) \in ClientState
  BY StartFlowTimerQuiet DEF Quiet
<1>. QED
  BY <1>1, ResolveServerAddressQuiet, QuietThenQuiet DEF Connect

LEMMA StateRegisterQuiet ==
    ASSUME NEW c \in ClientState, NEW object \in Securities \cup {NULL},
           NEW listCreated
    PROVE  Quiet(c, StateRegister(c, object, listCreated))
<1>. DEFINE entered == [c EXCEPT !.current_state = "REGISTER"]
            adopted == [entered EXCEPT !.security = object]
            aimed   == [adopted EXCEPT !.server_address = object]
<1>1. entered \in ClientState
  BY DEF ClientState, States
<1>2. adopted \in ClientState
  BY <1>1 DEF ClientState
<1>3. aimed \in ClientState
  BY <1>2 DEF ClientState
<1>4. Quiet(c, entered) /\ Quiet(entered, adopted) /\ Quiet(adopted, aimed)
  BY <1>1, <1>2, <1>3 DEF Quiet, Armed, ClientState
<1>5. Quiet(entered, Connect(entered, "RegistrationFlow", "LWM2MServer"))
  BY <1>1, ConnectQuiet DEF FlowTimers
<1>6. Quiet(aimed, Connect(aimed, "RegistrationFlow", "LWM2MServer"))
  BY <1>3, ConnectQuiet DEF FlowTimers
<1>7. Quiet(adopted, StateIdleWithError(adopted, "InvalidParameters"))
  BY <1>2, StateIdleWithErrorQuiet DEF Errors
<1>. HIDE DEF entered, adopted, aimed
<1>8. /\ Quiet(c, Connect(entered, "RegistrationFlow", "LWM2MServer"))
      /\ Quiet(c, Connect(aimed, "RegistrationFlow", "LWM2MServer"))
      /\ Quiet(c, StateIdleWithError(adopted, "InvalidParameters"))
  BY <1>4, <1>5, <1>6, <1>7, QuietThenQuiet
<1>. QED
  BY <1>8 DEF StateRegister, entered, adopted, aimed

LEMMA StateBootstrapQuiet ==
    ASSUME NEW c \in ClientState, NEW object \in Securities \cup {NULL}
    PROVE  Quiet(c, StateBootstrap(c, object))
<1>. DEFINE entered == [c EXCEPT !.current_state = "BOOTSTRAP",
                                 !.bootstrapped = FALSE]
            adopted == [entered EXCEPT !.security = object]
            aimed   == [adopted EXCEPT !.server_address = object]
<1>1. entered \in ClientState
  BY AssignTyped DEF States
<1>. HIDE DEF entered
<1>2. adopted \in ClientState
  BY <1>1, AssignTyped
<1>3. aimed \in ClientState
  BY <1>2, AssignTyped
<1>. USE DEF entered
<1>4. Quiet(c, entered) /\ Quiet(entered, adopted) /\ Quiet(adopted, aimed)
  BY <1>1, <1>2, <1>3 DEF Quiet, Armed, ClientState
<1>5. Quiet(entered, Connect(entered, "BootstrapFlow", "Bootstrap"))
  BY <1>1, ConnectQuiet DEF FlowTimers
<1>6. Quiet(aimed, Connect(aimed, "BootstrapFlow", "Bootstrap"))
  BY <1>3, ConnectQuiet DEF FlowTimers
<1>7. Quiet(adopted, StateIdleWithError(adopted, "InvalidParameters"))
  BY <1>2, StateIdleWithErrorQuiet DEF Errors
<1>. HIDE DEF entered, adopted, aimed
<1>8. /\ Quiet(c, Connect(entered, "BootstrapFlow", "Bootstrap"))
      /\ Quiet(c, Connect(aimed, "BootstrapFlow", "Bootstrap"))
      /\ Quiet(c, StateIdleWithError(adopted, "InvalidParameters"))
  BY <1>4, <1>5, <1>6, <1>7, QuietThenQuiet
<1>. QED
  BY <1>8 DEF StateBootstrap, entered, adopted, aimed

LEMMA StateRegisterAddressResolvedQuiet ==
    ASSUME NEW c \in ClientState, NEW outcome
    PROVE  Quiet(c, StateRegisterAddressResolved(c, outcome))
<1>. DEFINE listening == [c EXCEPT !.current_state = "REGISTER_ADDRESS_RESOLVED",
                                   !.connection    = "open"]
<1>1. listening \in ClientState
  <2>1. "REGISTER_ADDRESS_RESOLVED" \in States
    BY DEF States
  <2>. QED
    BY <2>1 DEF ClientState
<1>2. Quiet(c, listening)
  BY <1>1 DEF Quiet, Armed, ClientState
<1>3. Quiet(c, StateUpdateRegistration(listening, "keep", outcome))
  BY <1>1, <1>2, StateUpdateRegistrationQuiet, QuietThenQuiet
<1>4. Quiet(c, SendRegisterMessage(listening, outcome))
  BY <1>1, <1>2, SendRegisterMessageQuiet, QuietThenQuiet
<1>. QED
  BY <1>3, <1>4 DEF StateRegisterAddressResolved

LEMMA StateBootstrapAddressResolvedQuiet ==
    ASSUME NEW c \in ClientState, NEW outcome
    PROVE  Quiet(c, StateBootstrapAddressResolved(c, outcome))
<1>. DEFINE listening == [c EXCEPT !.current_state = "BOOTSTRAP_ADDRESS_RESOLVED",
                                   !.connection    = "open"]
            anonymous == [listening EXCEPT !.identity_accepted = FALSE]
            requested == SendRequest(anonymous, "bootstrap", outcome)
            created   == [requested EXCEPT
                             !.bootstrap_id  = TRUE,
                             !.current_state = "BOOTSTRAP_RESOURCE_CREATED"]
<1>1. listening \in ClientState
  <2>1. "BOOTSTRAP_ADDRESS_RESOLVED" \in States
    BY DEF States
  <2>. QED
    BY <2>1 DEF ClientState
<1>2. Quiet(c, listening)
  BY <1>1 DEF Quiet, Armed, ClientState
<1>. HIDE DEF listening
<1>3. anonymous \in ClientState /\ Quiet(listening, anonymous)
  <2>1. anonymous \in ClientState
    BY <1>1, AssignTyped
  <2>. QED
    BY <1>1, <2>1 DEF Quiet, Armed, ClientState
<1>4. Quiet(anonymous, requested) /\ requested \in ClientState
  BY <1>3, SendRequestQuiet DEF Quiet, Requests
<1>. HIDE DEF anonymous, requested
<1>5. created \in ClientState
  <2>1. "BOOTSTRAP_RESOURCE_CREATED" \in States
    BY DEF States
  <2>. QED
    BY <1>4, <2>1 DEF ClientState
<1>6. Quiet(requested, created)
  BY <1>4, <1>5 DEF Quiet, Armed, ClientState
<1>7. Quiet(listening, Tell(listening, "InvalidParameters"))
  BY <1>1, TellQuiet DEF Errors
<1>8. Quiet(anonymous, StateIdleWithError(anonymous, "InvalidParameters"))
  BY <1>3, StateIdleWithErrorQuiet DEF Errors
<1>. HIDE DEF created
<1>9. /\ Quiet(c, Tell(listening, "InvalidParameters"))
      /\ Quiet(c, StateIdleWithError(anonymous, "InvalidParameters"))
      /\ Quiet(c, created)
  BY <1>2, <1>3, <1>4, <1>6, <1>7, <1>8, QuietThenQuiet
<1>. QED
  BY <1>9 DEF StateBootstrapAddressResolved, listening, anonymous, requested, created
\* Failing.
LEMMA ErrorOfIsError == ASSUME NEW code PROVE ErrorOf(code) \in Errors
BY DEF ErrorOf, Errors

\* The assignments of socket_error() after it has become idle.
Rearm(e) == [e EXCEPT !.reconnecting        = TRUE,
                      !.connection          = "closed",
                      !.retry_timer_expired = FALSE,
                      !.timers              = @ \cup {"Retry"},
                      !.owed                = TRUE]

LEMMA RearmArms ==
    ASSUME NEW e \in ClientState
    PROVE  /\ Rearm(e) \in ClientState
           /\ Rearm(e).reconnecting
           /\ Armed(Rearm(e))
           /\ Rearm(e).retry_count = e.retry_count
           /\ Rearm(e).told = e.told
<1>1. e.timers \cup {"Retry"} \in SUBSET Timers
  BY DEF ClientState, Timers
<1>2. Rearm(e) \in ClientState
  BY <1>1 DEF Rearm, ClientState
<1>3. Rearm(e).timers = e.timers \cup {"Retry"} /\ Rearm(e).reconnecting
  BY DEF Rearm, ClientState
<1>4. Rearm(e).retry_count = e.retry_count /\ Rearm(e).told = e.told
  BY DEF Rearm, ClientState
<1>. QED
  BY <1>2, <1>3, <1>4 DEF Armed

LEMMA ScheduleRetryRetried ==
    ASSUME NEW c \in ClientState, NEW code,
           c.retry_count < RECONNECTION_COUNT \/ RECONNECTION_LOOP
    PROVE  Retried(c, ScheduleRetry(c, code))
<1>. DEFINE more    == [c EXCEPT !.retry_count = @ + 1]
            again   == Tell([c EXCEPT !.retry_count = 1], ErrorOf(code))
            Rearmed(d) == Rearm(StateIdle(d))
<1>1. ASSUME NEW d \in ClientState
      PROVE  /\ Rearmed(d) \in ClientState
             /\ Rearmed(d).reconnecting
             /\ Armed(Rearmed(d))
             /\ Rearmed(d).retry_count = d.retry_count
             /\ Rearmed(d).told = d.told
  <2>1. StateIdle(d) \in ClientState
    BY StateIdleQuiet DEF Quiet
  <2>2. StateIdle(d).retry_count = d.retry_count /\ StateIdle(d).told = d.told
    BY DEF StateIdle, ClientState
  <2>. QED
    BY <2>1, <2>2, RearmArms
<1>2. CASE c.retry_count < RECONNECTION_COUNT
  <2>1. more \in ClientState
    BY <1>2, ConstantsAssumption DEF ClientState
  <2>2. more.retry_count = c.retry_count + 1 /\ more.told = c.told
    BY DEF ClientState
  <2>. HIDE DEF more, Rearmed
  <2>3. ScheduleRetry(c, code) = Rearmed(more)
    BY <1>2 DEF ScheduleRetry, more, Rearmed, Rearm
  <2>. QED
    BY <1>1, <1>2, <2>1, <2>2, <2>3 DEF Retried
<1>3. CASE ~(c.retry_count < RECONNECTION_COUNT)
  <2>1. [c EXCEPT !.retry_count = 1] \in ClientState
    BY ConstantsAssumption DEF ClientState
  <2>2. again \in ClientState
    BY <2>1, ErrorOfIsError, TellQuiet DEF Quiet
  <2>3. again.retry_count = 1 /\ again.told \in Errors
    BY ErrorOfIsError DEF Tell, ClientState
  <2>4. c.retry_count = RECONNECTION_COUNT
    BY <1>3, ConstantsAssumption DEF ClientState
  <2>. HIDE DEF again, Rearmed
  <2>5. ScheduleRetry(c, code) = Rearmed(again)
    BY <1>3 DEF ScheduleRetry, again, Rearmed, Rearm
  <2>. QED
    BY <1>1, <1>3, <2>2, <2>3, <2>4, <2>5 DEF Retried
<1>. QED
  BY <1>2, <1>3

LEMMA GiveUpEnded ==
    ASSUME NEW c \in ClientState, NEW code
    PROVE  Ended(GiveUp(c, code), Errors)
<1>. DEFINE stopped == [c EXCEPT !.connection         = "closed",
                                 !.timers             = @ \ {"Retry"},
                                 !.retry_count        = 0,
                                 !.reconnecting       = FALSE,
                                 !.reconnection_state = "None"]
<1>1. stopped \in ClientState
  <2>1. c.timers \ {"Retry"} \in SUBSET Timers /\ 0 \in 0..RECONNECTION_COUNT
    BY ConstantsAssumption DEF ClientState
  <2>2. [c EXCEPT !.connection = "closed"].timers = c.timers
    BY DEF ClientState
  <2>. QED
    BY <2>1, <2>2, AssignTyped
<1>2. stopped.retry_count = 0 /\ stopped.reconnecting = FALSE
  BY DEF ClientState
<1>. HIDE DEF stopped
<1>3. Quiet(stopped, StateIdleWithError(stopped, ErrorOf(code)))
  BY <1>1, ErrorOfIsError, StateIdleWithErrorQuiet
<1>4. StateIdleWithError(stopped, ErrorOf(code)).told \in Errors
  <2>1. StateIdle(stopped) \in ClientState
    BY <1>1, StateIdleQuiet DEF Quiet
  <2>. QED
    BY <2>1, ErrorOfIsError DEF StateIdleWithError, Tell, ClientState
<1>5. GiveUp(c, code) = StateIdleWithError(stopped, ErrorOf(code))
  BY DEF GiveUp, stopped
<1>. QED
  BY <1>2, <1>3, <1>4, <1>5 DEF Quiet, Ended

LEMMA SocketErrorFailing ==
    ASSUME NEW c \in ClientState, NEW code, NEW retry
    PROVE  Failing(c, SocketError(c, code, retry))
<1>. DEFINE updating == [c EXCEPT !.reconnection_state = "WithUpdate"]
<1>1. updating \in ClientState
  BY DEF ClientState
<1>2. Quiet(c, updating)
  BY <1>1 DEF Quiet, Armed, ClientState
<1>3. updating.retry_count = c.retry_count
  BY DEF ClientState
<1>. HIDE DEF updating
<1>4. /\ Failing(updating, updating)
      /\ Failing(updating, GiveUp(updating, code))
      /\ c.retry_count < RECONNECTION_COUNT \/ RECONNECTION_LOOP
            => Failing(updating, ScheduleRetry(updating, code))
  BY <1>1, <1>3, QuietRefl, GiveUpEnded, ScheduleRetryRetried DEF Failing
<1>5. /\ Failing(c, updating)
      /\ Failing(c, GiveUp(updating, code))
      /\ c.retry_count < RECONNECTION_COUNT \/ RECONNECTION_LOOP
            => Failing(c, ScheduleRetry(updating, code))
  BY <1>2, <1>4, QuietThenFailing
<1>. QED
  BY <1>5 DEF SocketError, updating

LEMMA RetryRegistrationFailing ==
    ASSUME NEW c \in ClientState
    PROVE  Failing(c, RetryRegistration(c))
<1>. DEFINE failed == SocketError(c, SOCKET_SEND_ERROR, TRUE)
            full   == [failed EXCEPT !.reconnection_state = "FullRegistration"]
<1>1. Failing(c, failed) /\ failed \in ClientState
  BY SocketErrorFailing DEF Failing, Quiet, Retried, Ended
<1>. HIDE DEF failed
<1>2. full \in ClientState
  BY <1>1 DEF ClientState
<1>3. Quiet(failed, full)
  BY <1>1, <1>2 DEF Quiet, Armed, ClientState
<1>. HIDE DEF full
<1>4. Failing(c, full)
  BY <1>1, <1>3, FailingThenQuiet
<1>. QED
  BY <1>4 DEF RetryRegistration, failed, full

LEMMA BootstrapErrorFailing ==
    ASSUME NEW c \in ClientState
    PROVE  Failing(c, BootstrapError(c))
<1>. DEFINE unready == [c EXCEPT !.bootstrapped = FALSE]
<1>1. unready \in ClientState
  BY DEF ClientState
<1>2. Quiet(c, unready)
  BY <1>1 DEF Quiet, Armed, ClientState
<1>. HIDE DEF unready
<1>3. Quiet(c, StopFlowTimer(unready)) /\ StopFlowTimer(unready) \in ClientState
  <2>1. Quiet(unready, StopFlowTimer(unready))
    BY <1>1, StopFlowTimerQuiet
  <2>. QED
    BY <1>2, <2>1, QuietThenQuiet DEF Quiet
<1>4. Failing(StopFlowTimer(unready),
              SocketError(StopFlowTimer(unready), BootstrapFailed, TRUE))
  BY <1>3, SocketErrorFailing
<1>. QED
  BY <1>3, <1>4, QuietThenFailing DEF BootstrapError, unready

LEMMA HandleBootstrapErrorFailing ==
    ASSUME NEW c \in ClientState
    PROVE  Failing(c, HandleBootstrapError(c))
<1>. DEFINE cleared == [c EXCEPT !.identity_accepted = FALSE,
                                 !.nsdl_security     = "none"]
<1>1. cleared \in ClientState
  BY DEF ClientState
<1>2. Quiet(c, cleared)
  BY <1>1 DEF Quiet, Armed, ClientState
<1>. HIDE DEF cleared
<1>3. Failing(c, BootstrapError(cleared))
  BY <1>1, <1>2, BootstrapErrorFailing, QuietThenFailing
<1>. QED
  BY <1>3 DEF HandleBootstrapError, cleared
LEMMA RequestFailedFailing ==
    ASSUME NEW c \in ClientState, NEW request \in Requests, NEW outcome
    PROVE  Failing(c, RequestFailed(c, request, outcome))
<1>. DEFINE answered   == [c EXCEPT !.outstanding = @ \ {request}]
            forgotten  == [answered EXCEPT !.unregister_ongoing = FALSE]
            unrefreshed == [answered EXCEPT !.timers = @ \ {"Registration"}]
            unknown    == [answered EXCEPT !.bootstrap_id = FALSE]
<1>1. answered \in ClientState
  BY DEF ClientState
<1>2. Quiet(c, answered)
  BY <1>1 DEF Quiet, Armed, ClientState
<1>3. RequestFailed(c, request, outcome) =
        CASE request = "register"   -> RetryRegistration(answered)
          [] request = "unregister" -> StateIdleWithError(forgotten, "UnregisterFailed")
          [] request = "update"     -> SendRequest(unrefreshed, "register", outcome)
          [] request = "bootstrap"  -> HandleBootstrapError(unknown)
  BY DEF RequestFailed
<1>. HIDE DEF answered
<1>4. forgotten \in ClientState /\ unrefreshed \in ClientState /\ unknown \in ClientState
  <2>1. forgotten \in ClientState
    BY <1>1, AssignTyped
  <2>2. unrefreshed \in ClientState
    <3>1. answered.timers \ {"Registration"} \in SUBSET Timers
      BY <1>1 DEF ClientState
    <3>. QED
      BY <1>1, <3>1, AssignTyped
  <2>3. unknown \in ClientState
    BY <1>1, AssignTyped
  <2>. QED
    BY <2>1, <2>2, <2>3
<1>5. Quiet(answered, forgotten) /\ Quiet(answered, unrefreshed) /\ Quiet(answered, unknown)
  BY <1>1, <1>4 DEF Quiet, Armed, ClientState
<1>. HIDE DEF forgotten, unrefreshed, unknown
<1>6. CASE request = "register"
  BY <1>1, <1>2, <1>3, <1>6, RetryRegistrationFailing, QuietThenFailing
<1>7. CASE request = "unregister"
  <2>1. Quiet(forgotten, StateIdleWithError(forgotten, "UnregisterFailed"))
    BY <1>4, StateIdleWithErrorQuiet DEF Errors
  <2>. QED
    BY <1>2, <1>3, <1>5, <1>7, <2>1, QuietThenQuiet DEF Failing
<1>8. CASE request = "update"
  <2>1. Quiet(unrefreshed, SendRequest(unrefreshed, "register", outcome))
    BY <1>4, SendRequestQuiet DEF Requests
  <2>. QED
    BY <1>2, <1>3, <1>5, <1>8, <2>1, QuietThenQuiet DEF Failing
<1>9. CASE request = "bootstrap"
  <2>1. Failing(unknown, HandleBootstrapError(unknown))
    BY <1>4, HandleBootstrapErrorFailing
  <2>. QED
    BY <1>2, <1>3, <1>5, <1>9, <2>1, QuietThenQuiet, QuietThenFailing
<1>. QED
  BY <1>6, <1>7, <1>8, <1>9 DEF Requests

-----------------------------------------------------------------------------
(***************************************************************************)
(* The actions.  A step is compared with the state in which it starts:     *)
(* nothing told yet.                                                       *)
(***************************************************************************)
LEMMA FreshState ==
    ASSUME client \in ClientState
    PROVE  /\ Fresh(client) \in ClientState
           /\ Fresh(client).retry_count = client.retry_count
           /\ Fresh(client).reconnecting = client.reconnecting
           /\ Armed(client) => Armed(Fresh(client))
           /\ Fresh(client).told = "nothing"
BY DEF Fresh, ClientState, Armed

LEMMA AcceptedQuiet ==
    ASSUME NEW c \in ClientState
    PROVE  /\ Quiet(c, Accepted(c)) /\ Accepted(c) \in ClientState
           /\ Quiet(c, Promised(c)) /\ Promised(c) \in ClientState
<1>1. Accepted(c) \in ClientState /\ Promised(c) \in ClientState
  BY AssignTyped DEF Accepted, Promised
<1>2. Quiet(c, Accepted(c))
  BY <1>1 DEF Quiet, Armed, Accepted, ClientState
<1>3. Quiet(c, Promised(c))
  BY <1>1 DEF Quiet, Armed, Accepted, Promised, ClientState
<1>. QED
  BY <1>1, <1>2, <1>3

LEMMA ApplicationKind ==
    ASSUME client \in ClientState, Application
    PROVE  Kind(Fresh(client), client')
<1>. DEFINE c == Fresh(client)
<1>1. c \in ClientState /\ Quiet(c, c)
  BY FreshState, QuietRefl
<1>. HIDE DEF c
<1>2. ASSUME NEW object \in Securities \cup {NULL}, Bootstrap(object)
      PROVE  Quiet(c, client')
  <2>1. Quiet(c, StateBootstrap(Promised(c), object))
    BY <1>1, AcceptedQuiet, StateBootstrapQuiet, QuietThenQuiet
  <2>. QED
    BY <1>1, <1>2, <2>1 DEF Bootstrap, c
<1>3. ASSUME NEW object \in Securities \cup {NULL}, NEW listCreated \in BOOLEAN,
             RegisterObject(object, listCreated)
      PROVE  Quiet(c, client')
  <2>1. Quiet(c, StateRegister(Promised(c), object, listCreated))
    BY <1>1, AcceptedQuiet, StateRegisterQuiet, QuietThenQuiet
  <2>. QED
    BY <1>1, <1>3, <2>1 DEF RegisterObject, c
<1>4. ASSUME NEW object \in Securities \cup {NULL}, NEW listCreated \in BOOLEAN,
             NEW lifetime \in {"keep", "new"}, NEW outcome \in Outcomes,
             UpdateRegistration(object, lifetime, listCreated, outcome)
      PROVE  Quiet(c, client')
  <2>. DEFINE begun == [c EXCEPT !.reconnection_state = "WithUpdate"]
  <2>1. begun \in ClientState
    BY <1>1 DEF ClientState
  <2>2. Quiet(c, begun)
    BY <1>1, <2>1 DEF Quiet, Armed, ClientState
  <2>. HIDE DEF begun
  <2>3. /\ Quiet(begun, Promised(begun)) /\ Promised(begun) \in ClientState
        /\ Quiet(begun, Accepted(begun)) /\ Accepted(begun) \in ClientState
    BY <2>1, AcceptedQuiet
  <2>4. Quiet(c, StateRegister(Promised(begun), object, listCreated))
    BY <2>2, <2>3, StateRegisterQuiet, QuietThenQuiet
  <2>5. Quiet(c, StateUpdateRegistration(Accepted(begun), lifetime, outcome))
    BY <2>2, <2>3, StateUpdateRegistrationQuiet, QuietThenQuiet
  <2>. QED
    BY <1>1, <1>4, <2>2, <2>4, <2>5 DEF UpdateRegistration, begun, c
<1>5. ASSUME NEW outcome \in Outcomes, UnregisterObject(outcome)
      PROVE  Quiet(c, client')
  <2>1. Quiet(c, StateUnregister(Accepted(c), outcome))
    BY <1>1, AcceptedQuiet, StateUnregisterQuiet, QuietThenQuiet
  <2>. QED
    BY <1>1, <1>5, <2>1 DEF UnregisterObject, c
<1>. QED
  BY <1>2, <1>3, <1>4, <1>5 DEF Application, Kind, Failing, c
LEMMA TellEnded ==
    ASSUME NEW c \in ClientState, c.retry_count = 0, ~c.reconnecting,
           NEW callback \in Callbacks \ Errors
    PROVE  Ended(Tell(c, callback), Callbacks \ Errors)
<1>2. Tell(c, callback) \in ClientState
  BY TellType
<1>3. Tell(c, callback).told = callback
  BY DEF Tell, ClientState
<1>4. Tell(c, callback).retry_count = c.retry_count
  BY DEF Tell, ClientState
<1>5. Tell(c, callback).reconnecting = c.reconnecting
  BY DEF Tell, ClientState
<1>. QED
  BY <1>2, <1>3, <1>4, <1>5 DEF Ended

LEMMA BootstrapDoneEnded ==
    ASSUME NEW c \in ClientState
    PROVE  Ended(BootstrapDone(c), Callbacks \ Errors)
<1>. DEFINE done == [c EXCEPT !.security           = NULL,
                              !.retry_count        = 0,
                              !.reconnecting       = FALSE,
                              !.reconnection_state = "None",
                              !.bootstrapped       = TRUE,
                              !.current_state      = "BOOTSTRAPPED"]
<1>1. done \in ClientState
  <2>1. 0 \in 0..RECONNECTION_COUNT /\ "BOOTSTRAPPED" \in States
    BY ConstantsAssumption DEF States
  <2>. QED
    BY <2>1 DEF ClientState
<1>2. done.retry_count = 0 /\ ~done.reconnecting
  BY DEF ClientState
<1>. HIDE DEF done
<1>. DEFINE stopped == StopFlowTimer(done)
<1>3. Quiet(done, stopped) /\ stopped \in ClientState
  BY <1>1, StopFlowTimerQuiet DEF Quiet
<1>4. stopped.retry_count = 0 /\ ~stopped.reconnecting
  BY <1>2, <1>3 DEF Quiet
<1>. HIDE DEF stopped
<1>5. "bootstrap_done" \in Callbacks \ Errors
  BY DEF Callbacks, Errors
<1>6. Ended(Tell(stopped, "bootstrap_done"), Callbacks \ Errors)
  BY <1>3, <1>4, <1>5, TellEnded
<1>. QED
  BY <1>6 DEF BootstrapDone, done, stopped

LEMMA NetworkKind ==
    ASSUME client \in ClientState, Network
    PROVE  Kind(Fresh(client), client')
<1>. DEFINE c == Fresh(client)
<1>1. c \in ClientState /\ Quiet(c, c)
  BY FreshState, QuietRefl
<1>. HIDE DEF c
<1>2. ASSUME NEW outcome \in Outcomes, AddressReady(outcome)
      PROVE  Kind(c, client')
  BY <1>1, <1>2, StateBootstrapAddressResolvedQuiet,
     StateRegisterAddressResolvedQuiet
     DEF AddressReady, Kind, Failing, c
<1>3. ASSUME NEW code \in ConnectionErrors, NEW retry \in BOOLEAN,
             ConnectionFails(code, retry)
      PROVE  Kind(c, client')
  <2>1. Quiet(c, Accepted(c)) /\ Accepted(c) \in ClientState
    BY <1>1, AcceptedQuiet
  <2>2. Failing(c, SocketError(Accepted(c), code, retry))
    BY <2>1, SocketErrorFailing, QuietThenFailing
  <2>. QED
    BY <1>3, <2>2 DEF ConnectionFails, Kind, c
<1>4. ASSUME DataSent PROVE Kind(c, client')
  <2>. DEFINE awake == IF QueueMode
                       THEN [c EXCEPT !.timers = @ \cup {"QueueSleep"}] ELSE c
  <2>1. awake \in ClientState
    BY <1>1 DEF ClientState, Timers
  <2>2. Quiet(c, awake)
    BY <1>1, <2>1 DEF Quiet, Armed, ClientState
  <2>. HIDE DEF awake
  <2>3. Kind(c, BootstrapDone(awake))
    BY <2>1, BootstrapDoneEnded DEF Kind
  <2>4. Kind(c, StateWaiting(awake))
    BY <2>1, <2>2, StateWaitingQuiet, QuietThenQuiet DEF Kind, Failing
  <2>. QED
    BY <1>4, <2>3, <2>4 DEF DataSent, awake, c
<1>. QED
  BY <1>2, <1>3, <1>4 DEF Network, c
LEMMA ReceivedQuiet ==
    ASSUME client \in ClientState
    PROVE  Quiet(Fresh(client), Received(client)) /\ Received(client) \in ClientState
<1>. DEFINE c == Fresh(client)
<1>1. c \in ClientState
  BY FreshState
<1>. HIDE DEF c
<1>2. Quiet(c, Accepted(c)) /\ Accepted(c) \in ClientState
  BY <1>1, AcceptedQuiet
<1>3. Quiet(Accepted(c), StateWaiting(Accepted(c)))
  BY <1>2, StateWaitingQuiet
<1>. QED
  BY <1>2, <1>3, QuietThenQuiet DEF Received, Quiet, c

LEMMA AnsweredQuiet ==
    ASSUME client \in ClientState, NEW request
    PROVE  /\ Quiet(Fresh(client), Answered(client, request))
           /\ Answered(client, request) \in ClientState
<1>. DEFINE c == Received(client)
<1>1. Quiet(Fresh(client), c) /\ c \in ClientState
  BY ReceivedQuiet
<1>. HIDE DEF c
<1>. DEFINE answered == [c EXCEPT !.outstanding = @ \ {request}]
<1>2. answered \in ClientState
  BY <1>1 DEF ClientState
<1>3. Quiet(c, answered)
  BY <1>1, <1>2 DEF Quiet, Armed, ClientState
<1>. HIDE DEF answered
<1>4. Quiet(Fresh(client), answered)
  BY <1>1, <1>3, QuietThenQuiet
<1>. QED
  BY <1>2, <1>4 DEF Answered, c, answered

LEMMA StateRegisteredEnds ==
    ASSUME NEW c \in ClientState
    PROVE  /\ StateRegistered(c) \in ClientState
           /\ StateRegistered(c).retry_count = 0
           /\ ~StateRegistered(c).reconnecting
<1>1. 0 \in 0..RECONNECTION_COUNT /\ "REGISTERED" \in States
  BY ConstantsAssumption DEF States
<1>2. StateRegistered(c) \in ClientState
  BY <1>1 DEF StateRegistered, ClientState
<1>. QED
  BY <1>2 DEF StateRegistered, ClientState

LEMMA ObjectRegisteredKind ==
    ASSUME client \in ClientState, NEW lifetime, ObjectRegistered(lifetime)
    PROVE  Kind(Fresh(client), client')
<1>. DEFINE a  == Answered(client, "register")
            c  == [a EXCEPT !.ep_registered = TRUE]
            s  == StopFlowTimer(c)
            r  == Tell(StateRegistered(s), "object_registered")
            known == lifetime = "granted" \/ (lifetime = "absent" /\ c.lifetime)
            d  == [r EXCEPT !.lifetime = known,
                            !.timers   = IF known THEN @ \cup {"Registration"} ELSE @]
<1>1. a \in ClientState
  BY AnsweredQuiet
<1>. HIDE DEF a
<1>2. c \in ClientState
  BY <1>1 DEF ClientState
<1>3. known \in BOOLEAN
  BY <1>2 DEF ClientState
<1>. HIDE DEF c
<1>4. s \in ClientState
  BY <1>2, StopFlowTimerQuiet DEF Quiet
<1>. HIDE DEF s
<1>5. Ended(r, Callbacks \ Errors)
  <2>1. "object_registered" \in Callbacks \ Errors
    BY DEF Callbacks, Errors
  <2>. QED
    BY <1>4, <2>1, StateRegisteredEnds, TellEnded
<1>6. r \in ClientState
  BY <1>5 DEF Ended
<1>. HIDE DEF r, known
<1>7. d \in ClientState
  <2>1. (IF known THEN r.timers \cup {"Registration"} ELSE r.timers) \in SUBSET Timers
    BY <1>6 DEF ClientState, Timers
  <2>2. ASSUME NEW b \in BOOLEAN, NEW ts \in SUBSET Timers
        PROVE  [r EXCEPT !.lifetime = b, !.timers = ts] \in ClientState
    BY <1>6 DEF ClientState
  <2>. QED
    BY <1>3, <2>1, <2>2
<1>8. /\ d.retry_count = r.retry_count
      /\ d.reconnecting = r.reconnecting
      /\ d.told = r.told
  BY <1>6 DEF ClientState
<1>9. client' = d
  BY DEF ObjectRegistered, a, c, s, r, known
<1>. HIDE DEF d
<1>. QED
  BY <1>5, <1>7, <1>8, <1>9 DEF Ended, Kind
LEMMA UnregisteredType ==
    ASSUME NEW c \in ClientState
    PROVE  [c EXCEPT !.timers        = @ \ {"Registration"},
                     !.ep_registered = FALSE,
                     !.ended         = "unregistered"] \in ClientState
<1>. DEFINE absent == [c EXCEPT !.timers        = @ \ {"Registration"},
                                !.ep_registered = FALSE]
<1>1. absent \in ClientState
  BY DEF ClientState
<1>2. \A d \in ClientState : [d EXCEPT !.ended = "unregistered"] \in ClientState
  BY DEF ClientState
<1>3. [absent EXCEPT !.ended = "unregistered"]
        = [c EXCEPT !.timers        = @ \ {"Registration"},
                    !.ep_registered = FALSE,
                    !.ended         = "unregistered"]
  BY DEF ClientState
<1>. QED
  BY <1>1, <1>2, <1>3

LEMMA ServerKind ==
    ASSUME client \in ClientState, Server
    PROVE  Kind(Fresh(client), client')
<1>. DEFINE c == Fresh(client)
<1>1. c \in ClientState
  BY FreshState
<1>. HIDE DEF c
<1>2. /\ Quiet(c, Received(client)) /\ Received(client) \in ClientState
      /\ \A request : /\ Quiet(c, Answered(client, request))
                      /\ Answered(client, request) \in ClientState
  BY ReceivedQuiet, AnsweredQuiet DEF c
<1>3. ASSUME DataUnparsable PROVE Kind(c, client')
  BY <1>2, <1>3 DEF DataUnparsable, Kind, Failing
<1>4. ASSUME NEW lifetime \in Lifetimes, ObjectRegistered(lifetime)
      PROVE  Kind(c, client')
  BY <1>4, ObjectRegisteredKind DEF c
<1>5. ASSUME RegistrationRejected PROVE Kind(c, client')
  <2>. DEFINE told  == StateIdleWithError(Answered(client, "register"),
                                          "InvalidParameters")
              final == [told EXCEPT !.ended = "rejected"]
  <2>1. Quiet(Answered(client, "register"), told) /\ told \in ClientState
    BY <1>2, StateIdleWithErrorQuiet DEF Errors, Quiet
  <2>. HIDE DEF told
  <2>2. final \in ClientState
    BY <2>1 DEF ClientState
  <2>3. Quiet(told, final)
    BY <2>1, <2>2 DEF Quiet, Armed, ClientState
  <2>4. client' = final
    BY <1>5 DEF RegistrationRejected, told
  <2>. HIDE DEF final
  <2>. QED
    BY <1>2, <2>1, <2>3, <2>4, QuietThenQuiet DEF Kind, Failing
<1>6. ASSUME RegistrationUpdated PROVE Kind(c, client')
  <2>1. "registration_updated" \in Callbacks \ Errors
    BY DEF Callbacks, Errors
  <2>2. Ended(Tell(StateRegistered(Answered(client, "update")),
                   "registration_updated"), Callbacks \ Errors)
    BY <1>2, <2>1, StateRegisteredEnds, TellEnded
  <2>. QED
    BY <1>6, <2>2 DEF RegistrationUpdated, Kind
<1>7. ASSUME IdentityAccepted PROVE Kind(c, client')
  <2>. DEFINE a == Answered(client, "bootstrap")
              d == [a EXCEPT !.bootstrap_id = FALSE, !.identity_accepted = TRUE]
  <2>1. Quiet(c, a) /\ a \in ClientState
    BY <1>2
  <2>2. client' = d
    BY <1>7 DEF IdentityAccepted
  <2>. HIDE DEF a
  <2>3. d \in ClientState
    BY <2>1, AssignTyped
  <2>4. Quiet(a, d)
    BY <2>1, <2>3 DEF Quiet, Armed, ClientState
  <2>. HIDE DEF d
  <2>. QED
    BY <2>1, <2>2, <2>4, QuietThenQuiet DEF Kind, Failing
<1>8. ASSUME NEW request \in Requests, NEW outcome \in Outcomes,
             ErrorResponse(request, outcome)
      PROVE  Kind(c, client')
  <2>1. Failing(c, RequestFailed(Received(client), request, outcome))
    BY <1>2, RequestFailedFailing, QuietThenFailing
  <2>. QED
    BY <1>8, <2>1 DEF ErrorResponse, Kind
<1>9. ASSUME NEW outcome \in Outcomes, ResourceRequest(outcome)
      PROVE  Kind(c, client')
  <2>1. Quiet(c, Respond(Received(client), outcome))
    BY <1>2, RespondQuiet, QuietThenQuiet
  <2>. QED
    BY <1>9, <2>1 DEF ResourceRequest, Kind, Failing
<1>10. ASSUME NEW update \in Outcomes, NEW response \in Outcomes,
              InstanceCreated(update, response)
       PROVE  Kind(c, client')
  <2>. DEFINE u == SendUpdateRegistration(Received(client), "keep", update)
  <2>1. Quiet(c, u) /\ u \in ClientState
    <3>1. Quiet(Received(client), u)
      BY <1>2, SendUpdateRegistrationQuiet
    <3>. QED
      BY <1>2, <3>1, QuietThenQuiet DEF Quiet
  <2>2. client' = Respond(u, response)
    BY <1>10 DEF InstanceCreated
  <2>. HIDE DEF u
  <2>3. Quiet(c, Respond(u, response))
    BY <2>1, RespondQuiet, QuietThenQuiet
  <2>. QED
    BY <2>2, <2>3 DEF Kind, Failing
<1>11. ASSUME ObjectUnregistered PROVE Kind(c, client')
  <2>. DEFINE a == Answered(client, "unregister")
              i == StateIdle(a)
              t == Tell(i, "object_unregistered")
              d == [t EXCEPT !.timers        = @ \ {"Registration"},
                             !.ep_registered = FALSE,
                             !.ended         = "unregistered"]
  <2>1. client' = d
    BY <1>11 DEF ObjectUnregistered
  <2>2. Quiet(c, a) /\ a \in ClientState
    BY <1>2
  <2>. HIDE DEF a
  <2>3. Quiet(c, i) /\ i \in ClientState
    <3>1. Quiet(a, i)
      BY <2>2, StateIdleQuiet
    <3>. QED
      BY <2>2, <3>1, QuietThenQuiet DEF Quiet
  <2>. HIDE DEF i
  <2>4. t \in ClientState /\ Proceeded(i, t)
    <3>1. "object_unregistered" \in Callbacks
      BY DEF Callbacks
    <3>2. t \in ClientState
      BY <2>3, <3>1, TellType
    <3>3. t.retry_count = i.retry_count
      BY <2>3 DEF Tell, ClientState
    <3>4. t.reconnecting = i.reconnecting
      BY <2>3 DEF Tell, ClientState
    <3>5. t.timers = i.timers
      BY <2>3 DEF Tell, ClientState
    <3>6. t.retry_timer_expired = i.retry_timer_expired
      BY <2>3 DEF Tell, ClientState
    <3>. HIDE DEF t
    <3>. QED
      BY <3>2, <3>3, <3>4, <3>5, <3>6 DEF Proceeded, Armed
  <2>. HIDE DEF t
  <2>5. d \in ClientState
    BY <2>4, UnregisteredType
  <2>6. Proceeded(t, d)
    <3>1. /\ d.retry_count = t.retry_count
          /\ d.reconnecting = t.reconnecting
          /\ d.retry_timer_expired = t.retry_timer_expired
      BY <2>4 DEF ClientState
    <3>2. d.timers = t.timers \ {"Registration"}
      BY <2>4 DEF ClientState
    <3>. HIDE DEF d
    <3>. QED
      BY <2>5, <3>1, <3>2 DEF Proceeded, Armed
  <2>. HIDE DEF d
  <2>. QED
    BY <2>1, <2>3, <2>4, <2>6 DEF Quiet, Proceeded, Kind
<1>. QED
  BY <1>3, <1>4, <1>5, <1>6, <1>7, <1>8, <1>9, <1>10, <1>11 DEF Server, c
LEMMA BootstrapServerKind ==
    ASSUME client \in ClientState, BootstrapServer
    PROVE  Kind(Fresh(client), client')
<1>. DEFINE c == Fresh(client)
            b == Received(client)
<1>1. Quiet(c, b) /\ b \in ClientState
  BY ReceivedQuiet
<1>2. ASSUME NEW content \in {"bad", "incomplete", "complete"},
             NEW ack \in Outcomes, NEW response \in Outcomes,
             BootstrapPut(content, ack, response)
      PROVE  Kind(c, client')
  <2>. DEFINE acknowledged == Respond(b, ack)
              written      == [acknowledged EXCEPT !.nsdl_security = content]
              stored       == IF content = "bad"
                              THEN HandleBootstrapError(acknowledged) ELSE written
  <2>1. client' = Respond(stored, response)
    BY <1>2 DEF BootstrapPut
  <2>. HIDE DEF b, c
  <2>2. Quiet(c, acknowledged) /\ acknowledged \in ClientState
    <3>1. Quiet(b, acknowledged)
      BY <1>1, RespondQuiet
    <3>. QED
      BY <1>1, <3>1, QuietThenQuiet DEF Quiet
  <2>. HIDE DEF acknowledged
  <2>3. ASSUME content # "bad"
        PROVE  written \in ClientState /\ Quiet(acknowledged, written)
    <3>1. written \in ClientState
      BY <2>2, <2>3 DEF ClientState
    <3>. QED
      BY <2>2, <3>1 DEF Quiet, Armed, ClientState
  <2>4. Failing(acknowledged, HandleBootstrapError(acknowledged))
    BY <2>2, HandleBootstrapErrorFailing
  <2>. HIDE DEF written
  <2>5. Failing(acknowledged, stored)
    BY <2>3, <2>4 DEF Failing
  <2>6. stored \in ClientState
    BY <2>5 DEF Failing, Quiet, Retried, Ended
  <2>. HIDE DEF stored
  <2>7. Quiet(stored, Respond(stored, response))
    BY <2>6, RespondQuiet
  <2>8. Failing(c, stored)
    BY <2>2, <2>5, QuietThenFailing
  <2>9. Failing(c, Respond(stored, response))
    BY <2>7, <2>8, FailingThenQuiet
  <2>. QED
    BY <2>1, <2>9 DEF Kind
<1>3. ASSUME NEW pathAccepted \in BOOLEAN, NEW response \in Outcomes,
             BootstrapDelete(pathAccepted, response)
      PROVE  Kind(c, client')
  <2>. DEFINE responded == Respond(b, response)
              emptied   == [responded EXCEPT !.nsdl_security = "incomplete"]
              cleared   == IF response = "unbuilt" \/ b.nsdl_security = "none"
                           THEN responded ELSE emptied
  <2>1. client' = IF pathAccepted /\ b.identity_accepted /\ response # "unbuilt"
                  THEN cleared ELSE HandleBootstrapError(cleared)
    BY <1>3 DEF BootstrapDelete
  <2>. HIDE DEF b, c
  <2>2. Quiet(c, responded) /\ responded \in ClientState
    <3>1. Quiet(b, responded)
      BY <1>1, RespondQuiet
    <3>. QED
      BY <1>1, <3>1, QuietThenQuiet DEF Quiet
  <2>. HIDE DEF responded
  <2>3. emptied \in ClientState
    BY <2>2 DEF ClientState
  <2>4. Quiet(responded, emptied)
    BY <2>2, <2>3 DEF Quiet, Armed, ClientState
  <2>. HIDE DEF emptied
  <2>5. Quiet(c, cleared) /\ cleared \in ClientState
    BY <2>2, <2>3, <2>4, QuietThenQuiet
  <2>. HIDE DEF cleared
  <2>6. Failing(c, HandleBootstrapError(cleared))
    BY <2>5, HandleBootstrapErrorFailing, QuietThenFailing
  <2>. QED
    BY <2>1, <2>5, <2>6 DEF Kind, Failing
<1>4. ASSUME NEW pathAccepted \in BOOLEAN, NEW response \in Outcomes,
             BootstrapFinished(pathAccepted, response)
      PROVE  Kind(c, client')
  <2>. DEFINE responded == Respond(b, response)
              waiting   == [responded EXCEPT !.security      = Provisioned,
                                             !.current_state = "BOOTSTRAP_WAIT"]
  <2>1. client' \in {waiting, HandleBootstrapError(responded)}
    BY <1>4 DEF BootstrapFinished
  <2>. HIDE DEF b, c
  <2>2. Quiet(c, responded) /\ responded \in ClientState
    <3>1. Quiet(b, responded)
      BY <1>1, RespondQuiet
    <3>. QED
      BY <1>1, <3>1, QuietThenQuiet DEF Quiet
  <2>. HIDE DEF responded
  <2>3. waiting \in ClientState
    <3>1. "BOOTSTRAP_WAIT" \in States
      BY DEF States
    <3>2. Provisioned \in Securities \cup {NULL}
      BY ConstantsAssumption DEF Securities
    <3>. QED
      BY <2>2, <3>1, <3>2 DEF ClientState
  <2>4. Quiet(responded, waiting)
    BY <2>2, <2>3 DEF Quiet, Armed, ClientState
  <2>. HIDE DEF waiting
  <2>5. Failing(c, HandleBootstrapError(responded))
    BY <2>2, HandleBootstrapErrorFailing, QuietThenFailing
  <2>6. Quiet(c, waiting)
    BY <2>2, <2>4, QuietThenQuiet
  <2>. QED
    BY <2>1, <2>5, <2>6 DEF Kind, Failing
<1>. QED
  BY <1>2, <1>3, <1>4 DEF BootstrapServer
LEMMA TimerKind ==
    ASSUME client \in ClientState, Timer
    PROVE  Kind(Fresh(client), client')
<1>. DEFINE c == Fresh(client)
<1>1. c \in ClientState
  BY FreshState
<1>2. ASSUME NEW timer \in Timers \ {"Retry"}
      PROVE  Quiet(c, Expired(timer)) /\ Expired(timer) \in ClientState
  <2>. HIDE DEF c
  <2>1. [c EXCEPT !.timers = @ \ {timer}] \in ClientState
    BY <1>1 DEF ClientState
  <2>2. Quiet(c, [c EXCEPT !.timers = @ \ {timer}])
    BY <1>1, <2>1 DEF Quiet, Armed, ClientState
  <2>. QED
    BY <2>1, <2>2 DEF Expired, c
<1>. HIDE DEF c
<1>3. ASSUME RetryTimerExpired PROVE Kind(c, client')
  <2>. DEFINE d == [Expired("Retry") EXCEPT !.retry_timer_expired = TRUE]
  <2>1. Expired("Retry") = [c EXCEPT !.timers = @ \ {"Retry"}]
    BY DEF Expired, c
  <2>2. Expired("Retry") \in ClientState
    BY <1>1, <2>1 DEF ClientState
  <2>3. d \in ClientState
    BY <2>2 DEF ClientState
  <2>4. Quiet(c, d)
    <3>1. d.retry_timer_expired /\ d.told = c.told
      BY <1>1, <2>1 DEF ClientState
    <3>2. d.retry_count = c.retry_count /\ d.reconnecting = c.reconnecting
      BY <1>1, <2>1 DEF ClientState
    <3>. QED
      BY <2>3, <3>1, <3>2 DEF Quiet, Armed
  <2>5. client' \in {StateRegister(d, NULL, FALSE), StateBootstrap(d, NULL)}
    BY <1>3 DEF RetryTimerExpired
  <2>. HIDE DEF d
  <2>6. Quiet(c, StateRegister(d, NULL, FALSE)) /\ Quiet(c, StateBootstrap(d, NULL))
    BY <2>3, <2>4, StateRegisterQuiet, StateBootstrapQuiet, QuietThenQuiet
  <2>. QED
    BY <2>5, <2>6 DEF Kind, Failing
<1>4. ASSUME BootstrapFlowTimerExpired PROVE Kind(c, client')
  <2>1. Quiet(c, Expired("BootstrapFlow")) /\ Expired("BootstrapFlow") \in ClientState
    BY <1>2 DEF Timers, FlowTimers
  <2>2. Failing(c, BootstrapError(Expired("BootstrapFlow")))
    BY <2>1, BootstrapErrorFailing, QuietThenFailing
  <2>. QED
    BY <1>4, <2>2 DEF BootstrapFlowTimerExpired, Kind
<1>5. ASSUME RegistrationFlowTimerExpired PROVE Kind(c, client')
  <2>1. /\ Quiet(c, Expired("RegistrationFlow"))
        /\ Expired("RegistrationFlow") \in ClientState
    BY <1>2 DEF Timers, FlowTimers
  <2>2. Failing(c, RetryRegistration(Expired("RegistrationFlow")))
    BY <2>1, RetryRegistrationFailing, QuietThenFailing
  <2>. QED
    BY <1>5, <2>2 DEF RegistrationFlowTimerExpired, Kind
<1>6. ASSUME QueueSleepTimerExpired PROVE Kind(c, client')
  <2>1. Quiet(c, Expired("QueueSleep"))
    BY <1>2 DEF Timers
  <2>. QED
    BY <1>6, <2>1 DEF QueueSleepTimerExpired, Kind, Failing
<1>7. ASSUME NEW outcome \in Outcomes, RegistrationTimerExpired(outcome)
      PROVE  Kind(c, client')
  BY <1>1, <1>7, SendUpdateRegistrationQuiet
     DEF RegistrationTimerExpired, Kind, Failing, c
<1>8. ASSUME NEW request \in Requests, NEW outcome \in Outcomes,
             NsdlExecutionTimerExpired(request, outcome)
      PROVE  Kind(c, client')
  <2>1. Quiet(c, Received(client)) /\ Received(client) \in ClientState
    BY ReceivedQuiet DEF c
  <2>2. Failing(c, RequestFailed(Received(client), request, outcome))
    BY <2>1, RequestFailedFailing, QuietThenFailing
  <2>. QED
    BY <1>8, <2>2 DEF NsdlExecutionTimerExpired, Kind
<1>. QED
  BY <1>3, <1>4, <1>5, <1>6, <1>7, <1>8 DEF Timer, c

LEMMA NextKind ==
    ASSUME client \in ClientState, Next
    PROVE  Kind(Fresh(client), client')
BY ApplicationKind, NetworkKind, ServerKind, BootstrapServerKind, TimerKind DEF Next

-----------------------------------------------------------------------------
(***************************************************************************)
(* The invariants and the promise.                                         *)
(***************************************************************************)
ReconnectionInv ==
    /\ TypeOK
    /\ RetryTimerArmed
    /\ RetryCountMatchesReconnecting

LEMMA InitReconnectionInv == Init => ReconnectionInv
<1>. SUFFICES ASSUME Init PROVE ReconnectionInv
  OBVIOUS
<1>1. client \in ClientState
  BY ConstantsAssumption DEF Init, ClientState, States, Securities, Callbacks
<1>2. client.reconnecting = FALSE /\ client.retry_count = 0
  BY DEF Init
<1>. QED
  BY <1>1, <1>2
     DEF ReconnectionInv, TypeOK, RetryTimerArmed, RetryCountMatchesReconnecting

LEMMA NextReconnectionInv ==
    ReconnectionInv /\ [Next]_client => ReconnectionInv'
<1>. SUFFICES ASSUME ReconnectionInv, [Next]_client PROVE ReconnectionInv'
  OBVIOUS
<1>1. CASE Next
  <2>. DEFINE c == Fresh(client)
  <2>1. Kind(c, client')
    BY <1>1, NextKind DEF ReconnectionInv, TypeOK
  <2>2. /\ c \in ClientState
        /\ Armed(c)
        /\ c.reconnecting <=> c.retry_count > 0
    BY FreshState DEF ReconnectionInv, TypeOK, RetryTimerArmed, Armed,
                      RetryCountMatchesReconnecting
  <2>. HIDE DEF c
  <2>3. client' \in ClientState /\ (client'.reconnecting => Armed(client'))
    BY <2>1, <2>2 DEF Kind, Failing, Quiet, Retried, Ended, Proceeded
  <2>4. client'.reconnecting <=> client'.retry_count > 0
    BY <2>1, <2>2, ConstantsAssumption
       DEF Kind, Failing, Quiet, Retried, Ended, Proceeded, ClientState
  <2>. QED
    BY <2>3, <2>4 DEF ReconnectionInv, TypeOK, RetryTimerArmed, Armed,
                      RetryCountMatchesReconnecting
<1>2. CASE UNCHANGED client
  BY <1>2 DEF ReconnectionInv, TypeOK, RetryTimerArmed,
              RetryCountMatchesReconnecting
<1>. QED
  BY <1>1, <1>2

\* The type invariant.
THEOREM TypeCorrect == Spec => []TypeOK
<1>1. ReconnectionInv => TypeOK
  BY DEF ReconnectionInv
<1>. QED
  BY <1>1, InitReconnectionInv, NextReconnectionInv, PTL DEF Spec

\* Whatever the application, the network, the servers and the timers do, the
\* retry timer stays armed from the failure that starts it to its expiry
\* (socket_error(), timer_expired()).
THEOREM RetryTimerIsArmed == Spec => []RetryTimerArmed
<1>1. ReconnectionInv => RetryTimerArmed
  BY DEF ReconnectionInv
<1>. QED
  BY <1>1, InitReconnectionInv, NextReconnectionInv, PTL DEF Spec

\* _retry_count and _reconnecting, kept by different functions, never part.
THEOREM RetryCountIsConsistent == Spec => []RetryCountMatchesReconnecting
<1>1. ReconnectionInv => RetryCountMatchesReconnecting
  BY DEF ReconnectionInv
<1>. QED
  BY <1>1, InitReconnectionInv, NextReconnectionInv, PTL DEF Spec
\* The client keeps the promise of module Reconnection: every step counts one
\* failure, starts again, gives up or succeeds as promised, or leaves the
\* reconnection alone.
LEMMA NextPromise ==
    ReconnectionInv /\ [Next]_client => [Promise!Next]_(Promise!reconnectionVars)
<1>. SUFFICES ASSUME ReconnectionInv, [Next]_client
              PROVE  [Promise!Next]_(Promise!reconnectionVars)
  OBVIOUS
<1>1. CASE Next
  <2>. DEFINE c == Fresh(client)
              d == client'
  <2>1. Kind(c, d)
    BY <1>1, NextKind DEF ReconnectionInv, TypeOK
  <2>2. /\ c.retry_count = client.retry_count
        /\ c.reconnecting = client.reconnecting
        /\ c.told = "nothing"
    BY FreshState DEF ReconnectionInv, TypeOK
  <2>3. d.told \in Errors => Report(d.told) = "error"
    BY DEF Report, Errors
  <2>4. d.told = "nothing" => Report(d.told) = "nothing"
    BY DEF Report, Errors
  <2>5. d.told \in Callbacks \ Errors => Report(d.told) = "success"
    BY DEF Report, Callbacks
  <2>6. Report(d.told) \in Promise!Reports
    BY DEF Report, Promise!Reports
  <2>. HIDE DEF c
  <2>7. CASE Quiet(c, d) \/ Proceeded(c, d)
    <3>1. d.retry_count = client.retry_count /\ d.reconnecting = client.reconnecting
      BY <2>2, <2>7 DEF Quiet, Proceeded
    <3>. QED
      BY <2>6, <3>1 DEF Promise!Next, Promise!Proceed
  <2>8. CASE Retried(c, d)
    <3>1. d.reconnecting = TRUE
      BY <2>8 DEF Retried, ClientState
    <3>2. CASE /\ c.retry_count < RECONNECTION_COUNT
               /\ d.retry_count = c.retry_count + 1
               /\ d.told \in {c.told} \cup Errors
      BY <2>2, <2>3, <2>4, <3>1, <3>2 DEF Promise!Next, Promise!Fail, Promise!Reports
    <3>3. CASE /\ RECONNECTION_LOOP
               /\ c.retry_count = RECONNECTION_COUNT
               /\ d.retry_count = 1
               /\ d.told \in Errors
      BY <2>2, <2>3, <3>1, <3>3 DEF Promise!Next, Promise!StartAgain
    <3>. QED
      BY <2>8, <3>2, <3>3 DEF Retried
  <2>9. CASE Ended(d, Errors)
    <3>1. d.reconnecting = FALSE /\ d.retry_count = 0 /\ d.told \in Errors
      BY <2>9 DEF Ended, ClientState
    <3>. QED
      BY <2>3, <3>1 DEF Promise!Next, Promise!GiveUp
  <2>10. CASE Ended(d, Callbacks \ Errors)
    <3>1. d.reconnecting = FALSE /\ d.retry_count = 0 /\ d.told \in Callbacks \ Errors
      BY <2>10 DEF Ended, ClientState
    <3>. QED
      BY <2>5, <3>1 DEF Promise!Next, Promise!Succeed
  <2>. QED
    BY <2>1, <2>7, <2>8, <2>9, <2>10 DEF Kind, Failing
<1>2. CASE UNCHANGED client
  BY <1>2 DEF Promise!reconnectionVars
<1>. QED
  BY <1>1, <1>2

\* M2MInterfaceImpl implements Reconnection: failures are counted one by one up
\* to MBED_CLIENT_RECONNECTION_COUNT, an error is told when the count runs out,
\* and no reconnection ends in silence.
THEOREM ReconnectionIsImplemented == Spec => ImplementsReconnection
<1>1. Init => Promise!Init
  BY DEF Init, Promise!Init, Report, Errors
<1>. QED
  BY <1>1, InitReconnectionInv, NextReconnectionInv, NextPromise, PTL
     DEF Spec, ImplementsReconnection, Promise!Spec
=============================================================================
