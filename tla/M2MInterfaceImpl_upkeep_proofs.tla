------------------- MODULE M2MInterfaceImpl_upkeep_proofs -------------------
(***************************************************************************)
(* More proofs about M2MInterfaceImpl: what an idle client has stopped,    *)
(* that a pending unregistration can be answered, that a bootstrap told to *)
(* be done is complete, that a client that owes an outcome has a timer     *)
(* running, and that a rejection brings the client to rest.                *)
(*                                                                         *)
(* As in M2MInterfaceImpl_proofs each operator has a lemma that says what  *)
(* kind of step it is, the kinds compose, and one lemma per group of       *)
(* actions puts them together.                                             *)
(***************************************************************************)
EXTENDS M2MInterfaceImpl_proofs

-----------------------------------------------------------------------------
(***************************************************************************)
(* The kinds of step.                                                      *)
(***************************************************************************)
\* A timer runs that restarts the attempt or ends it.
Watched(c) == c.timers \cap ({"Retry"} \cup FlowTimers) # {}

\* Nothing depends on what the bootstrap server has written.
Elsewhere(c) == c.current_state # "BOOTSTRAP_WAIT" /\ c.told # "bootstrap_done"

\* The parts of the invariant that every operator preserves, each by itself.
Stopped(c) ==
    c.current_state = "IDLE" => c.timers \cap {"Registration", "NsdlExecution"} = {}

CanEnd(c) == c.unregister_ongoing => "unregister" \in c.outstanding

Complete(c) == Elsewhere(c) \/ c.nsdl_security = "complete"

Tidies(c, d) ==
    /\ Stopped(c) => Stopped(d)
    /\ CanEnd(c) => CanEnd(d)
    /\ Complete(c) => Complete(d)

Holds(c, d) ==
    /\ Elsewhere(c) => Elsewhere(d)
    /\ c.security # NULL => d.security # NULL
    /\ d.ended \in {c.ended, "no"}

Wakeful(c, d) ==
    /\ Watched(c) => Watched(d)
    /\ d.owed => c.owed \/ Watched(d)

Carries(c, d) == Quiet(c, d) /\ Tidies(c, d) /\ Holds(c, d)

Keeps(c, d) == Carries(c, d) /\ Wakeful(c, d)

\* The failure has been told, or a timer will see to it.
Resolved(d) == Watched(d) \/ (~d.owed /\ ~d.reconnecting)

Fails(c, d) ==
    /\ Failing(c, d)
    /\ Tidies(c, d)
    /\ Holds(c, d)
    /\ Armed(c) => (Quiet(c, d) /\ Wakeful(c, d)) \/ Resolved(d)

Settles(c, d) ==
    /\ Failing(c, d)
    /\ Tidies(c, d)
    /\ Holds(c, d)
    /\ Armed(c) => Resolved(d)

\* An attempt over TCP is timed, or refused for want of a server.
Connects(c, d) ==
    /\ Carries(c, d)
    /\ Tcp => Watched(d) \/ (~d.owed /\ c.security = NULL)

\* d differs from c, as far as these kinds tell, at most in the state it has
\* entered, which is neither IDLE nor BOOTSTRAP_WAIT.
Moved(c, d) ==
    /\ d \in ClientState
    /\ d.current_state \in {c.current_state} \cup (States \ {"IDLE", "BOOTSTRAP_WAIT"})
    /\ d.retry_count = c.retry_count
    /\ d.reconnecting = c.reconnecting
    /\ d.retry_timer_expired = c.retry_timer_expired
    /\ d.timers = c.timers
    /\ d.unregister_ongoing = c.unregister_ongoing
    /\ d.outstanding = c.outstanding
    /\ d.nsdl_security = c.nsdl_security
    /\ d.security = c.security
    /\ d.told = c.told
    /\ d.owed = c.owed
    /\ d.ended = c.ended

LEMMA MovedKeeps ==
    ASSUME NEW c, NEW d, Moved(c, d) PROVE Keeps(c, d)
<1>1. Quiet(c, d)
  BY DEF Moved, Quiet, Armed
<1>. QED
  BY <1>1
     DEF Moved, Keeps, Carries, Tidies, Stopped, CanEnd, Complete, Holds, Elsewhere, Wakeful, Watched

LEMMA KeepsRefl == ASSUME NEW c \in ClientState PROVE Keeps(c, c)
BY QuietRefl DEF Keeps, Carries, Tidies, Holds, Wakeful

LEMMA HoldsThenHolds ==
    ASSUME NEW c, NEW d, NEW e, Holds(c, d), Holds(d, e)
    PROVE  Holds(c, e)
BY DEF Holds

LEMMA WakefulThenWakeful ==
    ASSUME NEW c, NEW d, NEW e, Wakeful(c, d), Wakeful(d, e)
    PROVE  Wakeful(c, e)
BY DEF Wakeful

LEMMA KeepsThenKeeps ==
    ASSUME NEW c, NEW d, NEW e, Keeps(c, d), Keeps(d, e)
    PROVE  Keeps(c, e)
BY QuietThenQuiet, HoldsThenHolds, WakefulThenWakeful DEF Keeps, Carries, Tidies

LEMMA KeepsThenFails ==
    ASSUME NEW c, NEW d, NEW e, Keeps(c, d), Fails(d, e)
    PROVE  Fails(c, e)
<1>1. Armed(c) => Armed(d)
  BY DEF Keeps, Carries, Quiet
<1>. QED
  BY <1>1, QuietThenQuiet, QuietThenFailing, HoldsThenHolds, WakefulThenWakeful
     DEF Keeps, Carries, Fails, Tidies

LEMMA FailsThenKeeps ==
    ASSUME NEW c, NEW d, NEW e, Fails(c, d), Keeps(d, e)
    PROVE  Fails(c, e)
<1>1. Resolved(d) => Resolved(e)
  BY DEF Keeps, Carries, Quiet, Wakeful, Resolved
<1>. QED
  BY <1>1, QuietThenQuiet, FailingThenQuiet, HoldsThenHolds, WakefulThenWakeful
     DEF Keeps, Carries, Fails, Tidies

LEMMA CarriesThenCarries ==
    ASSUME NEW c, NEW d, NEW e, Carries(c, d), Carries(d, e)
    PROVE  Carries(c, e)
BY QuietThenQuiet, HoldsThenHolds DEF Carries, Tidies

LEMMA CarriesThenSettles ==
    ASSUME NEW c, NEW d, NEW e, Carries(c, d), Settles(d, e)
    PROVE  Settles(c, e)
<1>1. Armed(c) => Armed(d)
  BY DEF Carries, Quiet
<1>. QED
  BY <1>1, QuietThenFailing, HoldsThenHolds DEF Carries, Settles, Tidies

LEMMA SettlesThenKeeps ==
    ASSUME NEW c, NEW d, NEW e, Settles(c, d), Keeps(d, e)
    PROVE  Settles(c, e)
<1>1. Resolved(d) => Resolved(e)
  BY DEF Keeps, Carries, Quiet, Wakeful, Resolved
<1>. QED
  BY <1>1, FailingThenQuiet, HoldsThenHolds DEF Keeps, Carries, Settles, Tidies

LEMMA SettlesIsFails ==
    ASSUME NEW c, NEW d, Settles(c, d) PROVE Fails(c, d)
BY DEF Settles, Fails

LEMMA KeepsIsFails ==
    ASSUME NEW c, NEW d, Keeps(c, d) PROVE Fails(c, d)
BY DEF Keeps, Carries, Fails, Failing

-----------------------------------------------------------------------------
(***************************************************************************)
(* The operators.                                                          *)
(***************************************************************************)
LEMMA TellKeeps ==
    ASSUME NEW c \in ClientState, NEW error \in Errors
    PROVE  Keeps(c, Tell(c, error))
<1>. DEFINE d == Tell(c, error)
<1>1. /\ d.current_state = c.current_state
      /\ d.timers = c.timers
      /\ d.unregister_ongoing = c.unregister_ongoing
      /\ d.outstanding = c.outstanding
      /\ d.nsdl_security = c.nsdl_security
      /\ d.security = c.security
      /\ d.ended = c.ended
      /\ d.told = error
      /\ ~d.owed
  BY DEF Tell, ClientState
<1>2. error # "bootstrap_done"
  BY DEF Errors
<1>3. Quiet(c, d)
  BY TellQuiet
<1>. HIDE DEF d
<1>4. Keeps(c, d)
  BY <1>1, <1>2, <1>3
     DEF Keeps, Carries, Tidies, Stopped, CanEnd, Complete, Holds, Elsewhere, Wakeful, Watched
<1>. QED
  BY <1>4 DEF d

LEMMA StateIdleKeeps ==
    ASSUME NEW c \in ClientState PROVE Keeps(c, StateIdle(c))
<1>. DEFINE d == StateIdle(c)
<1>1. /\ d.current_state = "IDLE"
      /\ d.timers = c.timers \ {"Registration", "NsdlExecution"}
      /\ d.unregister_ongoing = FALSE
      /\ d.nsdl_security = c.nsdl_security
      /\ d.security = c.security
      /\ d.ended = c.ended
      /\ d.told = c.told
      /\ d.owed = c.owed
  BY DEF StateIdle, ClientState
<1>2. Quiet(c, d)
  BY StateIdleQuiet
<1>. HIDE DEF d
<1>3. Watched(c) => Watched(d)
  BY <1>1 DEF Watched, FlowTimers
<1>4. Keeps(c, d)
  BY <1>1, <1>2, <1>3
     DEF Keeps, Carries, Tidies, Stopped, CanEnd, Complete, Holds, Elsewhere, Wakeful, FlowTimers
<1>. QED
  BY <1>4 DEF d

LEMMA StateWaitingKeeps ==
    ASSUME NEW c \in ClientState PROVE Keeps(c, StateWaiting(c))
<1>1. StateWaiting(c) \in ClientState
  BY StateWaitingQuiet DEF Quiet
<1>2. Moved(c, StateWaiting(c))
  BY <1>1 DEF Moved, StateWaiting, ClientState, States
<1>. QED
  BY <1>2, MovedKeeps

LEMMA StateIdleWithErrorKeeps ==
    ASSUME NEW c \in ClientState, NEW error \in Errors
    PROVE  Keeps(c, StateIdleWithError(c, error))
<1>1. Keeps(c, StateIdle(c)) /\ StateIdle(c) \in ClientState
  BY StateIdleKeeps DEF Keeps, Carries, Quiet
<1>2. Keeps(StateIdle(c), Tell(StateIdle(c), error))
  BY <1>1, TellKeeps
<1>. QED
  BY <1>1, <1>2, KeepsThenKeeps DEF StateIdleWithError

LEMMA CoapMessageReadyKeeps ==
    ASSUME NEW c \in ClientState, NEW outcome
    PROVE  Keeps(c, CoapMessageReady(c, outcome))
BY KeepsRefl, StateWaitingKeeps, StateIdleKeeps, StateIdleWithErrorKeeps
   DEF CoapMessageReady, Errors

LEMMA RespondKeeps ==
    ASSUME NEW c \in ClientState, NEW outcome
    PROVE  Keeps(c, Respond(c, outcome))
BY KeepsRefl, CoapMessageReadyKeeps DEF Respond

LEMMA SendRequestKeeps ==
    ASSUME NEW c \in ClientState, NEW request \in Requests, NEW outcome
    PROVE  Keeps(c, SendRequest(c, request, outcome))
<1>. DEFINE r == Respond(c, outcome)
            d == [r EXCEPT !.outstanding = @ \cup {request}]
<1>1. Keeps(c, r) /\ r \in ClientState
  BY RespondKeeps DEF Keeps, Carries, Quiet
<1>. HIDE DEF r
<1>2. d \in ClientState
  BY <1>1 DEF ClientState
<1>3. Quiet(r, d)
  BY <1>1, <1>2 DEF Quiet, Armed, ClientState
<1>4. /\ d.current_state = r.current_state
      /\ d.timers = r.timers
      /\ d.unregister_ongoing = r.unregister_ongoing
      /\ d.outstanding = r.outstanding \cup {request}
      /\ d.nsdl_security = r.nsdl_security
      /\ d.security = r.security
      /\ d.ended = r.ended
      /\ d.told = r.told
      /\ d.owed = r.owed
  BY <1>1 DEF ClientState
<1>. HIDE DEF d
<1>5. Keeps(r, d)
  BY <1>3, <1>4
     DEF Keeps, Carries, Tidies, Stopped, CanEnd, Complete, Holds, Elsewhere, Wakeful, Watched
<1>. QED
  BY <1>1, <1>5, KeepsThenKeeps DEF SendRequest, r, d

\* A client that is not idle may start the timer of the nsdl library.
LEMMA SendRegisterMessageKeeps ==
    ASSUME NEW c \in ClientState, c.current_state # "IDLE", NEW outcome
    PROVE  Keeps(c, SendRegisterMessage(c, outcome))
<1>. DEFINE d == [c EXCEPT !.timers = @ \cup {"NsdlExecution"}]
<1>1. d \in ClientState
  BY DEF ClientState, Timers
<1>2. Quiet(c, d)
  BY <1>1 DEF Quiet, Armed, ClientState
<1>3. /\ d.current_state = c.current_state
      /\ d.timers = c.timers \cup {"NsdlExecution"}
      /\ d.unregister_ongoing = c.unregister_ongoing
      /\ d.outstanding = c.outstanding
      /\ d.nsdl_security = c.nsdl_security
      /\ d.security = c.security
      /\ d.ended = c.ended
      /\ d.told = c.told
      /\ d.owed = c.owed
  BY DEF ClientState
<1>. HIDE DEF d
<1>4. Keeps(c, d)
  BY <1>2, <1>3
     DEF Keeps, Carries, Tidies, Stopped, CanEnd, Complete, Holds, Elsewhere, Wakeful, Watched, FlowTimers
<1>5. Keeps(d, StateIdleWithError(d, "InvalidParameters"))
  BY <1>1, StateIdleWithErrorKeeps DEF Errors
<1>6. Keeps(d, SendRequest(d, "register", outcome))
  BY <1>1, SendRequestKeeps DEF Requests
<1>. QED
  BY <1>4, <1>5, <1>6, KeepsThenKeeps DEF SendRegisterMessage, d

\* A new lifetime starts the registration timer, unless nothing does.
LEMMA SendUpdateRegistrationKeeps ==
    ASSUME NEW c \in ClientState, NEW lifetime, NEW outcome,
           c.current_state # "IDLE" \/ lifetime = "keep"
    PROVE  Keeps(c, SendUpdateRegistration(c, lifetime, outcome))
<1>. DEFINE d == [c EXCEPT !.lifetime = TRUE,
                           !.timers   = @ \cup {"Registration"}]
            begun == IF lifetime = "keep" THEN c ELSE d
<1>1. d \in ClientState
  BY DEF ClientState, Timers
<1>2. Quiet(c, d)
  BY <1>1 DEF Quiet, Armed, ClientState
<1>3. /\ d.current_state = c.current_state
      /\ d.timers = c.timers \cup {"Registration"}
      /\ d.unregister_ongoing = c.unregister_ongoing
      /\ d.outstanding = c.outstanding
      /\ d.nsdl_security = c.nsdl_security
      /\ d.security = c.security
      /\ d.ended = c.ended
      /\ d.told = c.told
      /\ d.owed = c.owed
  BY DEF ClientState
<1>. HIDE DEF d
<1>4. c.current_state # "IDLE" => Keeps(c, d)
  BY <1>2, <1>3
     DEF Keeps, Carries, Tidies, Stopped, CanEnd, Complete, Holds, Elsewhere, Wakeful, Watched, FlowTimers
<1>5. Keeps(c, begun) /\ begun \in ClientState
  BY <1>1, <1>4, KeepsRefl
<1>6. Keeps(begun, SendRequest(begun, "update", RequestOutcome(c, outcome)))
  BY <1>5, SendRequestKeeps DEF Requests
<1>. QED
  BY <1>5, <1>6, KeepsThenKeeps DEF SendUpdateRegistration, d

LEMMA StateUpdateRegistrationKeeps ==
    ASSUME NEW c \in ClientState, NEW lifetime, NEW outcome
    PROVE  Keeps(c, StateUpdateRegistration(c, lifetime, outcome))
<1>. DEFINE entered == [c EXCEPT !.current_state = "UPDATE_REGISTRATION"]
            updated == SendUpdateRegistration(entered, lifetime, outcome)
            full    == [updated EXCEPT !.reconnection_state = "FullRegistration"]
            unbuilt == RequestOutcome(c, outcome) = "unbuilt"
<1>1. entered \in ClientState
  BY AssignTyped DEF States
<1>2. Moved(c, entered)
  BY <1>1 DEF Moved, ClientState, States
<1>3. /\ entered.current_state = "UPDATE_REGISTRATION"
      /\ entered.ep_registered = c.ep_registered
  BY DEF ClientState
<1>. HIDE DEF entered
<1>4. Keeps(c, entered)
  BY <1>2, MovedKeeps
<1>5. Keeps(c, updated) /\ updated \in ClientState
  <2>1. Keeps(entered, updated)
    BY <1>1, <1>3, SendUpdateRegistrationKeeps
  <2>. QED
    BY <1>4, <2>1, KeepsThenKeeps DEF Keeps, Carries, Quiet
<1>6. unbuilt => updated.current_state = "UPDATE_REGISTRATION"
  <2>. DEFINE renewed == [entered EXCEPT !.lifetime = TRUE,
                                         !.timers   = @ \cup {"Registration"}]
              begun == IF lifetime = "keep" THEN entered ELSE renewed
  <2>1. begun.current_state = "UPDATE_REGISTRATION"
    BY <1>1, <1>3 DEF ClientState
  <2>2. RequestOutcome(entered, outcome) = RequestOutcome(c, outcome)
    BY <1>3 DEF RequestOutcome
  <2>. HIDE DEF begun
  <2>3. SendRequest(begun, "update", "unbuilt") = begun
    BY DEF SendRequest, Respond
  <2>4. updated = SendRequest(begun, "update", RequestOutcome(entered, outcome))
    BY DEF SendUpdateRegistration, begun
  <2>. QED
    BY <2>1, <2>2, <2>3, <2>4
<1>. HIDE DEF updated
<1>7. full \in ClientState
  BY <1>5, AssignTyped
<1>8. full.current_state = updated.current_state
  BY <1>5 DEF ClientState
<1>9. Moved(updated, full)
  BY <1>5, <1>7 DEF Moved, ClientState
<1>. HIDE DEF full
<1>10. Keeps(updated, full)
  BY <1>9, MovedKeeps
<1>11. unbuilt => Keeps(c, SendRegisterMessage(full, outcome))
  <2>. SUFFICES ASSUME unbuilt PROVE Keeps(c, SendRegisterMessage(full, outcome))
    OBVIOUS
  <2>1. Keeps(full, SendRegisterMessage(full, outcome))
    BY <1>6, <1>7, <1>8, SendRegisterMessageKeeps
  <2>. QED
    BY <1>5, <1>10, <2>1, KeepsThenKeeps
<1>. QED
  BY <1>5, <1>11 DEF StateUpdateRegistration, entered, updated, full

\* An unregistration is pending only once it is sent.
LEMMA StateUnregisterKeeps ==
    ASSUME NEW c \in ClientState, NEW outcome
    PROVE  Keeps(c, StateUnregister(c, outcome))
<1>. DEFINE w == StateWaiting(c)
            o == [w EXCEPT !.unregister_ongoing = TRUE]
            refused == StateIdleWithError(o, "NotRegistered")
            sent    == SendRequest(o, "unregister", outcome)
<1>1. Keeps(c, w) /\ w \in ClientState /\ w.current_state = "WAITING"
  <2>1. w.current_state = "WAITING"
    BY DEF StateWaiting, ClientState
  <2>. QED
    BY <2>1, StateWaitingKeeps DEF Keeps, Carries, Quiet
<1>. HIDE DEF w
<1>2. o \in ClientState
  BY <1>1, AssignTyped
<1>3. Quiet(w, o)
  BY <1>1, <1>2 DEF Quiet, Armed, ClientState
<1>4. /\ o.current_state = "WAITING"
      /\ o.timers = w.timers
      /\ o.nsdl_security = w.nsdl_security
      /\ o.security = w.security
      /\ o.ended = w.ended
      /\ o.told = w.told
      /\ o.owed = w.owed
  BY <1>1 DEF ClientState
<1>. HIDE DEF o
<1>5. /\ Holds(w, o)
      /\ Wakeful(w, o)
      /\ Stopped(w) => Stopped(o)
      /\ Complete(w) => Complete(o)
  BY <1>1, <1>4 DEF Stopped, Complete, Holds, Elsewhere, Wakeful, Watched
<1>6. Keeps(o, refused) /\ Keeps(o, sent)
  BY <1>2, StateIdleWithErrorKeeps, SendRequestKeeps DEF Errors, Requests
<1>7. ASSUME NEW e \in ClientState
      PROVE  /\ StateIdle(e).unregister_ongoing = FALSE
             /\ StateIdleWithError(e, "NotRegistered").unregister_ongoing = FALSE
             /\ StateIdleWithError(e, "NetworkError").unregister_ongoing = FALSE
  <2>1. StateIdle(e) \in ClientState
    BY StateIdleKeeps DEF Keeps, Carries, Quiet
  <2>2. StateIdle(e).unregister_ongoing = FALSE
    BY DEF StateIdle, ClientState
  <2>. HIDE DEF StateIdle
  <2>. QED
    BY <2>1, <2>2 DEF StateIdleWithError, Tell, ClientState
<1>8. ~refused.unregister_ongoing
  BY <1>2, <1>7
<1>9. outcome # "unbuilt" =>
        ~sent.unregister_ongoing \/ "unregister" \in sent.outstanding
  <2>1. CASE outcome = "sent"
    <3>. DEFINE r == Respond(o, outcome)
    <3>1. r \in ClientState
      BY <1>2, RespondKeeps DEF Keeps, Carries, Quiet
    <3>. HIDE DEF r
    <3>2. sent = [r EXCEPT !.outstanding = @ \cup {"unregister"}]
      BY <1>4, <2>1 DEF SendRequest, r
    <3>. QED
      BY <3>1, <3>2 DEF ClientState
  <2>2. CASE outcome # "sent" /\ outcome # "unbuilt"
    <3>1. sent \in {StateIdle(o), StateIdleWithError(o, "NetworkError")}
      BY <1>4, <2>2 DEF SendRequest, Respond, CoapMessageReady
    <3>. QED
      BY <1>2, <1>7, <3>1
  <2>. QED
    BY <2>1, <2>2
<1>. HIDE DEF refused, sent
<1>10. Tidies(w, refused) /\ (outcome # "unbuilt" => Tidies(w, sent))
  BY <1>5, <1>6, <1>8, <1>9 DEF Keeps, Carries, Tidies, CanEnd
<1>11. Keeps(c, refused) /\ (outcome # "unbuilt" => Keeps(c, sent))
  BY <1>1, <1>3, <1>5, <1>6, <1>10, QuietThenQuiet, HoldsThenHolds,
     WakefulThenWakeful, KeepsThenKeeps DEF Keeps, Carries
<1>. QED
  BY <1>1, <1>11 DEF StateUnregister, RequestOutcome, w, o, refused, sent

\* Connecting: over TCP the flow timer watches the attempt.
LEMMA ConnectKeeps ==
    ASSUME NEW c \in ClientState, NEW flow \in FlowTimers,
           NEW type \in {"Bootstrap", "LWM2MServer"}
    PROVE  Keeps(c, Connect(c, flow, type)) /\ (Tcp => Watched(Connect(c, flow, type)))
<1>. DEFINE s == StartFlowTimer(c, flow)
            d == Connect(c, flow, type)
<1>1. s \in ClientState
  BY StartFlowTimerQuiet DEF Quiet
<1>2. /\ s.current_state = c.current_state
      /\ s.timers = IF Tcp THEN (c.timers \ FlowTimers) \cup {flow} ELSE c.timers
      /\ s.unregister_ongoing = c.unregister_ongoing
      /\ s.outstanding = c.outstanding
      /\ s.nsdl_security = c.nsdl_security
      /\ s.security = c.security
      /\ s.ended = c.ended
      /\ s.told = c.told
      /\ s.owed = c.owed
  BY DEF StartFlowTimer, ClientState
<1>. HIDE DEF s
<1>3. /\ d.current_state = s.current_state
      /\ d.timers = s.timers
      /\ d.unregister_ongoing = s.unregister_ongoing
      /\ d.outstanding = s.outstanding
      /\ d.nsdl_security = s.nsdl_security
      /\ d.security = s.security
      /\ d.ended = s.ended
      /\ d.told = s.told
      /\ d.owed = s.owed
  BY <1>1 DEF Connect, ResolveServerAddress, ClientState, s
<1>4. Quiet(c, d)
  BY ConnectQuiet
<1>. HIDE DEF d
<1>5. /\ Stopped(c) => Stopped(d)
      /\ Watched(c) => Watched(d)
      /\ Tcp => Watched(d)
  BY <1>2, <1>3 DEF Stopped, Watched, FlowTimers
<1>6. Keeps(c, d)
  BY <1>2, <1>3, <1>4, <1>5
     DEF Keeps, Carries, Tidies, CanEnd, Complete, Holds, Elsewhere, Wakeful
<1>. QED
  BY <1>5, <1>6 DEF d

LEMMA KeepsThenConnects ==
    ASSUME NEW c, NEW d, NEW e, Keeps(c, d), Keeps(d, e),
           Tcp => Watched(e) \/ (~e.owed /\ c.security = NULL)
    PROVE  Connects(c, e)
BY KeepsThenKeeps DEF Keeps, Carries, Connects

LEMMA StateRegisterConnects ==
    ASSUME NEW c \in ClientState, NEW object \in Securities \cup {NULL},
           NEW listCreated
    PROVE  Connects(c, StateRegister(c, object, listCreated))
<1>. DEFINE entered == [c EXCEPT !.current_state = "REGISTER"]
            adopted == [entered EXCEPT !.security = object]
            aimed   == [adopted EXCEPT !.server_address = object]
            refused == StateIdleWithError(adopted, "InvalidParameters")
<1>1. entered \in ClientState
  BY AssignTyped DEF States
<1>2. adopted \in ClientState
  BY <1>1, AssignTyped
<1>3. aimed \in ClientState
  BY <1>2, AssignTyped
<1>4. Quiet(c, entered) /\ Quiet(c, adopted) /\ Quiet(c, aimed)
  BY <1>1, <1>2, <1>3 DEF Quiet, Armed, ClientState
<1>5. \A d \in {entered, adopted, aimed} :
        /\ d.current_state = "REGISTER"
        /\ d.timers = c.timers
        /\ d.unregister_ongoing = c.unregister_ongoing
        /\ d.outstanding = c.outstanding
        /\ d.nsdl_security = c.nsdl_security
        /\ d.ended = c.ended
        /\ d.told = c.told
        /\ d.owed = c.owed
  BY DEF ClientState
<1>6. entered.security = c.security
  BY DEF ClientState
<1>. HIDE DEF entered, adopted, aimed
<1>7. /\ Keeps(c, entered)
      /\ c.security = NULL => Keeps(c, adopted) /\ Keeps(c, aimed)
  BY <1>4, <1>5, <1>6
     DEF Keeps, Carries, Tidies, Stopped, CanEnd, Complete, Holds, Elsewhere, Wakeful, Watched
<1>8. CASE c.security # NULL
  <2>1. Connects(c, Connect(entered, "RegistrationFlow", "LWM2MServer"))
    BY <1>1, <1>7, ConnectKeeps, KeepsThenConnects DEF FlowTimers
  <2>. QED
    BY <1>8, <2>1 DEF StateRegister, entered
<1>9. CASE c.security = NULL
  <2>1. Connects(c, Connect(aimed, "RegistrationFlow", "LWM2MServer"))
    BY <1>3, <1>7, <1>9, ConnectKeeps, KeepsThenConnects DEF FlowTimers
  <2>2. Connects(c, refused)
    <3>1. Keeps(adopted, refused)
      BY <1>2, StateIdleWithErrorKeeps DEF Errors
    <3>2. ~refused.owed
      <4>1. StateIdle(adopted) \in ClientState
        BY <1>2, StateIdleQuiet DEF Quiet
      <4>. QED
        BY <4>1 DEF StateIdleWithError, Tell, ClientState
    <3>. QED
      BY <1>7, <1>9, <3>1, <3>2, KeepsThenConnects
  <2>. QED
    BY <1>9, <2>1, <2>2 DEF StateRegister, entered, adopted, aimed
<1>. QED
  BY <1>8, <1>9

LEMMA StateBootstrapConnects ==
    ASSUME NEW c \in ClientState, NEW object \in Securities \cup {NULL}
    PROVE  Connects(c, StateBootstrap(c, object))
<1>. DEFINE entered == [c EXCEPT !.current_state = "BOOTSTRAP",
                                 !.bootstrapped = FALSE]
            adopted == [entered EXCEPT !.security = object]
            aimed   == [adopted EXCEPT !.server_address = object]
            refused == StateIdleWithError(adopted, "InvalidParameters")
<1>1. entered \in ClientState
  BY AssignTyped DEF States
<1>2. /\ entered.current_state = "BOOTSTRAP"
      /\ entered.timers = c.timers
      /\ entered.unregister_ongoing = c.unregister_ongoing
      /\ entered.outstanding = c.outstanding
      /\ entered.nsdl_security = c.nsdl_security
      /\ entered.security = c.security
      /\ entered.ended = c.ended
      /\ entered.told = c.told
      /\ entered.owed = c.owed
      /\ entered.retry_count = c.retry_count
      /\ entered.reconnecting = c.reconnecting
      /\ entered.retry_timer_expired = c.retry_timer_expired
  BY DEF ClientState
<1>. HIDE DEF entered
<1>3. adopted \in ClientState
  BY <1>1, AssignTyped
<1>4. aimed \in ClientState
  BY <1>3, AssignTyped
<1>. DEFINE Like(d) == /\ d.current_state = entered.current_state
                       /\ d.timers = entered.timers
                       /\ d.unregister_ongoing = entered.unregister_ongoing
                       /\ d.outstanding = entered.outstanding
                       /\ d.nsdl_security = entered.nsdl_security
                       /\ d.ended = entered.ended
                       /\ d.told = entered.told
                       /\ d.owed = entered.owed
                       /\ d.retry_count = entered.retry_count
                       /\ d.reconnecting = entered.reconnecting
                       /\ d.retry_timer_expired = entered.retry_timer_expired
<1>5. Like(adopted) /\ Like(aimed)
  <2>1. Like(adopted)
    BY <1>1 DEF ClientState
  <2>. HIDE DEF adopted
  <2>2. Like(aimed)
    BY <1>3, <2>1 DEF ClientState
  <2>. QED
    BY <2>1, <2>2
<1>. HIDE DEF adopted, aimed
<1>6. Quiet(c, entered) /\ Quiet(c, adopted) /\ Quiet(c, aimed)
  BY <1>1, <1>2, <1>3, <1>4, <1>5 DEF Quiet, Armed
<1>7. /\ Keeps(c, entered)
      /\ c.security = NULL => Keeps(c, adopted) /\ Keeps(c, aimed)
  BY <1>2, <1>5, <1>6
     DEF Keeps, Carries, Tidies, Stopped, CanEnd, Complete, Holds, Elsewhere, Wakeful, Watched
<1>8. CASE c.security # NULL
  <2>1. Connects(c, Connect(entered, "BootstrapFlow", "Bootstrap"))
    BY <1>1, <1>7, ConnectKeeps, KeepsThenConnects DEF FlowTimers
  <2>. QED
    BY <1>8, <2>1 DEF StateBootstrap, entered
<1>9. CASE c.security = NULL
  <2>1. Connects(c, Connect(aimed, "BootstrapFlow", "Bootstrap"))
    BY <1>4, <1>7, <1>9, ConnectKeeps, KeepsThenConnects DEF FlowTimers
  <2>2. Connects(c, refused)
    <3>1. Keeps(adopted, refused)
      BY <1>3, StateIdleWithErrorKeeps DEF Errors
    <3>2. ~refused.owed
      <4>1. StateIdle(adopted) \in ClientState
        BY <1>3, StateIdleQuiet DEF Quiet
      <4>. QED
        BY <4>1 DEF StateIdleWithError, Tell, ClientState
    <3>. QED
      BY <1>7, <1>9, <3>1, <3>2, KeepsThenConnects
  <2>. QED
    BY <1>9, <2>1, <2>2 DEF StateBootstrap, entered, adopted, aimed
<1>. QED
  BY <1>8, <1>9

LEMMA StateRegisterAddressResolvedKeeps ==
    ASSUME NEW c \in ClientState, NEW outcome
    PROVE  Keeps(c, StateRegisterAddressResolved(c, outcome))
<1>. DEFINE d == [c EXCEPT !.current_state = "REGISTER_ADDRESS_RESOLVED",
                           !.connection    = "open"]
<1>1. d \in ClientState
  BY AssignTyped DEF States
<1>2. d.current_state # "IDLE" /\ Moved(c, d)
  BY <1>1 DEF Moved, ClientState, States
<1>. HIDE DEF d
<1>3. Keeps(c, d)
  BY <1>2, MovedKeeps
<1>4. Keeps(d, StateUpdateRegistration(d, "keep", outcome))
  BY <1>1, StateUpdateRegistrationKeeps
<1>5. Keeps(d, SendRegisterMessage(d, outcome))
  BY <1>1, <1>2, SendRegisterMessageKeeps
<1>. QED
  BY <1>3, <1>4, <1>5, KeepsThenKeeps DEF StateRegisterAddressResolved, d

LEMMA StateBootstrapAddressResolvedKeeps ==
    ASSUME NEW c \in ClientState, NEW outcome
    PROVE  Keeps(c, StateBootstrapAddressResolved(c, outcome))
<1>. DEFINE d == [c EXCEPT !.current_state = "BOOTSTRAP_ADDRESS_RESOLVED",
                           !.connection    = "open"]
            a == [d EXCEPT !.identity_accepted = FALSE]
            r == SendRequest(a, "bootstrap", outcome)
            e == [r EXCEPT !.bootstrap_id  = TRUE,
                           !.current_state = "BOOTSTRAP_RESOURCE_CREATED"]
<1>1. d \in ClientState
  BY AssignTyped DEF States
<1>2. Moved(c, d)
  BY <1>1 DEF Moved, ClientState, States
<1>. HIDE DEF d
<1>3. a \in ClientState
  BY <1>1, AssignTyped
<1>4. Moved(d, a)
  BY <1>1, <1>3 DEF Moved, ClientState
<1>. HIDE DEF a
<1>5. Keeps(a, r) /\ r \in ClientState
  BY <1>3, SendRequestKeeps DEF Keeps, Carries, Quiet, Requests
<1>. HIDE DEF r
<1>6. e \in ClientState
  BY <1>5, AssignTyped DEF States
<1>7. Moved(r, e)
  BY <1>5, <1>6 DEF Moved, ClientState, States
<1>. HIDE DEF e
<1>8. Keeps(c, d) /\ Keeps(d, a) /\ Keeps(r, e)
  BY <1>2, <1>4, <1>7, MovedKeeps
<1>9. Keeps(d, Tell(d, "InvalidParameters"))
  BY <1>1, TellKeeps DEF Errors
<1>10. Keeps(a, StateIdleWithError(a, "InvalidParameters"))
  BY <1>3, StateIdleWithErrorKeeps DEF Errors
<1>11. /\ Keeps(c, Tell(d, "InvalidParameters"))
       /\ Keeps(c, StateIdleWithError(a, "InvalidParameters"))
       /\ Keeps(c, e)
  BY <1>5, <1>8, <1>9, <1>10, KeepsThenKeeps
<1>. QED
  BY <1>11 DEF StateBootstrapAddressResolved, d, a, r, e

\* A client that stops its flow timer is awake no longer.
LEMMA StopFlowTimerCarries ==
    ASSUME NEW c \in ClientState PROVE Carries(c, StopFlowTimer(c))
<1>. DEFINE d == StopFlowTimer(c)
<1>1. Quiet(c, d)
  BY StopFlowTimerQuiet
<1>2. /\ d.current_state = c.current_state
      /\ d.timers = c.timers \ FlowTimers
      /\ d.unregister_ongoing = c.unregister_ongoing
      /\ d.outstanding = c.outstanding
      /\ d.nsdl_security = c.nsdl_security
      /\ d.security = c.security
      /\ d.ended = c.ended
      /\ d.told = c.told
  BY DEF StopFlowTimer, ClientState
<1>. HIDE DEF d
<1>3. Carries(c, d)
  BY <1>1, <1>2
     DEF Carries, Tidies, Stopped, CanEnd, Complete, Holds, Elsewhere
<1>. QED
  BY <1>3 DEF d

\* A failure that is retried arms the retry timer.
LEMMA ScheduleRetrySettles ==
    ASSUME NEW c \in ClientState, NEW code,
           c.retry_count < RECONNECTION_COUNT \/ RECONNECTION_LOOP
    PROVE  Settles(c, ScheduleRetry(c, code))
<1>. DEFINE more    == [c EXCEPT !.retry_count = @ + 1]
            again   == [c EXCEPT !.retry_count = 1]
            told    == Tell(again, ErrorOf(code))
            counted == IF c.retry_count < RECONNECTION_COUNT THEN more ELSE told
            idle    == StateIdle(counted)
            d       == Rearm(idle)
<1>1. counted \in ClientState
  <2>1. again \in ClientState
    BY ConstantsAssumption DEF ClientState
  <2>2. told \in ClientState
    BY <2>1, ErrorOfIsError, TellQuiet DEF Quiet
  <2>3. c.retry_count < RECONNECTION_COUNT => more \in ClientState
    BY ConstantsAssumption DEF ClientState
  <2>. QED
    BY <2>2, <2>3
<1>2. Tidies(c, counted) /\ Holds(c, counted)
  <2>. DEFINE Like(e) == /\ e.current_state = c.current_state
                         /\ e.timers = c.timers
                         /\ e.unregister_ongoing = c.unregister_ongoing
                         /\ e.outstanding = c.outstanding
                         /\ e.nsdl_security = c.nsdl_security
                         /\ e.security = c.security
                         /\ e.ended = c.ended
                         /\ e.told \in {c.told} \cup Errors
  <2>1. Like(more) /\ Like(told)
    <3>1. Like(more)
      BY DEF ClientState
    <3>2. Like(told)
      BY ErrorOfIsError DEF Tell, ClientState
    <3>. QED
      BY <3>1, <3>2
  <2>2. "bootstrap_done" \notin Errors
    BY DEF Errors
  <2>3. counted \in {more, told}
    OBVIOUS
  <2>. HIDE DEF more, told, counted
  <2>. QED
    BY <2>1, <2>2, <2>3
       DEF Tidies, Stopped, CanEnd, Complete, Holds, Elsewhere
<1>. HIDE DEF counted
<1>3. Keeps(counted, idle) /\ idle \in ClientState /\ idle.current_state = "IDLE"
  <2>1. idle.current_state = "IDLE"
    BY <1>1 DEF StateIdle, ClientState
  <2>. QED
    BY <1>1, <2>1, StateIdleKeeps DEF Keeps, Carries, Quiet
<1>. HIDE DEF idle
<1>4. Tidies(idle, d) /\ Holds(idle, d) /\ Watched(d)
  <2>1. /\ d.current_state = idle.current_state
        /\ d.timers = idle.timers \cup {"Retry"}
        /\ d.unregister_ongoing = idle.unregister_ongoing
        /\ d.outstanding = idle.outstanding
        /\ d.nsdl_security = idle.nsdl_security
        /\ d.security = idle.security
        /\ d.ended = idle.ended
        /\ d.told = idle.told
    BY <1>3 DEF Rearm, ClientState
  <2>. HIDE DEF d
  <2>. QED
    BY <2>1 DEF Tidies, Stopped, CanEnd, Complete, Holds, Elsewhere,
                Watched, FlowTimers
<1>5. d = ScheduleRetry(c, code)
  BY DEF ScheduleRetry, Rearm, counted, idle
<1>6. Failing(c, d)
  BY <1>5, ScheduleRetryRetried DEF Failing
<1>. HIDE DEF d
<1>7. Tidies(c, d) /\ Holds(c, d)
  BY <1>2, <1>3, <1>4, HoldsThenHolds DEF Keeps, Carries, Tidies
<1>. QED
  BY <1>4, <1>5, <1>6, <1>7 DEF Settles, Resolved

\* A failure that is not retried is told.
LEMMA GiveUpSettles ==
    ASSUME NEW c \in ClientState, NEW code
    PROVE  Settles(c, GiveUp(c, code))
<1>. DEFINE s == [c EXCEPT !.connection         = "closed",
                           !.timers             = @ \ {"Retry"},
                           !.retry_count        = 0,
                           !.reconnecting       = FALSE,
                           !.reconnection_state = "None"]
            d == StateIdleWithError(s, ErrorOf(code))
<1>1. s \in ClientState
  <2>1. c.timers \ {"Retry"} \in SUBSET Timers /\ 0 \in 0..RECONNECTION_COUNT
    BY ConstantsAssumption DEF ClientState
  <2>2. [c EXCEPT !.connection = "closed"].timers = c.timers
    BY DEF ClientState
  <2>. QED
    BY <2>1, <2>2, AssignTyped
<1>2. /\ s.current_state = c.current_state
      /\ s.timers = c.timers \ {"Retry"}
      /\ s.unregister_ongoing = c.unregister_ongoing
      /\ s.outstanding = c.outstanding
      /\ s.nsdl_security = c.nsdl_security
      /\ s.security = c.security
      /\ s.ended = c.ended
      /\ s.told = c.told
  BY DEF ClientState
<1>. HIDE DEF s
<1>3. Tidies(c, s) /\ Holds(c, s)
  BY <1>2 DEF Tidies, Stopped, CanEnd, Complete, Holds, Elsewhere
<1>4. Keeps(s, d)
  BY <1>1, ErrorOfIsError, StateIdleWithErrorKeeps
<1>5. ~d.owed
  <2>1. StateIdle(s) \in ClientState
    BY <1>1, StateIdleQuiet DEF Quiet
  <2>. QED
    BY <2>1 DEF StateIdleWithError, Tell, ClientState
<1>6. d = GiveUp(c, code)
  BY DEF GiveUp, s
<1>7. Ended(d, Errors)
  BY <1>6, GiveUpEnded
<1>. HIDE DEF d
<1>8. Tidies(c, d) /\ Holds(c, d)
  BY <1>3, <1>4, HoldsThenHolds DEF Keeps, Carries, Tidies
<1>. QED
  BY <1>5, <1>6, <1>7, <1>8 DEF Settles, Resolved, Failing, Ended

\* An error that is dropped is one whose retry timer is running.
LEMMA SocketErrorSettles ==
    ASSUME NEW c \in ClientState, NEW code, NEW retry
    PROVE  Settles(c, SocketError(c, code, retry))
<1>. DEFINE u == [c EXCEPT !.reconnection_state = "WithUpdate"]
            running == ~RECONNECTION_LOOP /\ ~c.retry_timer_expired /\ c.reconnecting
<1>1. u \in ClientState
  BY AssignTyped
<1>2. Moved(c, u)
  BY <1>1 DEF Moved, ClientState
<1>. HIDE DEF u
<1>3. Carries(c, u)
  BY <1>2, MovedKeeps DEF Keeps
<1>4. running => Settles(c, u)
  <2>1. running /\ Armed(c) => Watched(u)
    BY <1>2 DEF Armed, Watched, Moved
  <2>. QED
    BY <1>3, <2>1 DEF Carries, Settles, Resolved, Failing, Armed
<1>5. Settles(c, GiveUp(u, code))
  BY <1>1, <1>3, GiveUpSettles, CarriesThenSettles
<1>6. c.retry_count < RECONNECTION_COUNT \/ RECONNECTION_LOOP =>
        Settles(c, ScheduleRetry(u, code))
  BY <1>1, <1>2, <1>3, ScheduleRetrySettles, CarriesThenSettles DEF Moved
<1>. QED
  BY <1>4, <1>5, <1>6 DEF SocketError, u

LEMMA RetryRegistrationSettles ==
    ASSUME NEW c \in ClientState
    PROVE  Settles(c, RetryRegistration(c))
<1>. DEFINE f == SocketError(c, SOCKET_SEND_ERROR, TRUE)
            d == [f EXCEPT !.reconnection_state = "FullRegistration"]
<1>1. Settles(c, f) /\ f \in ClientState
  BY SocketErrorSettles DEF Settles, Failing, Quiet, Retried, Ended
<1>. HIDE DEF f
<1>2. d \in ClientState
  BY <1>1, AssignTyped
<1>3. Moved(f, d)
  BY <1>1, <1>2 DEF Moved, ClientState
<1>. HIDE DEF d
<1>4. Settles(c, d)
  BY <1>1, <1>3, MovedKeeps, SettlesThenKeeps
<1>. QED
  BY <1>4 DEF RetryRegistration, f, d

LEMMA BootstrapErrorSettles ==
    ASSUME NEW c \in ClientState
    PROVE  Settles(c, BootstrapError(c))
<1>. DEFINE u == [c EXCEPT !.bootstrapped = FALSE]
            s == StopFlowTimer(u)
<1>1. u \in ClientState
  BY AssignTyped
<1>2. Moved(c, u)
  BY <1>1 DEF Moved, ClientState
<1>. HIDE DEF u
<1>3. Carries(u, s) /\ s \in ClientState
  BY <1>1, StopFlowTimerCarries DEF Carries, Quiet
<1>. HIDE DEF s
<1>4. Carries(c, s)
  BY <1>2, <1>3, MovedKeeps, CarriesThenCarries DEF Keeps
<1>5. Settles(s, SocketError(s, BootstrapFailed, TRUE))
  BY <1>3, SocketErrorSettles
<1>. QED
  BY <1>4, <1>5, CarriesThenSettles DEF BootstrapError, u, s

\* What the server has written is forgotten: not while that decides anything.
LEMMA HandleBootstrapErrorSettles ==
    ASSUME NEW c \in ClientState, Elsewhere(c)
    PROVE  Settles(c, HandleBootstrapError(c))
<1>. DEFINE f == [c EXCEPT !.identity_accepted = FALSE,
                           !.nsdl_security     = "none"]
<1>1. f \in ClientState
  BY AssignTyped
<1>2. /\ f.current_state = c.current_state
      /\ f.timers = c.timers
      /\ f.unregister_ongoing = c.unregister_ongoing
      /\ f.outstanding = c.outstanding
      /\ f.security = c.security
      /\ f.ended = c.ended
      /\ f.told = c.told
      /\ f.retry_count = c.retry_count
      /\ f.reconnecting = c.reconnecting
      /\ f.retry_timer_expired = c.retry_timer_expired
  BY DEF ClientState
<1>. HIDE DEF f
<1>3. Quiet(c, f)
  BY <1>1, <1>2 DEF Quiet, Armed
<1>4. Carries(c, f)
  BY <1>2, <1>3
     DEF Carries, Tidies, Stopped, CanEnd, Complete, Holds, Elsewhere
<1>5. Settles(f, BootstrapError(f))
  BY <1>1, BootstrapErrorSettles
<1>. QED
  BY <1>4, <1>5, CarriesThenSettles DEF HandleBootstrapError, f

LEMMA RequestFailedFails ==
    ASSUME NEW c \in ClientState, Elsewhere(c), NEW request \in Requests, NEW outcome
    PROVE  Fails(c, RequestFailed(c, request, outcome))
<1>. DEFINE a == [c EXCEPT !.outstanding = @ \ {request}]
            forgotten   == [a EXCEPT !.unregister_ongoing = FALSE]
            unrefreshed == [a EXCEPT !.timers = @ \ {"Registration"}]
            unknown     == [a EXCEPT !.bootstrap_id = FALSE]
<1>1. RequestFailed(c, request, outcome) =
        CASE request = "register"   -> RetryRegistration(a)
          [] request = "unregister" -> StateIdleWithError(forgotten, "UnregisterFailed")
          [] request = "update"     -> SendRequest(unrefreshed, "register", outcome)
          [] request = "bootstrap"  -> HandleBootstrapError(unknown)
  BY DEF RequestFailed
<1>2. a \in ClientState
  BY DEF ClientState
<1>. DEFINE Like(d) == /\ d.current_state = c.current_state
                       /\ d.nsdl_security = c.nsdl_security
                       /\ d.security = c.security
                       /\ d.ended = c.ended
                       /\ d.told = c.told
                       /\ d.owed = c.owed
                       /\ d.retry_count = c.retry_count
                       /\ d.reconnecting = c.reconnecting
                       /\ d.retry_timer_expired = c.retry_timer_expired
<1>3. /\ Like(a)
      /\ a.timers = c.timers
      /\ a.unregister_ongoing = c.unregister_ongoing
      /\ a.outstanding = c.outstanding \ {request}
  BY DEF ClientState
<1>. HIDE DEF a
<1>4. request # "unregister" => Keeps(c, a)
  BY <1>2, <1>3
     DEF Keeps, Carries, Quiet, Armed, Tidies, Stopped, CanEnd, Complete, Holds,
         Elsewhere, Wakeful, Watched
<1>5. CASE request = "register"
  <2>1. Settles(a, RetryRegistration(a))
    BY <1>2, RetryRegistrationSettles
  <2>. QED
    BY <1>1, <1>4, <1>5, <2>1, SettlesIsFails, KeepsThenFails
<1>6. CASE request = "unregister"
  <2>1. forgotten \in ClientState
    BY <1>2, AssignTyped
  <2>2. /\ Like(forgotten)
        /\ forgotten.timers = c.timers
        /\ ~forgotten.unregister_ongoing
    <3>1. forgotten.unregister_ongoing = FALSE
      BY <1>2 DEF ClientState
    <3>. QED
      BY <1>2, <1>3, <3>1 DEF ClientState
  <2>. HIDE DEF forgotten
  <2>3. Keeps(c, forgotten)
    BY <2>1, <2>2
       DEF Keeps, Carries, Quiet, Armed, Tidies, Stopped, CanEnd, Complete, Holds,
           Elsewhere, Wakeful, Watched
  <2>4. Keeps(forgotten, StateIdleWithError(forgotten, "UnregisterFailed"))
    BY <2>1, StateIdleWithErrorKeeps DEF Errors
  <2>. QED
    BY <1>1, <1>6, <2>3, <2>4, KeepsThenKeeps, KeepsIsFails
<1>7. CASE request = "update"
  <2>1. unrefreshed \in ClientState
    <3>1. a.timers \ {"Registration"} \in SUBSET Timers
      BY <1>2 DEF ClientState
    <3>. QED
      BY <1>2, <3>1, AssignTyped
  <2>2. /\ Like(unrefreshed)
        /\ unrefreshed.timers = c.timers \ {"Registration"}
        /\ unrefreshed.unregister_ongoing = c.unregister_ongoing
        /\ unrefreshed.outstanding = c.outstanding \ {request}
    BY <1>2, <1>3 DEF ClientState
  <2>. HIDE DEF unrefreshed
  <2>3. Keeps(c, unrefreshed)
    BY <1>7, <2>1, <2>2
       DEF Keeps, Carries, Quiet, Armed, Tidies, Stopped, CanEnd, Complete, Holds,
           Elsewhere, Wakeful, Watched, FlowTimers
  <2>4. Keeps(unrefreshed, SendRequest(unrefreshed, "register", outcome))
    BY <2>1, SendRequestKeeps DEF Requests
  <2>. QED
    BY <1>1, <1>7, <2>3, <2>4, KeepsThenKeeps, KeepsIsFails
<1>8. CASE request = "bootstrap"
  <2>1. unknown \in ClientState
    BY <1>2, AssignTyped
  <2>2. Moved(a, unknown)
    BY <1>2, <2>1 DEF Moved, ClientState
  <2>. HIDE DEF unknown
  <2>3. Elsewhere(unknown)
    BY <1>3, <2>2 DEF Elsewhere, Moved
  <2>4. Keeps(c, unknown)
    BY <1>4, <1>8, <2>2, MovedKeeps, KeepsThenKeeps
  <2>5. Fails(unknown, HandleBootstrapError(unknown))
    BY <2>1, <2>3, HandleBootstrapErrorSettles, SettlesIsFails
  <2>. QED
    BY <1>1, <1>8, <2>4, <2>5, KeepsThenFails
<1>. QED
  BY <1>5, <1>6, <1>7, <1>8 DEF Requests

-----------------------------------------------------------------------------
(***************************************************************************)
(* The actions.  What a step from c, nothing told yet, to d does for the   *)
(* invariants below.                                                       *)
(***************************************************************************)
Attends(c, d) ==
    /\ Tcp
    /\ Armed(c)
    /\ c.owed => Watched(c)
    => (d.owed => Watched(d))

Reconnects(c, d) ==
    /\ Tcp
    /\ Armed(c)
    /\ c.security # NULL
    /\ c.reconnecting => Watched(c)
    => (d.reconnecting => Watched(d))

Secures(c, d) ==
    Elsewhere(c) =>
        /\ c.security # NULL => d.security # NULL
        /\ BootstrapServers = {} => d.current_state # "BOOTSTRAP_WAIT"

Serves(c, d) ==
    /\ Tidies(c, d)
    /\ Attends(c, d)
    /\ Reconnects(c, d)
    /\ Secures(c, d)

LEMMA KeepsServes ==
    ASSUME NEW c, NEW d, Keeps(c, d) PROVE Serves(c, d)
BY DEF Keeps, Carries, Quiet, Holds, Elsewhere, Wakeful, Serves, Attends,
       Reconnects, Secures

LEMMA FailsServes ==
    ASSUME NEW c, NEW d, Fails(c, d) PROVE Serves(c, d)
BY DEF Fails, Quiet, Holds, Elsewhere, Wakeful, Resolved, Serves, Attends,
       Reconnects, Secures

LEMMA SettlesServes ==
    ASSUME NEW c, NEW d, Settles(c, d) PROVE Serves(c, d)
BY DEF Settles, Holds, Elsewhere, Resolved, Serves, Attends, Reconnects,
       Secures

LEMMA ConnectsServes ==
    ASSUME NEW c, NEW d, NEW e, Carries(c, d), Connects(d, e) PROVE Serves(c, e)
<1>1. Carries(c, e)
  BY CarriesThenCarries DEF Connects
<1>2. Tcp => Watched(e) \/ (~e.owed /\ c.security = NULL)
  BY DEF Connects, Carries, Holds
<1>. QED
  BY <1>1, <1>2 DEF Carries, Quiet, Holds, Elsewhere, Serves, Attends, Reconnects, Secures

LEMMA AcceptedKeeps ==
    ASSUME NEW c \in ClientState
    PROVE  /\ Accepted(c) \in ClientState /\ Keeps(c, Accepted(c))
           /\ Accepted(c).ended = "no"
           /\ Promised(c) \in ClientState /\ Carries(c, Promised(c))
<1>1. /\ Accepted(c) \in ClientState /\ Quiet(c, Accepted(c))
      /\ Promised(c) \in ClientState /\ Quiet(c, Promised(c))
  BY AcceptedQuiet
<1>2. \A d \in {Accepted(c), Promised(c)} :
        /\ d.current_state = c.current_state
        /\ d.timers = c.timers
        /\ d.unregister_ongoing = c.unregister_ongoing
        /\ d.outstanding = c.outstanding
        /\ d.nsdl_security = c.nsdl_security
        /\ d.security = c.security
        /\ d.ended = "no"
        /\ d.told = c.told
  BY DEF Accepted, Promised, ClientState
<1>3. Accepted(c).owed = c.owed
  BY DEF Accepted, ClientState
<1>4. Carries(c, Accepted(c)) /\ Carries(c, Promised(c))
  BY <1>1, <1>2
     DEF Carries, Tidies, Stopped, CanEnd, Complete, Holds, Elsewhere
<1>5. Wakeful(c, Accepted(c))
  BY <1>2, <1>3 DEF Wakeful, Watched
<1>. QED
  BY <1>1, <1>2, <1>4, <1>5 DEF Keeps

LEMMA ApplicationServes ==
    ASSUME client \in ClientState, Application
    PROVE  Serves(Fresh(client), client')
<1>. DEFINE c == Fresh(client)
<1>1. c \in ClientState /\ Keeps(c, c)
  BY FreshState, KeepsRefl
<1>. HIDE DEF c
<1>2. ASSUME NEW object \in Securities \cup {NULL}, Bootstrap(object)
      PROVE  Serves(c, client')
  <2>1. Serves(c, StateBootstrap(Promised(c), object))
    BY <1>1, AcceptedKeeps, StateBootstrapConnects, ConnectsServes
  <2>. QED
    BY <1>1, <1>2, <2>1, KeepsServes DEF Bootstrap, c
<1>3. ASSUME NEW object \in Securities \cup {NULL}, NEW listCreated \in BOOLEAN,
             RegisterObject(object, listCreated)
      PROVE  Serves(c, client')
  <2>1. Serves(c, StateRegister(Promised(c), object, listCreated))
    BY <1>1, AcceptedKeeps, StateRegisterConnects, ConnectsServes
  <2>. QED
    BY <1>1, <1>3, <2>1, KeepsServes DEF RegisterObject, c
<1>4. ASSUME NEW object \in Securities \cup {NULL}, NEW listCreated \in BOOLEAN,
             NEW lifetime \in {"keep", "new"}, NEW outcome \in Outcomes,
             UpdateRegistration(object, lifetime, listCreated, outcome)
      PROVE  Serves(c, client')
  <2>. DEFINE begun == [c EXCEPT !.reconnection_state = "WithUpdate"]
  <2>1. begun \in ClientState
    BY <1>1, AssignTyped
  <2>2. Moved(c, begun)
    BY <1>1, <2>1 DEF Moved, ClientState
  <2>. HIDE DEF begun
  <2>3. Keeps(c, begun)
    BY <2>2, MovedKeeps
  <2>4. /\ Carries(c, Promised(begun)) /\ Promised(begun) \in ClientState
        /\ Keeps(c, Accepted(begun)) /\ Accepted(begun) \in ClientState
    BY <2>1, <2>3, AcceptedKeeps, CarriesThenCarries, KeepsThenKeeps DEF Keeps
  <2>5. Serves(c, StateRegister(Promised(begun), object, listCreated))
    BY <2>4, StateRegisterConnects, ConnectsServes
  <2>6. Keeps(c, StateUpdateRegistration(Accepted(begun), lifetime, outcome))
    BY <2>4, StateUpdateRegistrationKeeps, KeepsThenKeeps
  <2>. QED
    BY <1>1, <1>4, <2>3, <2>5, <2>6, KeepsServes DEF UpdateRegistration, begun, c
<1>5. ASSUME NEW outcome \in Outcomes, UnregisterObject(outcome)
      PROVE  Serves(c, client')
  <2>1. Keeps(c, StateUnregister(Accepted(c), outcome))
    BY <1>1, AcceptedKeeps, StateUnregisterKeeps, KeepsThenKeeps
  <2>. QED
    BY <1>1, <1>5, <2>1, KeepsServes DEF UnregisterObject, c
<1>. QED
  BY <1>2, <1>3, <1>4, <1>5 DEF Application, c

\* A bootstrap that is done is over: nothing is owed, nothing is retried.
LEMMA BootstrapDoneServes ==
    ASSUME NEW c \in ClientState, NEW d \in ClientState, Keeps(c, d),
           c.current_state = "BOOTSTRAP_WAIT", d.nsdl_security = c.nsdl_security
    PROVE  Serves(c, BootstrapDone(d))
<1>. DEFINE done == [d EXCEPT !.security           = NULL,
                              !.retry_count        = 0,
                              !.reconnecting       = FALSE,
                              !.reconnection_state = "None",
                              !.bootstrapped       = TRUE,
                              !.current_state      = "BOOTSTRAPPED"]
            stopped == StopFlowTimer(done)
            e == Tell(stopped, "bootstrap_done")
<1>1. done \in ClientState
  <2>1. 0 \in 0..RECONNECTION_COUNT /\ "BOOTSTRAPPED" \in States
    BY ConstantsAssumption DEF States
  <2>. QED
    BY <2>1, AssignTyped
<1>2. /\ done.current_state = "BOOTSTRAPPED"
      /\ done.timers = d.timers
      /\ done.unregister_ongoing = d.unregister_ongoing
      /\ done.outstanding = d.outstanding
      /\ done.nsdl_security = d.nsdl_security
  BY DEF ClientState
<1>. HIDE DEF done
<1>3. stopped \in ClientState
  BY <1>1, StopFlowTimerQuiet DEF Quiet
<1>4. /\ stopped.current_state = "BOOTSTRAPPED"
      /\ stopped.timers = d.timers \ FlowTimers
      /\ stopped.unregister_ongoing = d.unregister_ongoing
      /\ stopped.outstanding = d.outstanding
      /\ stopped.nsdl_security = d.nsdl_security
  BY <1>1, <1>2 DEF StopFlowTimer, ClientState
<1>. HIDE DEF stopped
<1>5. /\ e.current_state = "BOOTSTRAPPED"
      /\ e.timers = d.timers \ FlowTimers
      /\ e.unregister_ongoing = d.unregister_ongoing
      /\ e.outstanding = d.outstanding
      /\ e.nsdl_security = d.nsdl_security
      /\ ~e.owed
  BY <1>3, <1>4 DEF Tell, ClientState
<1>6. e = BootstrapDone(d)
  BY DEF BootstrapDone, done, stopped
<1>7. ~e.reconnecting
  BY <1>6, BootstrapDoneEnded DEF Ended
<1>. HIDE DEF e
<1>8. ~Elsewhere(c)
  BY DEF Elsewhere
<1>9. Tidies(c, e)
  BY <1>5, <1>8 DEF Keeps, Carries, Tidies, Stopped, CanEnd, Complete, Elsewhere
<1>. QED
  BY <1>5, <1>6, <1>7, <1>8, <1>9 DEF Serves, Attends, Reconnects, Secures

LEMMA NetworkServes ==
    ASSUME client \in ClientState, Network
    PROVE  Serves(Fresh(client), client')
<1>. DEFINE c == Fresh(client)
<1>1. c \in ClientState /\ Keeps(c, c)
  BY FreshState, KeepsRefl
<1>. HIDE DEF c
<1>2. ASSUME NEW outcome \in Outcomes, AddressReady(outcome)
      PROVE  Serves(c, client')
  BY <1>1, <1>2, StateBootstrapAddressResolvedKeeps,
     StateRegisterAddressResolvedKeeps, KeepsServes DEF AddressReady, c
<1>3. ASSUME NEW code \in ConnectionErrors, NEW retry \in BOOLEAN,
             ConnectionFails(code, retry)
      PROVE  Serves(c, client')
  <2>. DEFINE a == Accepted(c)
              d == SocketError(a, code, retry)
  <2>1. Keeps(c, a) /\ a \in ClientState /\ a.ended = "no"
    BY <1>1, AcceptedKeeps
  <2>2. client' = d
    BY <1>3 DEF ConnectionFails, c
  <2>. HIDE DEF a
  <2>3. Settles(a, d)
    BY <2>1, SocketErrorSettles
  <2>. HIDE DEF d
  <2>4. Fails(c, d)
    BY <2>1, <2>3, SettlesIsFails, KeepsThenFails
  <2>. QED
    BY <2>2, <2>4, FailsServes
<1>4. ASSUME DataSent PROVE Serves(c, client')
  <2>. DEFINE slept == [c EXCEPT !.timers = @ \cup {"QueueSleep"}]
              awake == IF QueueMode THEN slept ELSE c
  <2>1. slept \in ClientState
    BY <1>1 DEF ClientState, Timers
  <2>2. Keeps(c, slept) /\ slept.nsdl_security = c.nsdl_security
    <3>1. Quiet(c, slept)
      BY <1>1, <2>1 DEF Quiet, Armed, ClientState
    <3>2. /\ slept.current_state = c.current_state
          /\ slept.timers = c.timers \cup {"QueueSleep"}
          /\ slept.unregister_ongoing = c.unregister_ongoing
          /\ slept.outstanding = c.outstanding
          /\ slept.nsdl_security = c.nsdl_security
          /\ slept.security = c.security
          /\ slept.ended = c.ended
          /\ slept.told = c.told
          /\ slept.owed = c.owed
      BY <1>1 DEF ClientState
    <3>. HIDE DEF slept
    <3>. QED
      BY <3>1, <3>2
         DEF Keeps, Carries, Tidies, Stopped, CanEnd, Complete, Holds, Elsewhere, Wakeful, Watched, FlowTimers
  <2>. HIDE DEF slept
  <2>3. Keeps(c, awake) /\ awake \in ClientState /\ awake.nsdl_security = c.nsdl_security
    BY <1>1, <2>1, <2>2
  <2>4. client' = IF c.current_state = "BOOTSTRAP_WAIT"
                  THEN BootstrapDone(awake) ELSE StateWaiting(awake)
    BY <1>4 DEF DataSent, slept, c
  <2>. HIDE DEF awake
  <2>5. Serves(c, StateWaiting(awake))
    BY <2>3, StateWaitingKeeps, KeepsThenKeeps, KeepsServes
  <2>6. c.current_state = "BOOTSTRAP_WAIT" => Serves(c, BootstrapDone(awake))
    BY <1>1, <2>3, BootstrapDoneServes
  <2>. QED
    BY <2>4, <2>5, <2>6
<1>. QED
  BY <1>2, <1>3, <1>4 DEF Network, c

-----------------------------------------------------------------------------
(***************************************************************************)
(* The answers of the servers.                                             *)
(***************************************************************************)
LEMMA ReceivedKeeps ==
    ASSUME client \in ClientState
    PROVE  /\ Keeps(Fresh(client), Received(client))
           /\ Received(client) \in ClientState
           /\ Elsewhere(Received(client))
           /\ Received(client).ended = "no"
           /\ Received(client).nsdl_security = client.nsdl_security
<1>. DEFINE c == Fresh(client)
            a == Accepted(c)
            w == StateWaiting(a)
<1>1. c \in ClientState
  BY FreshState
<1>2. c.told = "nothing" /\ c.nsdl_security = client.nsdl_security
  BY DEF Fresh, ClientState
<1>. HIDE DEF c
<1>3. Keeps(c, a) /\ a \in ClientState /\ a.ended = "no"
  BY <1>1, AcceptedKeeps
<1>4. a.told = "nothing" /\ a.nsdl_security = client.nsdl_security
  BY <1>1, <1>2 DEF Accepted, ClientState
<1>. HIDE DEF a
<1>5. Keeps(a, w) /\ w \in ClientState
  BY <1>3, StateWaitingKeeps DEF Keeps, Carries, Quiet
<1>6. /\ w.current_state = "WAITING"
      /\ w.told = "nothing"
      /\ w.ended = "no"
      /\ w.nsdl_security = client.nsdl_security
  BY <1>3, <1>4 DEF StateWaiting, ClientState
<1>7. w = Received(client)
  BY DEF Received, a, c
<1>. HIDE DEF w
<1>8. Keeps(c, w)
  BY <1>3, <1>5, KeepsThenKeeps
<1>. QED
  BY <1>5, <1>6, <1>7, <1>8 DEF Elsewhere, c

\* The answer to a request other than an unregistration leaves it pending.
LEMMA AnsweredKeeps ==
    ASSUME client \in ClientState, NEW request
    PROVE  /\ Answered(client, request) \in ClientState
           /\ Elsewhere(Answered(client, request))
           /\ Answered(client, request).ended = "no"
           /\ Quiet(Fresh(client), Answered(client, request))
           /\ Holds(Fresh(client), Answered(client, request))
           /\ Wakeful(Fresh(client), Answered(client, request))
           /\ request # "unregister" => Keeps(Fresh(client), Answered(client, request))
<1>. DEFINE r == Received(client)
            a == [r EXCEPT !.outstanding = @ \ {request}]
<1>1. /\ Keeps(Fresh(client), r)
      /\ r \in ClientState
      /\ Elsewhere(r)
      /\ r.ended = "no"
  BY ReceivedKeeps
<1>. HIDE DEF r
<1>2. a \in ClientState
  BY <1>1 DEF ClientState
<1>3. /\ a.current_state = r.current_state
      /\ a.timers = r.timers
      /\ a.unregister_ongoing = r.unregister_ongoing
      /\ a.outstanding = r.outstanding \ {request}
      /\ a.nsdl_security = r.nsdl_security
      /\ a.security = r.security
      /\ a.ended = r.ended
      /\ a.told = r.told
      /\ a.owed = r.owed
      /\ a.retry_count = r.retry_count
      /\ a.reconnecting = r.reconnecting
      /\ a.retry_timer_expired = r.retry_timer_expired
  BY <1>1 DEF ClientState
<1>4. a = Answered(client, request)
  BY DEF Answered, r
<1>. HIDE DEF a
<1>5. Quiet(r, a) /\ Holds(r, a) /\ Wakeful(r, a)
  BY <1>2, <1>3 DEF Quiet, Armed, Holds, Elsewhere, Wakeful, Watched
<1>6. request # "unregister" => Tidies(r, a)
  BY <1>2, <1>3 DEF Tidies, Stopped, CanEnd, Complete, Elsewhere
<1>7. /\ Quiet(Fresh(client), a)
      /\ Holds(Fresh(client), a)
      /\ Wakeful(Fresh(client), a)
  BY <1>1, <1>5, QuietThenQuiet, HoldsThenHolds, WakefulThenWakeful DEF Keeps, Carries
<1>8. Elsewhere(a) /\ a.ended = "no"
  BY <1>1, <1>3 DEF Elsewhere
<1>9. request # "unregister" => Keeps(Fresh(client), a)
  BY <1>1, <1>6, <1>7 DEF Keeps, Carries, Tidies
<1>. QED
  BY <1>2, <1>4, <1>7, <1>8, <1>9

\* A registration or its update has succeeded.
Succeeded(s, d) ==
    /\ d.current_state = "REGISTERED"
    /\ d.timers \in {s.timers, s.timers \cup {"Registration"}}
    /\ d.unregister_ongoing = s.unregister_ongoing
    /\ d.outstanding = s.outstanding
    /\ d.security = s.security
    /\ d.told # "bootstrap_done"
    /\ ~d.owed
    /\ ~d.reconnecting

LEMMA SucceededServes ==
    ASSUME NEW c, NEW s, NEW d, Carries(c, s), Succeeded(s, d) PROVE Serves(c, d)
<1>1. Tidies(c, d)
  BY DEF Carries, Tidies, Stopped, CanEnd, Complete, Elsewhere, Succeeded
<1>. QED
  BY <1>1 DEF Carries, Holds, Serves, Attends, Reconnects, Secures, Succeeded

LEMMA StateRegisteredSucceeds ==
    ASSUME NEW s \in ClientState,
           NEW callback \in {"object_registered", "registration_updated"}
    PROVE  /\ Tell(StateRegistered(s), callback) \in ClientState
           /\ Succeeded(s, Tell(StateRegistered(s), callback))
<1>. DEFINE r == StateRegistered(s)
            d == Tell(r, callback)
<1>1. r \in ClientState /\ ~r.reconnecting
  BY StateRegisteredEnds
<1>2. /\ r.current_state = "REGISTERED"
      /\ r.timers = s.timers
      /\ r.unregister_ongoing = s.unregister_ongoing
      /\ r.outstanding = s.outstanding
      /\ r.security = s.security
  BY DEF StateRegistered, ClientState
<1>. HIDE DEF r
<1>3. d \in ClientState
  BY <1>1, TellType DEF Callbacks
<1>4. /\ d.current_state = r.current_state
      /\ d.timers = r.timers
      /\ d.unregister_ongoing = r.unregister_ongoing
      /\ d.outstanding = r.outstanding
      /\ d.security = r.security
      /\ d.told = callback
      /\ ~d.owed
      /\ d.reconnecting = r.reconnecting
  BY <1>1 DEF Tell, ClientState
<1>5. callback # "bootstrap_done"
  OBVIOUS
<1>. HIDE DEF d
<1>6. Succeeded(s, d)
  BY <1>1, <1>2, <1>4, <1>5 DEF Succeeded
<1>. QED
  BY <1>3, <1>6 DEF d, r

LEMMA ObjectRegisteredServes ==
    ASSUME client \in ClientState, NEW lifetime, ObjectRegistered(lifetime)
    PROVE  Serves(Fresh(client), client')
<1>. DEFINE a == Answered(client, "register")
            c == [a EXCEPT !.ep_registered = TRUE]
            s == StopFlowTimer(c)
            r == Tell(StateRegistered(s), "object_registered")
            known == lifetime = "granted" \/ (lifetime = "absent" /\ c.lifetime)
            d == [r EXCEPT !.lifetime = known,
                           !.timers   = IF known THEN @ \cup {"Registration"} ELSE @]
<1>1. Keeps(Fresh(client), a) /\ a \in ClientState
  BY AnsweredKeeps
<1>. HIDE DEF a
<1>2. c \in ClientState
  BY <1>1, AssignTyped
<1>3. Moved(a, c)
  BY <1>1, <1>2 DEF Moved, ClientState
<1>4. client' = d
  BY DEF ObjectRegistered, a
<1>. HIDE DEF c, known
<1>5. Carries(c, s) /\ s \in ClientState
  BY <1>2, StopFlowTimerCarries DEF Carries, Quiet
<1>6. Carries(Fresh(client), s)
  BY <1>1, <1>3, <1>5, MovedKeeps, CarriesThenCarries DEF Keeps
<1>. HIDE DEF s
<1>7. r \in ClientState /\ Succeeded(s, r)
  BY <1>5, StateRegisteredSucceeds
<1>. HIDE DEF r
<1>8. /\ d.current_state = r.current_state
      /\ d.timers \in {r.timers, r.timers \cup {"Registration"}}
      /\ d.unregister_ongoing = r.unregister_ongoing
      /\ d.outstanding = r.outstanding
      /\ d.security = r.security
      /\ d.told = r.told
      /\ d.owed = r.owed
      /\ d.reconnecting = r.reconnecting
  BY <1>7 DEF ClientState
<1>. HIDE DEF d
<1>9. Succeeded(s, d)
  <2>1. d.timers \in {s.timers, s.timers \cup {"Registration"}}
    BY <1>7, <1>8 DEF Succeeded
  <2>. QED
    BY <1>7, <1>8, <2>1 DEF Succeeded
<1>. QED
  BY <1>4, <1>6, <1>9, SucceededServes

LEMMA RegistrationRejectedServes ==
    ASSUME client \in ClientState, RegistrationRejected
    PROVE  Serves(Fresh(client), client')
<1>. DEFINE a == Answered(client, "register")
            t == StateIdleWithError(a, "InvalidParameters")
            d == [t EXCEPT !.ended = "rejected"]
<1>1. Keeps(Fresh(client), a) /\ a \in ClientState
  BY AnsweredKeeps
<1>2. client' = d
  BY DEF RegistrationRejected
<1>. HIDE DEF a
<1>3. Keeps(a, t) /\ t \in ClientState
  BY <1>1, StateIdleWithErrorKeeps DEF Keeps, Carries, Quiet, Errors
<1>. HIDE DEF t
<1>4. Keeps(Fresh(client), t)
  BY <1>1, <1>3, KeepsThenKeeps
<1>5. /\ d.current_state = t.current_state
      /\ d.timers = t.timers
      /\ d.unregister_ongoing = t.unregister_ongoing
      /\ d.outstanding = t.outstanding
      /\ d.nsdl_security = t.nsdl_security
      /\ d.security = t.security
      /\ d.told = t.told
      /\ d.owed = t.owed
      /\ d.reconnecting = t.reconnecting
  BY <1>3 DEF ClientState
<1>. HIDE DEF d
<1>6. Tidies(t, d) /\ (Watched(t) => Watched(d))
  BY <1>5 DEF Tidies, Stopped, CanEnd, Complete, Elsewhere, Watched
<1>. QED
  BY <1>2, <1>4, <1>5, <1>6
     DEF Keeps, Carries, Quiet, Tidies, Holds, Elsewhere, Wakeful, Serves, Attends,
         Reconnects, Secures

\* An unregistration that is answered is no longer pending.
LEMMA ObjectUnregisteredServes ==
    ASSUME client \in ClientState, ObjectUnregistered
    PROVE  Serves(Fresh(client), client')
<1>. DEFINE a == Answered(client, "unregister")
            i == StateIdle(a)
            t == Tell(i, "object_unregistered")
            d == [t EXCEPT !.timers        = @ \ {"Registration"},
                           !.ep_registered = FALSE,
                           !.ended         = "unregistered"]
<1>1. client' = d
  BY DEF ObjectUnregistered
<1>2. /\ a \in ClientState
      /\ Quiet(Fresh(client), a) /\ Holds(Fresh(client), a) /\ Wakeful(Fresh(client), a)
  BY AnsweredKeeps
<1>. HIDE DEF a
<1>3. i \in ClientState
  BY <1>2, StateIdleQuiet DEF Quiet
<1>4. /\ i.current_state = "IDLE"
      /\ i.timers = a.timers \ {"Registration", "NsdlExecution"}
      /\ i.unregister_ongoing = FALSE
      /\ i.security = a.security
      /\ i.reconnecting = a.reconnecting
  BY <1>2 DEF StateIdle, ClientState
<1>. HIDE DEF i
<1>5. t \in ClientState
  BY <1>3, TellType DEF Callbacks
<1>6. /\ t.current_state = i.current_state
      /\ t.timers = i.timers
      /\ t.unregister_ongoing = i.unregister_ongoing
      /\ t.security = i.security
      /\ t.told = "object_unregistered"
      /\ ~t.owed
      /\ t.reconnecting = i.reconnecting
  BY <1>3 DEF Tell, ClientState
<1>. HIDE DEF t
<1>7. /\ d.current_state = t.current_state
      /\ d.timers = t.timers \ {"Registration"}
      /\ d.unregister_ongoing = t.unregister_ongoing
      /\ d.security = t.security
      /\ d.told = t.told
      /\ d.owed = t.owed
      /\ d.reconnecting = t.reconnecting
  BY <1>5 DEF ClientState
<1>. HIDE DEF d
<1>8. Tidies(Fresh(client), d)
  BY <1>4, <1>6, <1>7 DEF Tidies, Stopped, CanEnd, Complete, Elsewhere
<1>9. (Watched(a) => Watched(d))
  BY <1>4, <1>6, <1>7 DEF Watched, FlowTimers
<1>10. ~d.owed /\ d.reconnecting = a.reconnecting /\ d.security = a.security
  BY <1>4, <1>6, <1>7
<1>11. d.current_state # "BOOTSTRAP_WAIT"
  BY <1>4, <1>6, <1>7
<1>. QED
  BY <1>1, <1>2, <1>8, <1>9, <1>10, <1>11
     DEF Quiet, Holds, Wakeful, Serves, Attends, Reconnects, Secures

LEMMA ServerServes ==
    ASSUME client \in ClientState, Server
    PROVE  Serves(Fresh(client), client')
<1>. DEFINE c == Fresh(client)
            r == Received(client)
<1>1. /\ Keeps(c, r) /\ r \in ClientState /\ Elsewhere(r) /\ r.ended = "no"
      /\ \A request : /\ Answered(client, request) \in ClientState
                      /\ request # "unregister" => Keeps(c, Answered(client, request))
  BY ReceivedKeeps, AnsweredKeeps
<1>2. ASSUME DataUnparsable PROVE Serves(c, client')
  BY <1>1, <1>2, KeepsServes DEF DataUnparsable
<1>3. ASSUME NEW lifetime \in Lifetimes, ObjectRegistered(lifetime)
      PROVE  Serves(c, client')
  BY <1>3, ObjectRegisteredServes
<1>4. ASSUME RegistrationUpdated PROVE Serves(c, client')
  <2>. DEFINE a == Answered(client, "update")
              d == Tell(StateRegistered(a), "registration_updated")
  <2>1. Keeps(c, a) /\ a \in ClientState
    BY <1>1
  <2>2. client' = d
    BY <1>4 DEF RegistrationUpdated
  <2>. HIDE DEF a
  <2>3. Succeeded(a, d)
    BY <2>1, StateRegisteredSucceeds
  <2>. HIDE DEF d
  <2>. QED
    BY <2>1, <2>2, <2>3, SucceededServes DEF Keeps
<1>5. ASSUME IdentityAccepted PROVE Serves(c, client')
  <2>. DEFINE a == Answered(client, "bootstrap")
              d == [a EXCEPT !.bootstrap_id = FALSE, !.identity_accepted = TRUE]
  <2>1. Keeps(c, a) /\ a \in ClientState
    BY <1>1
  <2>2. client' = d
    BY <1>5 DEF IdentityAccepted
  <2>. HIDE DEF a
  <2>3. d \in ClientState
    BY <2>1, AssignTyped
  <2>4. Moved(a, d)
    BY <2>1, <2>3 DEF Moved, ClientState
  <2>. HIDE DEF d
  <2>. QED
    BY <2>1, <2>2, <2>4, MovedKeeps, KeepsThenKeeps, KeepsServes
<1>. HIDE DEF c, r
<1>6. ASSUME NEW request \in Requests, NEW outcome \in Outcomes,
             ErrorResponse(request, outcome)
      PROVE  Serves(c, client')
  <2>. DEFINE d == RequestFailed(r, request, outcome)
  <2>1. Fails(r, d)
    BY <1>1, RequestFailedFails
  <2>2. client' = d
    BY <1>6 DEF ErrorResponse, r
  <2>. HIDE DEF d
  <2>. QED
    BY <1>1, <2>1, <2>2, KeepsThenFails, FailsServes
<1>7. ASSUME NEW outcome \in Outcomes, ResourceRequest(outcome)
      PROVE  Serves(c, client')
  BY <1>1, <1>7, RespondKeeps, KeepsThenKeeps, KeepsServes DEF ResourceRequest, r
<1>8. ASSUME NEW update \in Outcomes, NEW response \in Outcomes,
             InstanceCreated(update, response)
      PROVE  Serves(c, client')
  <2>. DEFINE u == SendUpdateRegistration(r, "keep", update)
  <2>1. Keeps(r, u) /\ u \in ClientState
    BY <1>1, SendUpdateRegistrationKeeps DEF Keeps, Carries, Quiet
  <2>2. client' = Respond(u, response)
    BY <1>8 DEF InstanceCreated, r
  <2>. HIDE DEF u
  <2>3. Keeps(u, Respond(u, response))
    BY <2>1, RespondKeeps
  <2>. QED
    BY <1>1, <2>1, <2>2, <2>3, KeepsThenKeeps, KeepsServes
<1>. QED
  BY <1>2, <1>3, <1>4, <1>5, <1>6, <1>7, <1>8, RegistrationRejectedServes,
     ObjectUnregisteredServes DEF Server, c

\* A response changes nothing the bootstrap server has written.
LEMMA RespondWritesNothing ==
    ASSUME NEW c \in ClientState, NEW outcome
    PROVE  Respond(c, outcome).nsdl_security = c.nsdl_security
<1>1. StateWaiting(c).nsdl_security = c.nsdl_security
  BY DEF StateWaiting, ClientState
<1>2. StateIdle(c).nsdl_security = c.nsdl_security /\ StateIdle(c) \in ClientState
  BY StateIdleQuiet DEF Quiet, StateIdle, ClientState
<1>3. StateIdleWithError(c, "NetworkError").nsdl_security = c.nsdl_security
  <2>. DEFINE i == StateIdle(c)
  <2>. HIDE DEF i
  <2>1. i \in ClientState => Tell(i, "NetworkError").nsdl_security = i.nsdl_security
    BY DEF Tell, ClientState
  <2>. QED
    BY <1>2, <2>1 DEF StateIdleWithError, i
<1>. QED
  BY <1>1, <1>2, <1>3 DEF Respond, CoapMessageReady

\* Over UDP or TCP, a client without a bootstrap server hears from none.
LEMMA BootstrapServerServes ==
    ASSUME client \in ClientState, BootstrapServer
    PROVE  Serves(Fresh(client), client') /\ client'.ended = "no"
<1>. DEFINE c == Fresh(client)
            r == Received(client)
<1>1. /\ Keeps(c, r) /\ r \in ClientState /\ Elsewhere(r) /\ r.ended = "no"
      /\ r.nsdl_security = client.nsdl_security
  BY ReceivedKeeps
<1>2. ASSUME NEW content \in {"bad", "incomplete", "complete"},
             NEW ack \in Outcomes, NEW response \in Outcomes,
             BootstrapPut(content, ack, response)
      PROVE  Serves(c, client') /\ client'.ended = "no"
  <2>. DEFINE acknowledged == Respond(r, ack)
              written      == [acknowledged EXCEPT !.nsdl_security = content]
              stored       == IF content = "bad"
                              THEN HandleBootstrapError(acknowledged) ELSE written
  <2>1. client' = Respond(stored, response)
    BY <1>2 DEF BootstrapPut
  <2>. HIDE DEF r, c
  <2>2. Keeps(r, acknowledged) /\ acknowledged \in ClientState
    BY <1>1, RespondKeeps DEF Keeps, Carries, Quiet
  <2>3. Elsewhere(acknowledged)
    BY <1>1, <2>2 DEF Keeps, Carries, Holds
  <2>. HIDE DEF acknowledged
  <2>4. content # "bad" => Fails(acknowledged, written)
    <3>. SUFFICES ASSUME content # "bad" PROVE Fails(acknowledged, written)
      OBVIOUS
    <3>1. written \in ClientState
      BY <2>2, AssignTyped
    <3>2. /\ written.current_state = acknowledged.current_state
          /\ written.timers = acknowledged.timers
          /\ written.unregister_ongoing = acknowledged.unregister_ongoing
          /\ written.outstanding = acknowledged.outstanding
          /\ written.security = acknowledged.security
          /\ written.ended = acknowledged.ended
          /\ written.told = acknowledged.told
          /\ written.owed = acknowledged.owed
          /\ written.retry_count = acknowledged.retry_count
          /\ written.reconnecting = acknowledged.reconnecting
          /\ written.retry_timer_expired = acknowledged.retry_timer_expired
      BY <2>2 DEF ClientState
    <3>. HIDE DEF written
    <3>3. Keeps(acknowledged, written)
      BY <2>3, <3>1, <3>2
         DEF Keeps, Carries, Quiet, Armed, Tidies, Stopped, CanEnd, Complete,
             Holds, Elsewhere, Wakeful, Watched
    <3>. QED
      BY <3>3, KeepsIsFails
  <2>5. Fails(acknowledged, HandleBootstrapError(acknowledged))
    BY <2>2, <2>3, HandleBootstrapErrorSettles, SettlesIsFails
  <2>. HIDE DEF written
  <2>6. Fails(acknowledged, stored) /\ stored \in ClientState
    BY <2>4, <2>5 DEF Fails, Failing, Quiet, Retried, Ended
  <2>. HIDE DEF stored
  <2>7. Keeps(stored, Respond(stored, response))
    BY <2>6, RespondKeeps
  <2>8. Fails(r, Respond(stored, response))
    BY <2>2, <2>6, <2>7, KeepsThenFails, FailsThenKeeps
  <2>9. Respond(stored, response).ended = "no"
    BY <1>1, <2>8 DEF Fails, Holds
  <2>. QED
    BY <1>1, <2>1, <2>8, <2>9, KeepsThenFails, FailsServes
<1>3. ASSUME NEW pathAccepted \in BOOLEAN, NEW response \in Outcomes,
             BootstrapDelete(pathAccepted, response)
      PROVE  Serves(c, client') /\ client'.ended = "no"
  <2>. DEFINE responded == Respond(r, response)
              emptied   == [responded EXCEPT !.nsdl_security = "incomplete"]
              cleared   == IF response = "unbuilt" \/ r.nsdl_security = "none"
                           THEN responded ELSE emptied
  <2>1. client' \in {cleared, HandleBootstrapError(cleared)}
    BY <1>3 DEF BootstrapDelete
  <2>. HIDE DEF r, c
  <2>2. Keeps(r, responded) /\ responded \in ClientState
    BY <1>1, RespondKeeps DEF Keeps, Carries, Quiet
  <2>3. Elsewhere(responded)
    BY <1>1, <2>2 DEF Keeps, Carries, Holds
  <2>. HIDE DEF responded
  <2>4. emptied \in ClientState
    BY <2>2, AssignTyped
  <2>5. /\ emptied.current_state = responded.current_state
        /\ emptied.timers = responded.timers
        /\ emptied.unregister_ongoing = responded.unregister_ongoing
        /\ emptied.outstanding = responded.outstanding
        /\ emptied.security = responded.security
        /\ emptied.ended = responded.ended
        /\ emptied.told = responded.told
        /\ emptied.owed = responded.owed
        /\ emptied.retry_count = responded.retry_count
        /\ emptied.reconnecting = responded.reconnecting
        /\ emptied.retry_timer_expired = responded.retry_timer_expired
    BY <2>2 DEF ClientState
  <2>. HIDE DEF emptied
  <2>6. Keeps(responded, emptied)
    BY <2>3, <2>4, <2>5
       DEF Keeps, Carries, Quiet, Armed, Tidies, Stopped, CanEnd, Complete,
           Holds, Elsewhere, Wakeful, Watched
  <2>7. Keeps(r, cleared) /\ cleared \in ClientState
    BY <2>2, <2>4, <2>6, KeepsThenKeeps
  <2>8. Elsewhere(cleared)
    BY <1>1, <2>7 DEF Keeps, Carries, Holds
  <2>. HIDE DEF cleared
  <2>9. Fails(r, cleared) /\ Fails(r, HandleBootstrapError(cleared))
    BY <2>7, <2>8, HandleBootstrapErrorSettles, SettlesIsFails, KeepsIsFails,
       KeepsThenFails
  <2>10. Fails(r, client')
    BY <2>1, <2>9
  <2>11. client'.ended = "no"
    BY <1>1, <2>10 DEF Fails, Holds
  <2>. QED
    BY <1>1, <2>10, <2>11, KeepsThenFails, FailsServes
<1>4. ASSUME NEW pathAccepted \in BOOLEAN, NEW response \in Outcomes,
             BootstrapFinished(pathAccepted, response)
      PROVE  Serves(c, client') /\ client'.ended = "no"
  <2>. DEFINE responded == Respond(r, response)
              waiting   == [responded EXCEPT !.security      = Provisioned,
                                             !.current_state = "BOOTSTRAP_WAIT"]
  <2>1. IF pathAccepted /\ client.nsdl_security = "complete"
        THEN client' = waiting ELSE client' = HandleBootstrapError(responded)
    BY <1>4 DEF BootstrapFinished
  <2>2. BootstrapServers # {}
    BY <1>4 DEF BootstrapFinished, FromBootstrapServer
  <2>. HIDE DEF r, c
  <2>3. /\ Keeps(r, responded) /\ responded \in ClientState
        /\ responded.nsdl_security = client.nsdl_security
    BY <1>1, RespondKeeps, RespondWritesNothing DEF Keeps, Carries, Quiet
  <2>4. Elsewhere(responded)
    BY <1>1, <2>3 DEF Keeps, Carries, Holds
  <2>. HIDE DEF responded
  <2>5. CASE pathAccepted /\ client.nsdl_security = "complete"
    <3>1. /\ waiting.current_state = "BOOTSTRAP_WAIT"
          /\ waiting.timers = responded.timers
          /\ waiting.unregister_ongoing = responded.unregister_ongoing
          /\ waiting.outstanding = responded.outstanding
          /\ waiting.nsdl_security = responded.nsdl_security
          /\ waiting.security = Provisioned
          /\ waiting.ended = responded.ended
          /\ waiting.owed = responded.owed
          /\ waiting.reconnecting = responded.reconnecting
      BY <2>3 DEF ClientState
    <3>2. Provisioned # NULL
      BY ConstantsAssumption DEF Securities
    <3>3. client' = waiting
      BY <2>1, <2>5
    <3>. HIDE DEF waiting
    <3>4. Keeps(c, responded)
      BY <1>1, <2>3, KeepsThenKeeps
    <3>5. waiting.ended = "no"
      BY <1>1, <2>3, <3>1 DEF Keeps, Carries, Holds
    <3>6. Tidies(responded, waiting)
      BY <2>3, <2>5, <3>1 DEF Tidies, Stopped, CanEnd, Complete
    <3>. QED
      BY <2>2, <3>1, <3>2, <3>3, <3>4, <3>5, <3>6
         DEF Keeps, Carries, Quiet, Tidies, Holds, Wakeful, Watched, Serves,
             Attends, Reconnects, Secures
  <2>6. CASE ~(pathAccepted /\ client.nsdl_security = "complete")
    <3>1. Fails(r, client')
      BY <2>1, <2>3, <2>4, <2>6, HandleBootstrapErrorSettles, SettlesIsFails,
         KeepsThenFails
    <3>2. client'.ended = "no"
      BY <1>1, <3>1 DEF Fails, Holds
    <3>. QED
      BY <1>1, <3>1, <3>2, KeepsThenFails, FailsServes
  <2>. QED
    BY <2>5, <2>6
<1>. QED
  BY <1>2, <1>3, <1>4 DEF BootstrapServer

-----------------------------------------------------------------------------
(***************************************************************************)
(* The timers.                                                             *)
(***************************************************************************)
LEMMA TimerServes ==
    ASSUME client \in ClientState, Timer
    PROVE  Serves(Fresh(client), client')
<1>. DEFINE c == Fresh(client)
            Out(timer) == [c EXCEPT !.timers = @ \ {timer}]
<1>1. c \in ClientState /\ c.timers = client.timers
  BY FreshState DEF Fresh, ClientState
<1>2. \A timer : Expired(timer) = Out(timer)
  BY DEF Expired
<1>. HIDE DEF c
<1>3. ASSUME NEW timer
      PROVE  /\ Out(timer) \in ClientState
             /\ Out(timer).current_state = c.current_state
             /\ Out(timer).timers = c.timers \ {timer}
             /\ Out(timer).unregister_ongoing = c.unregister_ongoing
             /\ Out(timer).outstanding = c.outstanding
             /\ Out(timer).nsdl_security = c.nsdl_security
             /\ Out(timer).security = c.security
             /\ Out(timer).ended = c.ended
             /\ Out(timer).told = c.told
             /\ Out(timer).owed = c.owed
             /\ Out(timer).retry_count = c.retry_count
             /\ Out(timer).reconnecting = c.reconnecting
             /\ Out(timer).retry_timer_expired = c.retry_timer_expired
  <2>1. Out(timer) \in ClientState
    BY <1>1 DEF ClientState
  <2>. QED
    BY <1>1, <2>1 DEF ClientState
<1>. HIDE DEF Out
<1>4. ASSUME NEW timer, timer # "Retry"
      PROVE  Carries(c, Out(timer))
  BY <1>3, <1>4
     DEF Carries, Quiet, Armed, Tidies, Stopped, CanEnd, Complete, Holds, Elsewhere
<1>5. ASSUME RetryTimerExpired PROVE Serves(c, client')
  <2>. DEFINE o == Out("Retry")
              d == [o EXCEPT !.retry_timer_expired = TRUE]
  <2>1. o \in ClientState
    BY <1>3
  <2>2. client' \in {StateRegister(d, NULL, FALSE), StateBootstrap(d, NULL)}
    BY <1>2, <1>5 DEF RetryTimerExpired
  <2>. HIDE DEF o
  <2>3. d \in ClientState
    BY <2>1, AssignTyped
  <2>4. /\ d.current_state = o.current_state
        /\ d.timers = o.timers
        /\ d.unregister_ongoing = o.unregister_ongoing
        /\ d.outstanding = o.outstanding
        /\ d.nsdl_security = o.nsdl_security
        /\ d.security = o.security
        /\ d.ended = o.ended
        /\ d.told = o.told
        /\ d.retry_count = o.retry_count
        /\ d.reconnecting = o.reconnecting
        /\ d.retry_timer_expired
    BY <2>1 DEF ClientState
  <2>. HIDE DEF d
  <2>5. Carries(c, d)
    BY <1>3, <2>3, <2>4
       DEF Carries, Quiet, Armed, Tidies, Stopped, CanEnd, Complete, Holds,
           Elsewhere, o
  <2>6. Connects(d, StateRegister(d, NULL, FALSE)) /\ Connects(d, StateBootstrap(d, NULL))
    BY <2>3, StateRegisterConnects, StateBootstrapConnects
  <2>. QED
    BY <2>2, <2>5, <2>6, ConnectsServes
<1>6. ASSUME BootstrapFlowTimerExpired PROVE Serves(c, client')
  <2>. DEFINE o == Out("BootstrapFlow")
  <2>1. Carries(c, o) /\ o \in ClientState
    BY <1>1, <1>3, <1>4, <1>6 DEF BootstrapFlowTimerExpired, FlowTimers
  <2>2. client' = BootstrapError(o)
    BY <1>2, <1>6 DEF BootstrapFlowTimerExpired
  <2>. HIDE DEF o
  <2>. QED
    BY <2>1, <2>2, BootstrapErrorSettles, CarriesThenSettles, SettlesServes
<1>7. ASSUME RegistrationFlowTimerExpired PROVE Serves(c, client')
  <2>. DEFINE o == Out("RegistrationFlow")
  <2>1. Carries(c, o) /\ o \in ClientState
    BY <1>1, <1>3, <1>4, <1>7 DEF RegistrationFlowTimerExpired, FlowTimers
  <2>2. client' = RetryRegistration(o)
    BY <1>2, <1>7 DEF RegistrationFlowTimerExpired
  <2>. HIDE DEF o
  <2>. QED
    BY <2>1, <2>2, RetryRegistrationSettles, CarriesThenSettles, SettlesServes
<1>8. ASSUME QueueSleepTimerExpired PROVE Serves(c, client')
  <2>. DEFINE o == Out("QueueSleep")
  <2>1. Carries(c, o) /\ Wakeful(c, o)
    BY <1>3, <1>4 DEF Wakeful, Watched, FlowTimers
  <2>2. client' = o
    BY <1>2, <1>8 DEF QueueSleepTimerExpired
  <2>. QED
    BY <2>1, <2>2, KeepsServes DEF Keeps
<1>9. ASSUME NEW outcome \in Outcomes, RegistrationTimerExpired(outcome)
      PROVE  Serves(c, client')
  BY <1>1, <1>9, SendUpdateRegistrationKeeps, KeepsServes
     DEF RegistrationTimerExpired, c
<1>10. ASSUME NEW request \in Requests, NEW outcome \in Outcomes,
              NsdlExecutionTimerExpired(request, outcome)
       PROVE  Serves(c, client')
  <2>. DEFINE r == Received(client)
              d == RequestFailed(r, request, outcome)
  <2>1. Keeps(c, r) /\ r \in ClientState /\ Elsewhere(r) /\ r.ended = "no"
    BY ReceivedKeeps DEF c
  <2>2. client' = d
    BY <1>10 DEF NsdlExecutionTimerExpired
  <2>. HIDE DEF r
  <2>3. Fails(r, d)
    BY <2>1, RequestFailedFails
  <2>. HIDE DEF d
  <2>. QED
    BY <2>1, <2>2, <2>3, KeepsThenFails, FailsServes
<1>. QED
  BY <1>5, <1>6, <1>7, <1>8, <1>9, <1>10 DEF Timer, c

LEMMA NextServes ==
    ASSUME client \in ClientState, Next
    PROVE  Serves(Fresh(client), client')
BY ApplicationServes, NetworkServes, ServerServes, BootstrapServerServes,
   TimerServes DEF Next

\* Nothing told yet, the client is as it was.
LEMMA FreshIsAlike ==
    ASSUME client \in ClientState
    PROVE  LET c == Fresh(client)
           IN  /\ Stopped(client) => Stopped(c)
               /\ CanEnd(client) => CanEnd(c)
               /\ Complete(client) => Complete(c)
               /\ Elsewhere(c) <=> client.current_state # "BOOTSTRAP_WAIT"
               /\ c.timers = client.timers
               /\ c.security = client.security
               /\ c.owed = client.owed
               /\ c.reconnecting = client.reconnecting
               /\ Armed(client) => Armed(c)
<1>. DEFINE c == Fresh(client)
<1>1. /\ c.current_state = client.current_state
      /\ c.timers = client.timers
      /\ c.unregister_ongoing = client.unregister_ongoing
      /\ c.outstanding = client.outstanding
      /\ c.nsdl_security = client.nsdl_security
      /\ c.security = client.security
      /\ c.told = "nothing"
      /\ c.owed = client.owed
      /\ c.reconnecting = client.reconnecting
      /\ c.retry_timer_expired = client.retry_timer_expired
  BY DEF Fresh, ClientState
<1>. HIDE DEF c
<1>2. /\ Stopped(client) => Stopped(c)
      /\ CanEnd(client) => CanEnd(c)
      /\ Complete(client) => Complete(c)
      /\ Elsewhere(c) <=> client.current_state # "BOOTSTRAP_WAIT"
      /\ Armed(client) => Armed(c)
  BY <1>1 DEF Stopped, CanEnd, Complete, Elsewhere, Armed
<1>. QED
  BY <1>1, <1>2 DEF c

-----------------------------------------------------------------------------
(***************************************************************************)
(* The inductive invariant: with those of M2MInterfaceImpl_proofs, an idle *)
(* client has stopped its periodic timers, a pending unregistration can be *)
(* answered, BOOTSTRAP_WAIT is entered only with complete security objects *)
(* and keeps them, and a client over TCP that owes an outcome has a timer  *)
(* running.                                                                *)
(***************************************************************************)
UpkeepInv ==
    /\ ReconnectionInv
    /\ Stopped(client)
    /\ CanEnd(client)
    /\ Complete(client)
    /\ Tcp => (client.owed => Watched(client))

LEMMA InitUpkeepInv == Init => UpkeepInv
<1>. SUFFICES ASSUME Init PROVE UpkeepInv
  OBVIOUS
<1>1. /\ client.current_state = "IDLE"
      /\ client.timers = {}
      /\ client.unregister_ongoing = FALSE
      /\ client.told = "nothing"
      /\ client.owed = FALSE
  BY DEF Init
<1>. QED
  BY <1>1, InitReconnectionInv
     DEF UpkeepInv, Stopped, CanEnd, Complete, Elsewhere

LEMMA NextUpkeepInv == UpkeepInv /\ [Next]_client => UpkeepInv'
<1>. SUFFICES ASSUME UpkeepInv, [Next]_client PROVE UpkeepInv'
  OBVIOUS
<1>1. ReconnectionInv'
  BY NextReconnectionInv DEF UpkeepInv
<1>2. CASE Next
  <2>. DEFINE c == Fresh(client)
  <2>1. Serves(c, client')
    BY <1>2, NextServes DEF UpkeepInv, ReconnectionInv, TypeOK
  <2>2. /\ Stopped(c) /\ CanEnd(c) /\ Complete(c)
        /\ Armed(c)
        /\ Tcp => (c.owed => Watched(c))
    BY FreshIsAlike
       DEF UpkeepInv, ReconnectionInv, TypeOK, RetryTimerArmed, Armed, Watched
  <2>. HIDE DEF c
  <2>3. /\ Stopped(client') /\ CanEnd(client') /\ Complete(client')
        /\ Tcp => (client'.owed => Watched(client'))
    BY <2>1, <2>2 DEF Serves, Tidies, Attends
  <2>. QED
    BY <1>1, <2>3 DEF UpkeepInv, Stopped, CanEnd, Complete, Elsewhere, Watched
<1>3. CASE UNCHANGED client
  BY <1>1, <1>3 DEF UpkeepInv, Stopped, CanEnd, Complete, Elsewhere, Watched
<1>. QED
  BY <1>2, <1>3

LEMMA UpkeepInvHolds == Spec => []UpkeepInv
BY InitUpkeepInv, NextUpkeepInv, PTL DEF Spec

\* state_idle() stops the timers of the nsdl interface, and nothing starts them
\* again before the client leaves the state.
THEOREM IdleClientIsQuiet == Spec => []IdleIsQuiet
<1>1. UpkeepInv => IdleIsQuiet
  BY DEF UpkeepInv, Stopped, IdleIsQuiet
<1>. QED
  BY <1>1, UpkeepInvHolds, PTL

\* However a pending unregistration is interrupted, the flag that makes
\* send_unregister_message() do nothing does not outlive the request.
THEOREM PendingUnregistrationCanEnd == Spec => []UnregistrationCanEnd
<1>1. UpkeepInv => UnregistrationCanEnd
  BY DEF UpkeepInv, CanEnd, UnregistrationCanEnd
<1>. QED
  BY <1>1, UpkeepInvHolds, PTL

\* A bootstrap is told to be done only with complete security objects, whatever
\* the bootstrap server writes or deletes before the acknowledgement leaves.
THEOREM DoneBootstrapIsComplete == Spec => []BootstrapDoneIsComplete
<1>1. UpkeepInv => BootstrapDoneIsComplete
  BY DEF UpkeepInv, Complete, Elsewhere, BootstrapDoneIsComplete
<1>. QED
  BY <1>1, UpkeepInvHolds, PTL

\* Over TCP the client never waits for an answer alone while it owes an outcome:
\* the flow timer or the retry timer is running.
THEOREM ClientNeverStalls ==
    ASSUME Tcp
    PROVE  Spec => []NeverStalls
<1>1. UpkeepInv => NeverStalls
  BY DEF UpkeepInv, Watched, NeverStalls, WillWakeUp
<1>. QED
  BY <1>1, UpkeepInvHolds, PTL

-----------------------------------------------------------------------------
(***************************************************************************)
(* After a rejection.  Until the application calls, a datagram comes or    *)
(* the connection fails, the client does nothing but fall asleep; without  *)
(* one of these no step leaves it rejected that did not find it so, except *)
(* the rejection.                                                          *)
(***************************************************************************)
Idles(c, d) ==
    /\ d.connection = c.connection
    /\ d.outstanding = c.outstanding
    /\ d.timers \in {c.timers, c.timers \cup {"QueueSleep"}, c.timers \ {"QueueSleep"}}

\* What a step that is not the rejection does to a client it leaves rejected.
StaysRejected ==
    client'.ended = "rejected" =>
        client.ended = "rejected" /\ (AtRest => Idles(client, client'))

LEMMA HoldsNoEnd ==
    ASSUME NEW c, NEW d, Holds(c, d), c.ended = "no" PROVE d.ended = "no"
BY DEF Holds

LEMMA FreshIdles ==
    ASSUME client \in ClientState
    PROVE  /\ Fresh(client) \in ClientState
           /\ Fresh(client).ended = client.ended
           /\ Fresh(client).connection = client.connection
           /\ Fresh(client).outstanding = client.outstanding
           /\ Fresh(client).timers = client.timers
BY DEF Fresh, ClientState

\* A call is accepted and answered for, or it is refused and changes next to nothing.
LEMMA ApplicationStaysRejected ==
    ASSUME client \in ClientState, Application PROVE StaysRejected
<1>. DEFINE c == Fresh(client)
            begun == [c EXCEPT !.reconnection_state = "WithUpdate"]
<1>1. /\ c \in ClientState
      /\ c.ended = client.ended
      /\ Idles(client, c)
  BY FreshIdles DEF Idles
<1>2. /\ begun \in ClientState
      /\ begun.ended = client.ended
      /\ Idles(client, begun)
  BY <1>1 DEF Idles, ClientState
<1>3. client' \in {c, begun} => StaysRejected
  BY <1>1, <1>2 DEF StaysRejected
<1>4. \A d \in {c, begun} :
          /\ Accepted(d) \in ClientState /\ Accepted(d).ended = "no"
          /\ Promised(d) \in ClientState /\ Promised(d).ended = "no"
  <2>1. ASSUME NEW d \in ClientState
        PROVE  /\ Accepted(d) \in ClientState /\ Accepted(d).ended = "no"
               /\ Promised(d) \in ClientState /\ Promised(d).ended = "no"
    <3>. DEFINE a == Accepted(d)
    <3>1. a \in ClientState /\ a.ended = "no" /\ Promised(d) \in ClientState
      BY <2>1, AcceptedKeeps
    <3>. HIDE DEF a
    <3>2. [a EXCEPT !.owed = TRUE].ended = "no"
      BY <3>1 DEF ClientState
    <3>. QED
      BY <3>1, <3>2 DEF Promised, a
  <2>. QED
    BY <1>1, <1>2, <2>1
<1>. HIDE DEF c, begun
<1>5. ASSUME NEW object \in Securities \cup {NULL}, Bootstrap(object)
      PROVE  client' = c \/ client'.ended = "no"
  BY <1>4, <1>5, StateBootstrapConnects, HoldsNoEnd
     DEF Bootstrap, Connects, Carries, c
<1>6. ASSUME NEW object \in Securities \cup {NULL}, NEW listCreated \in BOOLEAN,
             RegisterObject(object, listCreated)
      PROVE  client' = c \/ client'.ended = "no"
  BY <1>4, <1>6, StateRegisterConnects, HoldsNoEnd
     DEF RegisterObject, Connects, Carries, c
<1>7. ASSUME NEW object \in Securities \cup {NULL}, NEW listCreated \in BOOLEAN,
             NEW lifetime \in {"keep", "new"}, NEW outcome \in Outcomes,
             UpdateRegistration(object, lifetime, listCreated, outcome)
      PROVE  client' \in {c, begun} \/ client'.ended = "no"
  <2>1. client' \in {c, begun,
                     StateRegister(Promised(begun), object, listCreated),
                     StateUpdateRegistration(Accepted(begun), lifetime, outcome)}
    BY <1>7 DEF UpdateRegistration, c, begun
  <2>2. StateRegister(Promised(begun), object, listCreated).ended = "no"
    BY <1>4, StateRegisterConnects, HoldsNoEnd DEF Connects, Carries
  <2>3. StateUpdateRegistration(Accepted(begun), lifetime, outcome).ended = "no"
    BY <1>4, StateUpdateRegistrationKeeps, HoldsNoEnd DEF Keeps, Carries
  <2>. QED
    BY <2>1, <2>2, <2>3
<1>8. ASSUME NEW outcome \in Outcomes, UnregisterObject(outcome)
      PROVE  client' = c \/ client'.ended = "no"
  BY <1>4, <1>8, StateUnregisterKeeps, HoldsNoEnd
     DEF UnregisterObject, Keeps, Carries, c
<1>. QED
  BY <1>3, <1>5, <1>6, <1>7, <1>8 DEF Application, StaysRejected

LEMMA NetworkStaysRejected ==
    ASSUME client \in ClientState, Network PROVE StaysRejected
<1>. DEFINE c == Fresh(client)
<1>1. c \in ClientState /\ c.ended = client.ended /\ Idles(client, c)
  BY FreshIdles DEF Idles
<1>. HIDE DEF c
<1>2. ASSUME NEW outcome \in Outcomes, AddressReady(outcome)
      PROVE  StaysRejected
  <2>1. ~AtRest
    BY <1>2 DEF AddressReady, AtRest
  <2>2. Holds(c, client')
    BY <1>1, <1>2, StateBootstrapAddressResolvedKeeps,
       StateRegisterAddressResolvedKeeps DEF AddressReady, Keeps, Carries, c
  <2>. QED
    BY <1>1, <2>1, <2>2 DEF Holds, StaysRejected
<1>3. ASSUME NEW code \in ConnectionErrors, NEW retry \in BOOLEAN,
             ConnectionFails(code, retry)
      PROVE  StaysRejected
  <2>1. Accepted(c) \in ClientState /\ Accepted(c).ended = "no"
    BY <1>1, AcceptedKeeps
  <2>2. client' = SocketError(Accepted(c), code, retry)
    BY <1>3 DEF ConnectionFails, c
  <2>3. client'.ended = "no"
    BY <2>1, <2>2, SocketErrorSettles, HoldsNoEnd DEF Settles
  <2>. QED
    BY <2>3 DEF StaysRejected
<1>4. ASSUME DataSent PROVE StaysRejected
  <2>. DEFINE awake == IF QueueMode THEN [c EXCEPT !.timers = @ \cup {"QueueSleep"}] ELSE c
  <2>1. /\ awake \in ClientState
        /\ awake.ended = client.ended
        /\ awake.connection = client.connection
        /\ awake.outstanding = client.outstanding
        /\ awake.timers \in {client.timers, client.timers \cup {"QueueSleep"}}
    BY <1>1, FreshIdles DEF ClientState, Timers, c
  <2>2. client' = IF c.current_state = "BOOTSTRAP_WAIT"
                  THEN BootstrapDone(awake) ELSE StateWaiting(awake)
    BY <1>4 DEF DataSent, c
  <2>. HIDE DEF awake
  <2>3. /\ StateWaiting(awake).ended = client.ended
        /\ Idles(client, StateWaiting(awake))
    BY <2>1 DEF StateWaiting, Idles, ClientState
  <2>4. /\ BootstrapDone(awake).ended = client.ended
        /\ BootstrapDone(awake).connection = client.connection
        /\ BootstrapDone(awake).outstanding = client.outstanding
        /\ BootstrapDone(awake).timers = awake.timers \ FlowTimers
    BY <2>1 DEF BootstrapDone, Tell, StopFlowTimer, ClientState
  <2>5. AtRest => Idles(client, BootstrapDone(awake))
    BY <2>1, <2>4 DEF AtRest, Idles, FlowTimers
  <2>. QED
    BY <2>2, <2>3, <2>4, <2>5 DEF StaysRejected
<1>. QED
  BY <1>2, <1>3, <1>4 DEF Network

LEMMA ServerStaysRejected ==
    ASSUME client \in ClientState, Server, ~RegistrationRejected
    PROVE  client'.ended # "rejected"
<1>. DEFINE r == Received(client)
<1>1. r \in ClientState /\ r.ended = "no" /\ Elsewhere(r)
  BY ReceivedKeeps
<1>2. \A request : /\ Answered(client, request) \in ClientState
                   /\ Answered(client, request).ended = "no"
  BY AnsweredKeeps
<1>3. CASE DataUnparsable
  BY <1>1, <1>3 DEF DataUnparsable
<1>4. ASSUME NEW lifetime \in Lifetimes, ObjectRegistered(lifetime)
      PROVE  client'.ended = "no"
  BY <1>2, <1>4 DEF ObjectRegistered, Tell, StateRegistered, StopFlowTimer, ClientState
<1>5. CASE RegistrationUpdated
  BY <1>2, <1>5 DEF RegistrationUpdated, Tell, StateRegistered, ClientState
<1>6. CASE ObjectUnregistered
  BY <1>2, <1>6 DEF ObjectUnregistered, Tell, StateIdle, ClientState
<1>7. CASE IdentityAccepted
  BY <1>2, <1>7 DEF IdentityAccepted, ClientState
<1>. HIDE DEF r
<1>8. ASSUME NEW request \in Requests, NEW outcome \in Outcomes,
             ErrorResponse(request, outcome)
      PROVE  client'.ended = "no"
  BY <1>1, <1>8, RequestFailedFails, HoldsNoEnd DEF ErrorResponse, Fails, r
<1>9. ASSUME NEW outcome \in Outcomes, ResourceRequest(outcome)
      PROVE  client'.ended = "no"
  BY <1>1, <1>9, RespondKeeps, HoldsNoEnd DEF ResourceRequest, Keeps, Carries, r
<1>10. ASSUME NEW update \in Outcomes, NEW response \in Outcomes,
              InstanceCreated(update, response)
       PROVE  client'.ended = "no"
  <2>. DEFINE u == SendUpdateRegistration(r, "keep", update)
  <2>1. u \in ClientState /\ u.ended = "no"
    BY <1>1, SendUpdateRegistrationKeeps, HoldsNoEnd DEF Keeps, Carries, Quiet
  <2>2. client' = Respond(u, response)
    BY <1>10 DEF InstanceCreated, r
  <2>. HIDE DEF u
  <2>. QED
    BY <2>1, <2>2, RespondKeeps, HoldsNoEnd DEF Keeps, Carries
<1>. QED
  BY <1>3, <1>4, <1>5, <1>6, <1>7, <1>8, <1>9, <1>10 DEF Server

\* A client at rest has no timer that does more than let it sleep.
LEMMA TimerStaysRejected ==
    ASSUME client \in ClientState, Timer PROVE StaysRejected
<1>. DEFINE c == Fresh(client)
            Out(timer) == [c EXCEPT !.timers = @ \ {timer}]
<1>1. c \in ClientState /\ c.ended = client.ended
  BY FreshIdles
<1>2. \A timer : Out(timer) \in ClientState /\ Out(timer).ended = client.ended
  BY <1>1 DEF ClientState
<1>3. \A timer : Expired(timer) = Out(timer)
  BY DEF Expired
<1>4. ASSUME RetryTimerExpired PROVE StaysRejected
  <2>. DEFINE o == Out("Retry")
              d == [o EXCEPT !.retry_timer_expired = TRUE]
  <2>1. o \in ClientState /\ o.ended = client.ended
    BY <1>2
  <2>2. client' \in {StateRegister(d, NULL, FALSE), StateBootstrap(d, NULL)}
    BY <1>3, <1>4 DEF RetryTimerExpired
  <2>. HIDE DEF o
  <2>3. d \in ClientState /\ d.ended = client.ended
    BY <2>1 DEF ClientState
  <2>. HIDE DEF d
  <2>4. Holds(d, client')
    BY <2>2, <2>3, StateRegisterConnects, StateBootstrapConnects DEF Connects, Carries
  <2>5. ~AtRest
    BY <1>4 DEF RetryTimerExpired, AtRest
  <2>. QED
    BY <2>3, <2>4, <2>5 DEF Holds, StaysRejected
<1>5. ASSUME BootstrapFlowTimerExpired \/ RegistrationFlowTimerExpired
      PROVE  StaysRejected
  <2>. DEFINE b == Out("BootstrapFlow")
              f == Out("RegistrationFlow")
  <2>1. b \in ClientState /\ f \in ClientState /\ b.ended = client.ended /\ f.ended = client.ended
    BY <1>2
  <2>2. client' \in {BootstrapError(b), RetryRegistration(f)}
    BY <1>3, <1>5 DEF BootstrapFlowTimerExpired, RegistrationFlowTimerExpired
  <2>. HIDE DEF b, f
  <2>3. Holds(b, client') \/ Holds(f, client')
    BY <2>1, <2>2, BootstrapErrorSettles, RetryRegistrationSettles DEF Settles
  <2>4. ~AtRest
    BY <1>5 DEF BootstrapFlowTimerExpired, RegistrationFlowTimerExpired, AtRest, FlowTimers
  <2>. QED
    BY <2>1, <2>3, <2>4 DEF Holds, StaysRejected
<1>6. ASSUME QueueSleepTimerExpired PROVE StaysRejected
  <2>1. client' = Out("QueueSleep")
    BY <1>3, <1>6 DEF QueueSleepTimerExpired
  <2>2. Idles(client, Out("QueueSleep"))
    BY <1>1, FreshIdles DEF Idles, ClientState
  <2>. QED
    BY <1>2, <2>1, <2>2 DEF StaysRejected
<1>7. ASSUME NEW outcome \in Outcomes, RegistrationTimerExpired(outcome)
      PROVE  StaysRejected
  <2>1. Holds(c, client')
    BY <1>1, <1>7, SendUpdateRegistrationKeeps DEF RegistrationTimerExpired, Keeps, Carries
  <2>2. ~AtRest
    BY <1>7 DEF RegistrationTimerExpired, AtRest
  <2>. QED
    BY <1>1, <2>1, <2>2 DEF Holds, StaysRejected
<1>8. ASSUME NEW request \in Requests, NEW outcome \in Outcomes,
             NsdlExecutionTimerExpired(request, outcome)
      PROVE  StaysRejected
  <2>. DEFINE r == Received(client)
  <2>1. r \in ClientState /\ r.ended = "no" /\ Elsewhere(r)
    BY ReceivedKeeps
  <2>2. client' = RequestFailed(r, request, outcome)
    BY <1>8 DEF NsdlExecutionTimerExpired
  <2>. HIDE DEF r
  <2>3. client'.ended = "no"
    BY <2>1, <2>2, RequestFailedFails, HoldsNoEnd DEF Fails
  <2>. QED
    BY <2>3 DEF StaysRejected
<1>. QED
  BY <1>4, <1>5, <1>6, <1>7, <1>8 DEF Timer

\* Over TCP and UDP: a rejection that finds neither a retry nor a flow timer armed
\* brings the client to rest; at rest it sends no request and connects to nobody
\* until the application calls, a datagram comes or the connection fails.
THEOREM RejectionEndsReconnection == Spec => RejectionIsFinal
<1>. DEFINE Final ==
        /\ client'.ended = "rejected"
        /\ IF client.ended = "rejected" THEN AtRest
           ELSE client.timers \cap ({"Retry"} \cup FlowTimers) = {}
        => AtRest' /\ client'.outstanding \subseteq client.outstanding
<1>1. ASSUME TypeOK, Next PROVE Final
  <2>1. client \in ClientState
    BY <1>1 DEF TypeOK
  <2>2. CASE RegistrationRejected
    <3>. DEFINE a == Answered(client, "register")
                i == StateIdle(a)
    <3>1. /\ a \in ClientState
          /\ a.connection = client.connection
          /\ a.timers = client.timers
          /\ a.outstanding = client.outstanding \ {"register"}
      <4>. DEFINE r == Received(client)
      <4>1. /\ r \in ClientState
            /\ r.connection = client.connection
            /\ r.timers = client.timers
            /\ r.outstanding = client.outstanding
        BY <2>1, ReceivedKeeps DEF Received, StateWaiting, Accepted, Fresh, ClientState
      <4>. HIDE DEF r
      <4>2. /\ [r EXCEPT !.outstanding = @ \ {"register"}].connection = r.connection
            /\ [r EXCEPT !.outstanding = @ \ {"register"}].timers = r.timers
            /\ [r EXCEPT !.outstanding = @ \ {"register"}].outstanding
                   = r.outstanding \ {"register"}
        BY <4>1 DEF ClientState
      <4>. QED
        BY <2>1, <4>1, <4>2, AnsweredKeeps DEF Answered, r
    <3>2. client' = [Tell(i, "InvalidParameters") EXCEPT !.ended = "rejected"]
      BY <2>2 DEF RegistrationRejected, StateIdleWithError
    <3>. HIDE DEF a
    <3>3. /\ i \in ClientState
          /\ i.connection = client.connection
          /\ i.timers = client.timers \ {"Registration", "NsdlExecution"}
          /\ i.outstanding = client.outstanding \ {"register"}
      BY <3>1, StateIdleQuiet DEF Quiet, StateIdle, ClientState
    <3>. HIDE DEF i
    <3>4. /\ client'.connection = client.connection
          /\ client'.timers = client.timers \ {"Registration", "NsdlExecution"}
          /\ client'.outstanding = client.outstanding \ {"register"}
      BY <3>2, <3>3 DEF Tell, ClientState
    <3>5. client.connection = "open"
      BY <2>2 DEF RegistrationRejected, Awaited, DataAvailable
    <3>. QED
      BY <3>4, <3>5 DEF AtRest, FlowTimers
  <2>3. CASE ~RegistrationRejected
    <3>1. StaysRejected
      BY <1>1, <2>1, <2>3, ApplicationStaysRejected, NetworkStaysRejected,
         ServerStaysRejected, BootstrapServerServes, TimerStaysRejected
         DEF Next, StaysRejected
    <3>2. AtRest /\ Idles(client, client') =>
              AtRest' /\ client'.outstanding \subseteq client.outstanding
      BY DEF AtRest, Idles, FlowTimers
    <3>. QED
      BY <3>1, <3>2 DEF StaysRejected
  <2>. QED
    BY <2>2, <2>3
<1>2. TypeOK /\ [Next]_client => [Final]_client
  BY <1>1
<1>. QED
  BY <1>2, TypeCorrect, PTL DEF Spec, RejectionIsFinal

-----------------------------------------------------------------------------
(***************************************************************************)
(* Without a bootstrap server _security, once set, is never cleared: the   *)
(* retry timer always finds a server to go back to.                        *)
(***************************************************************************)
\* Something has happened that only a chosen server brings about.
Begun(c) ==
    \/ c.connection # "closed"
    \/ c.timers # {}
    \/ c.server_address # NULL
    \/ c.current_state # "IDLE"

AttachedInv ==
    /\ Begun(client) => client.security # NULL
    /\ client.current_state # "BOOTSTRAP_WAIT"
    /\ client.reconnecting => Watched(client)

\* A first attempt chooses the server it is given, or nothing begins.
LEMMA StateRegisterBegins ==
    ASSUME NEW c \in ClientState, NEW object \in Securities \cup {NULL},
           NEW listCreated, c.security = NULL, c.connection = "closed",
           c.timers = {}, c.server_address = NULL
    PROVE  LET d == StateRegister(c, object, listCreated)
           IN  d.security # NULL \/ ~Begun(d)
<1>. DEFINE entered == [c EXCEPT !.current_state = "REGISTER"]
            adopted == [entered EXCEPT !.security = object]
            aimed   == [adopted EXCEPT !.server_address = object]
            idle    == StateIdle(adopted)
            refused == StateIdleWithError(adopted, "InvalidParameters")
            tried   == Connect(aimed, "RegistrationFlow", "LWM2MServer")
<1>1. StateRegister(c, object, listCreated) =
        IF object \in Servers /\ listCreated THEN tried ELSE refused
  BY DEF StateRegister
<1>2. adopted \in ClientState
  <2>1. entered \in ClientState
    BY AssignTyped DEF States
  <2>. QED
    BY <2>1, AssignTyped
<1>3. aimed \in ClientState
  BY <1>2, AssignTyped
<1>4. /\ adopted.security = object
      /\ adopted.connection = "closed"
      /\ adopted.timers = {}
      /\ adopted.server_address = NULL
      /\ aimed.security = object
  BY DEF ClientState
<1>. HIDE DEF adopted, aimed
<1>5. CASE object # NULL
  <2>1. Keeps(adopted, refused) /\ Keeps(aimed, tried)
    BY <1>2, <1>3, StateIdleWithErrorKeeps, ConnectKeeps DEF Errors, FlowTimers
  <2>. HIDE DEF refused, tried
  <2>2. refused.security # NULL /\ tried.security # NULL
    BY <1>4, <1>5, <2>1 DEF Keeps, Carries, Holds
  <2>. QED
    BY <1>1, <2>2
<1>6. CASE object = NULL
  <2>1. idle \in ClientState
    BY <1>2, StateIdleQuiet DEF Quiet
  <2>2. /\ idle.current_state = "IDLE"
        /\ idle.connection = "closed"
        /\ idle.timers = {}
        /\ idle.server_address = NULL
    BY <1>2, <1>4 DEF StateIdle, ClientState
  <2>. HIDE DEF idle
  <2>3. ~Begun(Tell(idle, "InvalidParameters"))
    BY <2>1, <2>2 DEF Tell, Begun, ClientState
  <2>4. refused = Tell(idle, "InvalidParameters")
    BY DEF StateIdleWithError, idle
  <2>5. object \notin Servers
    BY <1>6, ConstantsAssumption DEF Securities
  <2>. QED
    BY <1>1, <2>3, <2>4, <2>5
<1>. QED
  BY <1>5, <1>6

\* Until something has begun only the application can act.
LEMMA UnbegunNext ==
    ASSUME client \in ClientState, ~Begun(client), client.security = NULL,
           BootstrapServers = {}, Next
    PROVE  /\ client'.security # NULL \/ ~Begun(client')
           /\ client'.reconnecting = client.reconnecting
<1>. DEFINE c == Fresh(client)
            Begins(d) == d.security # NULL \/ ~Begun(d)
<1>1. /\ client.connection = "closed"
      /\ client.timers = {}
      /\ client.server_address = NULL
      /\ client.current_state = "IDLE"
  BY DEF Begun
<1>2. Application
  <2>1. ~Network
    BY <1>1 DEF Network, AddressReady, ConnectionFails, DataSent
  <2>2. ~Server
    BY <1>1 DEF Server, DataUnparsable, ObjectRegistered, RegistrationRejected,
                RegistrationUpdated, ObjectUnregistered, IdentityAccepted,
                ErrorResponse, ResourceRequest, InstanceCreated, Awaited, DataAvailable
  <2>3. ~BootstrapServer
    BY <1>1 DEF BootstrapServer, BootstrapPut, BootstrapDelete, BootstrapFinished,
                FromBootstrapServer, DataAvailable
  <2>4. ~Timer
    BY <1>1 DEF Timer, RetryTimerExpired, BootstrapFlowTimerExpired,
                RegistrationFlowTimerExpired, QueueSleepTimerExpired,
                RegistrationTimerExpired, NsdlExecutionTimerExpired
  <2>. QED
    BY <2>1, <2>2, <2>3, <2>4 DEF Next
<1>. DEFINE Blank(d) == /\ d \in ClientState
                        /\ d.security = NULL
                        /\ d.connection = "closed"
                        /\ d.timers = {}
                        /\ d.server_address = NULL
                        /\ d.reconnecting = client.reconnecting
<1>3. Blank(c) /\ c.current_state = "IDLE"
  BY <1>1, FreshState DEF Fresh, ClientState
<1>. HIDE DEF c
<1>4. ASSUME NEW d, Blank(d)
      PROVE  Blank(Promised(d)) /\ Promised(d).current_state = d.current_state
  <2>1. Promised(d) \in ClientState
    BY <1>4, AcceptedQuiet
  <2>. QED
    BY <1>4, <2>1 DEF Promised, Accepted, ClientState
<1>5. Begins(c)
  BY <1>3 DEF Begun
<1>6. ASSUME NEW object \in Securities \cup {NULL}, Bootstrap(object)
      PROVE  Begins(client') /\ client'.reconnecting = client.reconnecting
  <2>. DEFINE p == Promised(c)
              d == StateBootstrap(p, object)
  <2>1. CASE object = NULL
    <3>1. client' = c
      BY <1>6, <2>1 DEF Bootstrap, c
    <3>. QED
      BY <1>3, <1>5, <3>1
  <2>2. CASE object # NULL
    <3>1. client' = d
      BY <1>3, <1>6, <2>2 DEF Bootstrap, c
    <3>2. Blank(p)
      BY <1>3, <1>4
    <3>. HIDE DEF p
    <3>3. Quiet(p, d)
      BY <3>2, StateBootstrapQuiet
    <3>. DEFINE adopted == [[p EXCEPT !.current_state = "BOOTSTRAP",
                                      !.bootstrapped = FALSE] EXCEPT !.security = object]
    <3>4. d = StateIdleWithError(adopted, "InvalidParameters")
      BY <3>2 DEF StateBootstrap
    <3>5. adopted \in ClientState
      <4>1. [p EXCEPT !.current_state = "BOOTSTRAP",
                      !.bootstrapped = FALSE] \in ClientState
        BY <3>2, AssignTyped DEF States
      <4>. QED
        BY <4>1, AssignTyped
    <3>6. adopted.security = object
      BY <3>2 DEF ClientState
    <3>. HIDE DEF adopted, d
    <3>7. Keeps(adopted, d)
      BY <3>4, <3>5, StateIdleWithErrorKeeps DEF Errors
    <3>8. d.security # NULL
      BY <2>2, <3>6, <3>7 DEF Keeps, Carries, Holds
    <3>. QED
      BY <3>1, <3>2, <3>3, <3>8 DEF Quiet
  <2>. QED
    BY <2>1, <2>2
<1>7. ASSUME NEW e, Blank(e), NEW object \in Securities \cup {NULL},
             NEW listCreated
      PROVE  LET d == StateRegister(Promised(e), object, listCreated)
             IN  Begins(d) /\ d.reconnecting = client.reconnecting
  <2>1. Blank(Promised(e))
    BY <1>4, <1>7
  <2>2. Quiet(Promised(e), StateRegister(Promised(e), object, listCreated))
    BY <2>1, StateRegisterQuiet
  <2>3. Begins(StateRegister(Promised(e), object, listCreated))
    BY <2>1, StateRegisterBegins
  <2>. QED
    BY <2>1, <2>2, <2>3 DEF Quiet
<1>8. ASSUME NEW object \in Securities \cup {NULL}, NEW listCreated \in BOOLEAN,
             RegisterObject(object, listCreated)
      PROVE  Begins(client') /\ client'.reconnecting = client.reconnecting
  <2>1. client' \in {c, StateRegister(Promised(c), object, listCreated)}
    BY <1>3, <1>8 DEF RegisterObject, c
  <2>. QED
    BY <1>3, <1>5, <1>7, <2>1
<1>9. ASSUME NEW object \in Securities \cup {NULL}, NEW listCreated \in BOOLEAN,
             NEW lifetime \in {"keep", "new"}, NEW outcome \in Outcomes,
             UpdateRegistration(object, lifetime, listCreated, outcome)
      PROVE  Begins(client') /\ client'.reconnecting = client.reconnecting
  <2>. DEFINE begun == [c EXCEPT !.reconnection_state = "WithUpdate"]
  <2>1. Blank(begun)
    <3>1. begun \in ClientState
      BY <1>3, AssignTyped
    <3>. QED
      BY <1>3, <3>1 DEF ClientState
  <2>2. client' \in {c, StateRegister(Promised(begun), object, listCreated)}
    BY <1>3, <1>9 DEF UpdateRegistration, c
  <2>. HIDE DEF begun
  <2>. QED
    BY <1>3, <1>5, <1>7, <2>1, <2>2
<1>10. ASSUME NEW outcome \in Outcomes, UnregisterObject(outcome)
       PROVE  Begins(client') /\ client'.reconnecting = client.reconnecting
  <2>1. client' = c
    BY <1>3, <1>10 DEF UnregisterObject, c
  <2>. QED
    BY <1>3, <1>5, <2>1
<1>. QED
  BY <1>2, <1>6, <1>8, <1>9, <1>10 DEF Application

LEMMA InitAttachedInv == Init => AttachedInv
<1>. SUFFICES ASSUME Init PROVE AttachedInv
  OBVIOUS
<1>1. /\ client.current_state = "IDLE"
      /\ client.timers = {}
      /\ client.connection = "closed"
      /\ client.server_address = NULL
      /\ client.reconnecting = FALSE
  BY DEF Init
<1>. QED
  BY <1>1 DEF AttachedInv, Begun

LEMMA NextAttachedInv ==
    ASSUME Tcp, BootstrapServers = {}
    PROVE  UpkeepInv /\ AttachedInv /\ [Next]_client => AttachedInv'
<1>. SUFFICES ASSUME UpkeepInv, AttachedInv, [Next]_client PROVE AttachedInv'
  OBVIOUS
<1>1. CASE Next
  <2>. DEFINE c == Fresh(client)
  <2>1. Serves(c, client')
    BY <1>1, NextServes DEF UpkeepInv, ReconnectionInv, TypeOK
  <2>2. /\ Elsewhere(c)
        /\ Armed(c)
        /\ c.reconnecting => Watched(c)
        /\ c.security = client.security
    BY FreshIsAlike
       DEF UpkeepInv, AttachedInv, ReconnectionInv, TypeOK, RetryTimerArmed, Armed,
           Watched
  <2>. HIDE DEF c
  <2>3. client'.current_state # "BOOTSTRAP_WAIT"
    BY <2>1, <2>2 DEF Serves, Secures
  <2>4. CASE client.security # NULL
    <3>1. client'.security # NULL
      BY <2>1, <2>2, <2>4 DEF Serves, Secures
    <3>2. client'.reconnecting => Watched(client')
      BY <2>1, <2>2, <2>4 DEF Serves, Reconnects
    <3>. QED
      BY <2>3, <3>1, <3>2 DEF AttachedInv, Begun, Watched
  <2>5. CASE client.security = NULL
    <3>1. ~Begun(client) /\ ~client.reconnecting
      BY <2>5 DEF AttachedInv, Begun, Watched
    <3>2. /\ client'.security # NULL \/ ~Begun(client')
          /\ client'.reconnecting = client.reconnecting
      BY <1>1, <2>5, <3>1, UnbegunNext DEF UpkeepInv, ReconnectionInv, TypeOK
    <3>. QED
      BY <2>3, <3>1, <3>2 DEF AttachedInv, Begun, Watched
  <2>. QED
    BY <2>4, <2>5
<1>2. CASE UNCHANGED client
  BY <1>2 DEF AttachedInv, Begun, Watched
<1>. QED
  BY <1>1, <1>2

\* update_registration() may be ignored while a client over TCP is reconnecting:
\* a timer is running that has a server to go back to.
THEOREM ReconnectionIsItsOwn ==
    ASSUME Tcp, BootstrapServers = {}
    PROVE  Spec => []ReconnectsOnItsOwn
<1>1. AttachedInv => ReconnectsOnItsOwn
  BY DEF AttachedInv, Watched, ReconnectsOnItsOwn, WillWakeUp
<1>. QED
  BY <1>1, UpkeepInvHolds, InitAttachedInv, NextAttachedInv, PTL DEF Spec
=============================================================================
