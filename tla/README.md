# mbed Client in TLA+

A verification development of mbed Client (`ARMmbed/mbed-client`): TLA+ modules
translated from its source, TLC configurations that check them on small
instances, and theorems about them that TLAPS proves for every instance.
Paths below are relative to the repository; `source/m2minterfaceimpl.cpp:393`
means that file and line.

## 1. The system: inventory

mbed Client is an LWM2M client library. The application owns one
`M2MInterface` and a tree of objects; the library registers them with a
server, keeps the registration alive, answers the server's requests and sends
notifications. Everything runs on one event loop: entry points are calls of
the application, callbacks of the connection handler, and expiries of timers,
and each runs to completion (sending observations takes a mutex because values
may also be set from another thread).

| component | state it keeps | operations | what makes it correct |
|---|---|---|---|
| `M2MInterfaceImpl` (`source/m2minterfaceimpl.cpp`) | the current state of an 18-state machine, retry count, reconnecting and retry-expired flags, kind of reconnection, bootstrapped flag, server object and address, retry, flow and queue-sleep timers | bootstrap, register, update, unregister; address ready, data sent, data available, socket error; timers | failures are retried up to a bound and then reported; no reconnection stalls or goes on in silence; a final answer is final |
| `M2MNsdlInterface` (`source/m2mnsdlinterface.cpp`) | ids of outstanding requests, lifetime, bootstrap progress, unregister flag, registration and execution timers | send register, update, unregister, bootstrap; handle responses, bootstrap writes and deletes, resource requests | a bootstrap ends only with complete data; timers stop and start with the registration |
| `M2MReportHandler` (`source/m2mreporthandler.cpp`) | notification attributes, pmin and pmax timers and their expired flags, current and last value, pending notification, observation number | set value, trigger, write attributes, observe, cancel, timers | no change is lost, pmin and pmax are kept, thresholds decide |
| resource tree: `M2MBase`, `M2MObject`, `M2MObjectInstance`, `M2MResourceBase`, `M2MResource`, `M2MResourceInstance` | values, types and operations, a report handler and an observation level per node, one observation handler per object, the token of a delayed response | create, remove, set and clear a value, GET, PUT, POST, DELETE, execute | who observes what is told of it; levels are those of observations that last; a refused write changes nothing |
| `M2MBlockMessage` | data, number and flags of the current block, the announced size, the error | take over a message, clear | what the application combines is one value the server sent; nothing of one transfer ends another |
| `M2MTLVSerializer`, `M2MTLVDeserializer` | none | serialise, check, write | what is written is read back; a payload with an error sets nothing |
| `M2MCallbackStorage` | a list of callbacks by the address of their object and their type | add, remove, find | what is found for an object is what was set last for it, also when an address is used again |
| `M2MDevice`, `M2MFirmware`, `M2MSecurity`, `M2MServer` | the resources of one object | create, delete, set, get | mandatory resources stay; Update can be executed when the package is there |
| `M2MInterfaceFactory`, `M2MString`, `StringBufferBase`, `nsdlaccesshelper` | none over time | | |
| ports: `M2MTimer`, `M2MConnectionHandler`, `M2MConnectionSecurity`, the nsdl library | (not in this repository) | | the environment |

How they interact: the application calls `M2MInterfaceImpl`, which calls
`M2MNsdlInterface` and the connection handler; the nsdl library calls
`send_to_server_callback()` back, which ends in
`M2MInterfaceImpl::coap_message_ready()` while the first call is still on the
stack; a datagram enters by `data_available()`, is parsed by the library and
comes back through `received_from_server_callback()` or
`resource_callback()`, which call the state machine's observer methods. Setting
a value in the tree calls the report handlers of the resource and its parents,
which call `observation_to_be_sent()` of `M2MNsdlInterface`, now or when a timer
expires.

What is hard: three kinds of timer whose flags live in another class than the
timer; a state machine that is entered again by the calls it makes; responses,
connection errors and timers in any order; messages lost or refused; state kept
from an earlier bootstrap or registration; the order of bootstrap writes. The
complete list, with the line where each bites and the property that covers it,
is under `hazards` in `PROJECT.json`.

## 2. Modules

| module | models | read with |
|---|---|---|
| `M2MInterfaceImpl` | the state machine and the registration half of `M2MNsdlInterface` | `source/m2minterfaceimpl.cpp`, `source/m2mnsdlinterface.cpp` |
| `Reconnection` | the abstract promise about reconnecting | `docs/Introduction.md`, "Reconnectivity" |
| `M2MInterfaceImpl_proofs` | theorems about `M2MInterfaceImpl`: types, the retry timer and its count, the refinement of `Reconnection` | |
| `M2MInterfaceImpl_upkeep_proofs` | theorems about `M2MInterfaceImpl`: what will happen next, or may not | |
| `MCM2MInterfaceImpl` | the instances TLC checks | |
| `M2MReportHandler` | the notifications of one observed node | `source/m2mreporthandler.cpp` |
| `M2MReportHandler_proofs` | theorems about `M2MReportHandler`: types, valid attributes, periods | |
| `M2MReportHandler_changes_proofs` | theorems about `M2MReportHandler`: changes and thresholds | |
| `MCM2MReportHandler` | the attributes the server writes in each run | |
| `M2MResourceTree` | the tree of one object: observation at every level, changes, life cycle, the library's list | `source/m2mbase.cpp`, `m2mobject.cpp`, `m2mobjectinstance.cpp`, `m2mresource.cpp`, `m2mresourcebase.cpp`, `m2mnsdlinterface.cpp` |
| `Observation` | the abstract promise about observing | `docs/info_reporting.md` |
| `M2MResourceTree_proofs` | theorems about `M2MResourceTree` | |
| `MCM2MResourceTree` | the tree TLC checks | |
| `M2MTLV` | records and their headers, serialisation, deserialisation | `source/m2mtlvserializer.cpp`, `source/m2mtlvdeserializer.cpp` |
| `M2MTLV_proofs` | theorems about `M2MTLV`: headers, what a payload may change, what an accepted one leaves, and that what is written is read back | |
| `M2MObjects` | what the resources of an object hold and all that writes them | `source/m2mdevice.cpp`, `m2mfirmware.cpp`, `m2msecurity.cpp`, `m2mserver.cpp`, `m2mobjectinstance.cpp` |
| `M2MObjects_proofs` | theorems about `M2MObjects` | |
| `MCM2MObjects` | the payloads servers send | |
| `M2MBlockMessage` | one block and what is kept of the ones before | `source/m2mblockmessage.cpp` |
| `M2MCallbackStorage` | the list of callbacks | `source/m2mcallbackstorage.cpp` |
| `M2MResourceRequests` | a resource written in blocks and executed, with objects that come and go | `source/m2mresourcebase.cpp`, `source/m2mresource.cpp` |
| `M2MResourceRequests_proofs` | theorems about `M2MResourceRequests` and the two modules it composes | |
| `MCM2MResourceRequests` | the transfers and callbacks TLC checks | |

`M2MObjects` extends `M2MTLV`; `M2MResourceRequests` composes `M2MBlockMessage` and
`M2MCallbackStorage` with a server and an application. `M2MResourceTree` says which
handler a change reaches, `M2MReportHandler` what a handler makes of what
reaches it; `M2MInterfaceImpl` says when a registration may be sent at all.

### M2MInterfaceImpl

One variable, `client`, a record with one field per member the behaviour
depends on:

| field | member |
|---|---|
| `current_state`, `retry_count`, `reconnecting`, `retry_timer_expired`, `bootstrapped`, `reconnection_state` | the members of the same names |
| `security` | `_security` |
| `server_address` | `_server_ip_address` and `_server_port`, by the object whose URI they came from |
| `timers` | the armed ones among `_retry_timer`, `_registration_flow_timer` (started with one of two types), `_queue_sleep_timer`, `_registration_timer`, `_nsdl_exceution_timer` |
| `lifetime` | `_endpoint->lifetime_ptr` is set |
| `unregister_ongoing`, `bootstrap_id`, `identity_accepted` | the members of the same names (`bootstrap_id`: not zero) |
| `nsdl_security` | `M2MNsdlInterface::_security`: none, or its data incomplete or complete (`validate_security_object()`) |
| `ep_registered`, `outstanding` | the nsdl library: it knows a registration; requests whose answer it awaits |
| `connection`, `server_type` | the connection handler: its phase and what it was asked to resolve for |
| `told`, `owed`, `ended` | history: callbacks of the last step, whether an outcome is owed, whether a final answer was received |

Every entry point is one action. Inside it the code is a nest of calls, many of
which change the state again through `internal_event()`; the model writes them
as operators from client to client (`StateIdle`, `SocketError`,
`SendRegisterMessage`, ...) composed in the order of the calls. What a message's
sending may come to (`sent`, `refused` by `send_data()`, `unbuilt` by the
library) is an input. The states that only raise `STATE_WAITING` or
`STATE_IDLE` are passed through.

The environment is what the interfaces allow: the resolver answers or an error
is reported, also one queued before the connection was closed; any datagram may
arrive on an open connection, or none; an answer arrives at most once for a
request sent; a bootstrap server writes, deletes and finishes in any order. A
timer that is armed may fire.

### Reconnection

Failures since the last success are counted one by one up to `COUNT`; then the
client gives up, or with `LOOP` starts counting again, and either way reports an
error; success resets the count and is reported; nothing else changes it.
`ImplementsReconnection` says that `M2MInterfaceImpl` implements it under the
mapping `count <- client.retry_count`, `reconnecting <- client.reconnecting`,
`report <- ` what the last step told.

### M2MReportHandler

One variable, `handler`, has a field per member of the class: `observed`
(`_is_under_observation`), `attributes` (the flags of `_attribute_state`), the
five attributes, the limits `high_step` and `low_step`, `notify`,
`pmin_exceeded` and `pmax_exceeded`, the two timers with the seconds they have
left, `current` and `last`, and `changed` (`_changed_instance_ids`). `sent` and
`carried` say what the last step passed to `observation_to_be_sent()`. `value`
is the value of the resource. The other variables are history: the value the
`server` was last sent, which changes are `owed`, and the time `elapsed` since the
last notification (or since the periods began).

The module is read for one node. `Numeric` says which of the two ways a change
takes: `set_value()` of a numeric resource, or `set_notification_trigger()` of a
string resource, an instance or an object, which names the instance that
changed. Every method is an operator from handlers to handlers and is composed
in the order of the calls; the actions are the calls from outside (set a value,
GET with observe 0 and 1, RESET, PUT of a query, the two timers) and the passing
of a second.

- A query is a set of attributes with values (`Queries`); parsing is
  `Written`. Whether an option is refused or the combination, the caller calls
  `set_default_values()`, so what `parse_notification_attribute()` restores is
  overwritten and the two cases differ only in what they refuse.
- `Server` says which habits the server has: `"renews"` an observation,
  `"resets"` one, `"misspells"` a query. The runs leave out those for which
  section 5 shows that the property fails.
- Numbers are integers. The comparisons and the sums of the code are exact for
  the values of the runs; rounding of floats is not modelled.
- Time: `Tick` waits until a timer that is due has been served. A timer served
  later would make every period longer by the delay of the event loop, which no
  property could bound. `elapsed` stops at `HORIZON`, which is more than any
  period, so no comparison with a period is lost.

### M2MResourceTree

`report` holds of every node's `_report_handler` whether it exists, whether it is
under observation, its levels and its token; `observation_handler` says whether
the object has one (every other class passes it on to its parent, so there is
one per tree); `alive` are the nodes that exist, `registered` the entries the nsdl
library lists and `dangling` those whose node is gone. `observing` is the server:
the token it observes a node with. `change` and `told` are history of the last step.

- Levels: `AddLevel` and `RemoveLevel` are the recursions down the tree, `CombinedLevels`
  the disjunction up the path in `M2MResourceBase::report()`.
- A GET with observe 0 or 1, a RESET, a PUT with a query, a POST to the object, to
  an instance the library lists and to one it does not, a DELETE; and the
  application's creation and removal of nodes, changes of value and registrations.
  A removal names all that goes with it (`Removed`), also a multiple resource with
  its last instance.
- What is created has no report handler, so `create_object_instance()` and its kin
  hand a level to a handler that is not there: the level is lost, which
  `LevelsAreObservations` allows since the parents' levels are combined.
- Abstracted: a value (a change is a change), periods and thresholds, the content of
  a payload (which nodes its records name, and whether it is accepted).

### Observation

A server starts and ends observations. A change tells exactly the observers of the
nodes it concerns (`Heard`), but for those in `Optional`; while the tree is `muted`
it tells nobody. Ending an observation, also one that is not there, may mute, starting
one ends that. The
mapping gives `Heard` what the code's types and modes make of a change: a string set
by `set_value()` concerns its own observer only, a static value the observers of
its parents, all else every node of the path. `Optional` is a resource one of whose
instances had attributes written to it.

### M2MTLV and M2MObjects

`contents` maps slots to leaves: `<<id>>` to a resource and `<<id, k>>` to its
instance `k`, each with type, operations and value. A value is nothing, a text, or
the binary digits of an integer; the two are told apart because the classes write
decimal text and the TLV code writes binary. A payload is the sequence of its
records, containers before what is nested in them. `DeserializeResources` runs the
check and then the write, each with its own results; a `Header` is a
sequence of bytes, read by `DeserialiseID`, `DeserialiseLength` and `ValueOffset`. `class` is chosen in the first step: the tables of ids, types and
limits of each class are operators named after it.

Servers PUT and POST; a bootstrap server creates, writes and deletes; the
application uses the methods of the class, or those of `M2MObjectInstance` for an
object of its own. POST makes the resources it does not find in its first pass.

### M2MBlockMessage, M2MCallbackStorage and M2MResourceRequests

`message` is the `M2MBlockMessage` of the resource, `callbacks` the list of
associations in its order, keyed by an address that `Create` may hand to the next
object. The server sends the blocks of a transfer in order, may repeat the last
one, give up and start another, and announce a size with any block; the application
stores blocks by their number and combines them at the last one, as
`docs/Howto.md:428` asks it to. A POST to a resource with a delayed response keeps
its token; the application answers when it likes. `PutBlock` is stated for a
resource that has a block handler: one with an external store and no handler
overwrites its value with every block and reports each.

## 3. Runs

Each run asks one question of the system; its cfg names every bound.

| run | question | bounds |
|---|---|---|
| `Registration_udp` | Is the bookkeeping of retries, timers and unregistration consistent, and is `Reconnection` implemented, over UDP with the reconnection loop? | one server, COUNT 3, every outcome and lifetime, errors 3 and 5 |
| `Registration_tcp` | Does a reconnecting client always have something that wakes it up, is `Reconnection` implemented without the loop, and does every reconnection end? | one server, COUNT 2, queue mode |
| `Bootstrap_tcp` | Is whoever is owed an outcome guarded by a timer, is it told in the end, and is a bootstrap that is reported done complete? | a bootstrap server and a server, COUNT 1, an endpoint name that fits |
| `Periods` | With distinct periods, does the maximum timer run whenever it must, is a change not yet told always pending with a timer to send it, does the server hear of the node within the maximum period, are notifications the minimum period apart, is every change told in the end? | minimum 0..2, maximum 3, three values |
| `Thresholds` | Do the thresholds in force decide what is sent, and is what is in force valid? | gt 2 and 4, lt 1, st 0 and 1, minimum 3, maximum -2 and 2, five values, three attributes per query, every habit of the server |
| `Objects` | Does the pending notification of an object carry every instance that changed? | three instances, the periods of `Periods` |
| `Tree` | Are levels those of observations, do client and server agree, does the library list only what exists, is `Observation` implemented? | one object, one instance, a dynamic resource, a static string and a multiple resource of one instance, a token per node |
| `Written` | Is a refused payload without effect and an accepted one applied, are records read back, do the rules of each object hold? | seven classes with sixteen resources, instances 0 and 256, the value 256 for an application's own resources, every payload of one or two items |
| `Blocks` | Are callbacks current, values combined and reported whole? | transfers of three and two blocks, two callbacks of two types, one other object, two unanswered POSTs, with a token or without |
| `KeepAlive`, `Rejection`, `Siblings` | violations: see section 5 | |

Why the bounds are enough. The machine compares the retry count only with zero
and with `RECONNECTION_COUNT`: 3 has a first, a middle and a last failure, 1 and
2 the borders. A second server matters only to which server is contacted, and
no property of a run speaks of that (section 5). The error code matters only through the
error it is turned into, and every code is turned into one; 3 and 5 are two
different ones.
`ConnectionErrors` has no code outside 1..6: for such a code `socket_error()`
without a retry tells nothing and changes nothing but the kind of reconnection,
and the connection handler reports none.

CHECK_DEADLOCK is off in every run: a client nobody calls and no server answers
may stop. In the other modules every step is a call of the server, of the
application or of a timer, and all of them may stop.

The handler compares values with each other, with the thresholds and with the
defaults 0 and -1, and periods with each other and with 0 and -1: the sets of the
runs hold a value on each side of every threshold and at the distance of a step,
and periods that are apart, ordered the wrong way and below -1. `Periods`
leaves the values 0 and -1, equal periods and renewals out, for which section 5
shows what happens. In `Thresholds` a minimum period of 3 is valid only with the
maximum -2; minimum and maximum together are the matter of `Periods`, where every
minimum is below the maximum. What lies between is covered
by the theorems, which hold for every set of attributes.

In `Tree` a path has every kind of node and `i` has siblings of each kind a change
may come from; a second instance would repeat the first with the same levels. Tokens
are not shared: RESET is matched by token, and a server that uses one token for two
nodes loses the wrong observation. No resource instance is observable on its own and
only `m` has attributes written, the cases section 5 speaks of; the theorem covers
attributes on resource instances. In `Siblings` no leaf is a string or static, so
that nothing but the handler can be the cause.

In `Written` the resources kept are one or two of each treatment the classes make:
string, integer, multiple, executable, mandatory, checked for its range, with a
side effect. Two items are enough for one record to follow another that is refused,
unknown or of the same resource; ids 0 and 256 lie on the two sides of a width,
and `HeadersAreRestored` adds every length at the borders 7, 8, 255, 256, 65535
and 65536. A container that ends a payload has records: without any, the code reads on
past the end.

In `Blocks` three blocks have a first, a middle and a last one, and a value of two
ends where the other goes on; the sizes are the limit and one above. Two callbacks and
one other object suffice for an address that is used again. Two requests outstanding,
one of which may have no token, let a second one arrive before the first is answered.
Every PUT may announce a size, in blocks or not.

Fairness (`FairSpec`): an armed retry or flow timer that is not stopped fires.
That is what a timer is for. Nothing is assumed of the network, of the servers or
of the application. `ReconnectionEnds` excepts an application that goes on calling
for ever, since each call may restart the connection and its timer. `OwedIsTold` excepts
only one that begins to connect again and again (`Restart`): each such call is accepted,
owes a new outcome and starts the flow timer anew (`source/m2minterfaceimpl.cpp:751`). In
`M2MReportHandler` time passes and a timer that is due is served; `ChangeIsTold`
excepts a server that goes on restarting the observation, which restarts its
timers.

## 4. Properties

- `TypeOK`: among the types, the retry count never passes the bound.
- `RetryTimerArmed`: without the loop, `socket_error()` drops an error when the
  flags say that the retry timer is running. This says that the flags are right.
- `RetryCountMatchesReconnecting`: the count and the flag are set and reset in
  five functions of two kinds; they agree in every state.
- `ImplementsReconnection`: see above; no give-up in silence, no skipped count.
- `RejectionIsFinal`: a rejection that finds neither the retry timer nor a flow timer
  armed brings the client to rest; from there it connects no more and sends no request until
  the application calls, a datagram comes or the connection fails. What the rejection
  finds armed goes on: `RejectionIsNotRetried` is what the documentation says of that, and it
  does not hold (section 5).
- `IdleIsQuiet`, `UnregistrationCanEnd`: what idle promises to
  `M2MNsdlInterface`'s timers and flags.
- `ReconnectsOnItsOwn`: `update_registration()` is ignored during a
  reconnection on this ground (`source/m2minterfaceimpl.cpp:1059`).
- `NeverStalls`, `OwedIsTold`, `ReconnectionEnds`: over TCP, where the flow timer
  exists, nobody waits for ever.
- `BootstrapDoneIsComplete`: whatever the bootstrap server writes or deletes
  between the end of the data and the last acknowledgement.
- `ChangeIsPending`, `ChangeIsTold`: the first is what makes the second true. A change
  that had to wait is still going to be sent only if the pending flag, two values
  and two timers, each written by several methods, agree.
- `ChangedAreCarried`: the list of changed instances outlives whatever happens
  between a change and its notification.
- `MinimumPeriod`, `MaximumPeriod`: the time between notifications, measured by a
  clock the handler does not read. `MaximumPeriod` excepts a change that waits for the
  minimum period, for the reason section 5 gives.
- `HeartbeatIsArmed`: the maximum timer is single shot and its expiry does not
  always restart it.
- `AttributesAreValid`: over sequences of queries, each parsed on top of what the
  earlier ones left.
- `ThresholdsDecide`: the limits of a step are computed one value ahead; `Meets`
  states what they are for.
- `LevelsAreObservations`: a level is copied to every handler below a node, when it is
  observed, and taken back node by node; handlers come and go in between.
- `ObservationsAgree`: what the server believes it observes, and with which token, is
  what the handlers say; RESET finds its node by a token that may be an old one.
- `ListedIsAlive`: removal takes every entry below a node off the library's list.
- `ImplementsObservation`: four levels combined and four handlers decide whom a change
  reaches; the promise speaks of observers only.
- `RefusedChangesNothing`, `AcceptedIsApplied`: payloads of several records, nested and
  not, in two passes.
- `SerialisedIsRestored`, `HeadersAreRestored`: round trips, at the borders of every width.
  An integer comes back as its binary digits and a boolean as its last byte, which is
  what the serialiser writes (`source/m2mtlvserializer.cpp:200`).
- `MandatoryStay`, `UpdateIsExecutable`: rules that several methods share.
- `CallbacksAreCurrent`: the list is a map of what was set last, though addresses return.
- `CombinedIsComplete`, `UpdatedIsComplete`: over transfers repeated, given up and refused.

## 5. Where code and documentation part

The violation runs each show one disagreement; `findings` in `PROJECT.json`
quotes the text and explains the trace.

| run | the code |
|---|---|
| `KeepAlive` | after a reconnection by update nothing refreshes the registration |
| `Rejection` | a rejected registration is registered again when the retry timer of an earlier failure fires, for `registration_error()` stops no timer; `docs/Introduction.md:168` says the client "does not attempt a reconnection" |
| `Siblings` | cancelling the observation of one node silences the observers of all others of the object |

The models show more of the kind, which the assumptions of the passing runs keep
out. TLC finds each within seconds when the cfg is changed as said:

| what | with |
|---|---|
| over UDP the update that ends a reconnection is neither retransmitted nor guarded by a flow timer (`source/m2mnsdlinterface.cpp:256`), and a refused send ends one in silence | `ReconnectsOnItsOwn` in `Registration_tcp` with `Tcp = FALSE` |
| a connection error after the end of a bootstrap leaves the client reconnecting with no timer: `_security` is gone (`source/m2minterfaceimpl.cpp:491`) | `ReconnectsOnItsOwn` in `Bootstrap_tcp` |
| a value that changes back after a GET renewed the observation of a pending change is not told: `_last_value` does not know what the response carried (`source/m2mreporthandler.cpp:69`) | `ChangeIsPending` in `Periods` with `"renews"` |
| the sentinel -1 of `_last_value` hides a first change to -1 (`:52`, `:82`) | `ChangeIsPending` in `Periods` with -1 among the values |
| a change written while a RESET has ended the observation does not reach the handler, whose stale value is taken for the last one sent (`source/m2mreporthandler.cpp:69`, `source/m2mresourcebase.cpp:235`) | `ChangeIsPending` in `Periods` with `"resets"` |
| after thresholds were written and a refused query dropped them, the last value is the one they suppressed, not the one the server has: a change back to it is not told (`source/m2mreporthandler.cpp:90`) | `ChangeIsPending` in `Periods` with `gt` among the attributes |
| a new value of -1 is not compared with the thresholds of a handler that has sent nothing yet (`:82`) | `ThresholdsDecide` in `Thresholds` with -1 among the values |
| a maximum period of 0 or -1 without a minimum is below the default minimum of one second and refused (`:367`) | `ChangedAreCarried` in `Objects` with such a maximum |
| periods of zero written while a change is pending stop the timer that was to send it and start none (`:341`, `:353`) | `ChangeIsPending` in `Periods` with a maximum of 0 |
| equal periods end the minimum period at once (`:342`) | `MinimumPeriod` in `Periods` with a minimum of 3 |
| a value outside the thresholds ends the minimum period early (`:96`) | `MinimumPeriod` in `Periods` with `gt` beside `pmin` |
| a change undone before the minimum timer fires makes `report()` send nothing, keep the pending flag and restart both timers, again and again while nothing changes (`:332`) | `MaximumPeriod` in `Periods` without its last condition |
| a change that waits for the minimum period restarts the maximum timer when that ends, and one the thresholds suppress then clears the pending flag without being sent (`:88`, `:332`) | `MaximumPeriod` in `Periods` with `gt` beside `pmin` and `pmax` |
| a refused query clears the changed instances but not the pending flag: the notification is sent without them (`:405`) | `ChangedAreCarried` in `Objects` with `"misspells"` |
| a handler that has sent nothing yet takes zero for the last value and drops a change to it (`source/m2mreporthandler.cpp:333`) | `ChangeIsPending` in `Periods` with 0 among the values |
| over TCP the flow timer of the rejected attempt itself, still armed, does the same as the retry timer of `Rejection` | `RejectionIsNotRetried` in `Rejection` with `Tcp = TRUE` |
| a retry timer survives a successful registration (`source/m2minterfaceimpl.cpp:821`) and registers a client that has deregistered; `docs/client_reg_dereg.md:145` says it "has to register again" | `DeregistrationIsFinal` as a property of `Registration_udp` |
| a POST with a delayed response that comes before the first is answered replaces its token: the first is never answered, the second may be twice; one without a token leaves the earlier token (`source/m2mresource.cpp:556`) | `AnswersAreAwaited` as an invariant of `Blocks` |
| a payload of two records, the text 2 for `State` and any value for a resource that allows PUT, sets `State` though it does not: the answer to the second record replaces NotAllowed (`source/m2mtlvdeserializer.cpp:210`); `Update` stays as it was | `UpdateIsExecutable` in `Written` with the records `R 3 Text(2)`, `R 1 Text(1)` in one payload |
| an integer that `M2MSecurity` stores as text and reads as binary comes back as its first digit's code: "1" is read as 49 (`source/m2msecurity.cpp`) | `IntegersAreReadBack` as an invariant of `Written` |

Two more follow from the model of the client and concern no property of a run.
Only a bootstrap resets `_security`, so `register_object()` with a second server
object connects to the first and `object_registered()` reports the second
(`source/m2minterfaceimpl.cpp:696`, `:298`); and `_bootstrapped` stays FALSE
after a bootstrap that was not finished, so the retry of a failed registration
is a bootstrap (`:526`).

The models of the tree and of the objects show how the code treats cases that no
document settles; they are in the models as they are in the code.

- Tree: `free_resources()` leaves an entry on the library's list when the object
  has no observation handler, though its comment says that the structures are
  removed (`source/m2mbase.cpp:758`). A static resource that is observed is not
  notified; an observed resource instance is acknowledged and never notified;
  attributes written to a resource instance give it a handler that takes the place of
  its resource's. A POST to an instance that exists but is not listed is not
  answered and sends a registration update. A POST to the object that is refused leaves
  the instance it created.
- TLV: the result of a recursive call replaces an error found before it
  (`source/m2mtlvdeserializer.cpp:137`, `:210`, `:271`, `:324`), so that a payload is
  refused by its last record only: the earlier ones may then write resources that do
  not allow PUT. Nested resource instances are read on past the end of their container. A
  container of an unknown id is skipped in silence. A POST that is refused leaves the
  resources its first pass made. A resource whose name is no number makes the whole
  serialisation empty. A boolean is written as one byte, so a value of 256 is read
  back as 0 (`source/m2mtlvserializer.cpp:200`).
- Objects: an integer written by TLV is binary and reads as 0 through `get_value_int()`,
  which converts text. `BootstrapServer` of `M2MSecurity` cannot be set or read as an
  integer. `SupportedBindingMode`, documented as creatable, is not.
- Requests: `clear_values()` leaves `_is_block_message`, so after a block-wise PUT every
  GET goes to the outgoing block callback. An announced size stays after a transfer
  that was given up, and a block of a refused message shows the callback the data and
  the number of the one before.

Seen and not made into runs: the retry interval is interval * COUNT * count
(`source/m2minterfaceimpl.cpp:452`), while `docs/Introduction.md:162` gives
interval * count; `bootstrap_error()` passes a code of another enumeration, so a
failed bootstrap is told as a network error; a lifetime that is too short is
reported and used all the same.

## 6. Proofs

`M2MInterfaceImpl_proofs` proves, for any servers, any retry bound and any
configuration allowed by `ConstantsAssumption`:

- `TypeCorrect`: `Spec => []TypeOK`;
- `RetryTimerIsArmed`: `Spec => []RetryTimerArmed`;
- `RetryCountIsConsistent`: `Spec => []RetryCountMatchesReconnecting`;
- `ReconnectionIsImplemented`: `Spec => ImplementsReconnection`.

The inductive invariant is `ReconnectionInv`, the conjunction of `TypeOK` and the
two invariants. None of the two is inductive alone: giving up is told from
starting again by the count, and the retry timer fires only in states where the
other fields have their types. Since the client is one record that operators
transform, the argument is about operators and not about actions. Each operator
falls into one of a few kinds, relations between the record before and after:
it leaves the bookkeeping alone (`Quiet`), schedules a retry (`Retried`), ends
the reconnection (`Ended`), or one of these after the other; a lemma per
operator says which, a lemma per group of actions puts them together, and
`NextKind` sums up: every step is of one of the kinds. Each kind preserves the
invariant and each is a step of `Reconnection`; that gives both the invariance
theorems and the refinement.

`M2MInterfaceImpl_upkeep_proofs` proves what is left of its safety properties:

- `IdleClientIsQuiet`: `Spec => []IdleIsQuiet`;
- `PendingUnregistrationCanEnd`: `Spec => []UnregistrationCanEnd`;
- `DoneBootstrapIsComplete`: `Spec => []BootstrapDoneIsComplete`;
- `ClientNeverStalls`: `Spec => []NeverStalls`, over TCP;
- `RejectionEndsReconnection`: `Spec => RejectionIsFinal`, over UDP and TCP;
- `ReconnectionIsItsOwn`: `Spec => []ReconnectsOnItsOwn`, over TCP and without bootstrap
  servers.

The hypotheses of `ClientNeverStalls` and `ReconnectionIsItsOwn` are borders: section 5
shows what TLC finds beyond each.
The first four share the invariant `UpkeepInv`. It adds to `ReconnectionInv` that an
idle client has no timer of the nsdl interface (`Stopped`); that a pending
unregistration has its request outstanding (`CanEnd`); that the security objects of a
finished bootstrap are complete (`Complete`); and that over TCP a client that owes an
outcome is `Watched`, that is, it has a flow or retry timer. `RejectionEndsReconnection`
needs types only. A lemma per group of actions says that no step but the rejection leaves
the client rejected that did not find it so, and that a rejected client at rest changes
nothing but the queue-sleep timer (`StaysRejected`, `Idles`); of the rejection, that it
arms nothing which would wake the client. `ReconnectionIsItsOwn` needs `AttachedInv`: once a
registration has begun the client has a security object to connect with, and this is
exactly what the end of a bootstrap takes away. Kinds of steps carry the argument as
before (`Keeps`, `Moved`, `Fails`, `Settles`, `Connects`, `Serves`), with one lemma per
operator.

`M2MReportHandler_proofs` proves, for any values, instances and attributes
allowed by `OptionsAssumption`:

- `ReportHandlerTypes`: `Spec => []TypeOK`;
- `AttributesStayValid`: `Spec => []AttributesAreValid`;
- `HeartbeatStaysArmed`: `Spec => []HeartbeatIsArmed`;
- `MaximumPeriodIsKept`: `Spec => []MaximumPeriod`, where the server does not write
  thresholds beside minimum periods (`PlainPeriods`);
- `MinimumPeriodIsKept`: `Spec => MinimumPeriod`, where it writes no thresholds
  and no minimum equal to a maximum (`DistinctPeriods`).

The assumptions of the last two are the borders found by TLC: section 5 shows
what happens outside. Three inductive invariants carry the argument.
`HandlerInv` says that the handler is `Sound` (typed, its periods written by the
server, valid) and `Armed`: the maximum timer runs, and while the minimum is not
exceeded its timer runs too and is due first. That order is why the maximum
timer never expires without reporting, and it is what makes `HeartbeatIsArmed`
inductive. `Beating` adds that, unless a change waits for a minimum period, elapsed
time plus what the maximum timer has left is within the maximum period, and that
without a minimum period no minimum timer runs, whose expiry would start the maximum anew; `Spaced`, that elapsed time plus what the minimum
timer has left is at least the minimum. As in the other module each operator has
a lemma and the actions only put them together.

`M2MReportHandler_changes_proofs` proves what is left of its safety properties, each up
to the border TLC found:

- `ChangesAreCarried`: `Spec => []ChangedAreCarried`, where nothing the server writes is
  refused (`NothingRefused`);
- `ObjectChangeStaysPending`: `Spec => []ChangeIsPending` for objects, instances and
  strings, under the same condition, with renewals and resets;
- `ValueChangeStaysPending`: `Spec => []ChangeIsPending` for numeric resources, where the
  server writes periods only, no maximum of 0 or below, neither renews nor resets, and
  the values are not 0 or -1 (`PlainChanges`); it may misspell and be refused;
- `ThresholdsAlwaysDecide`: `Spec => ThresholdsDecide`, for values other than -1.

Section 5 has a row for every one of these conditions. `GuardedInv` adds to `HandlerInv`
that the timer of a minimum period that is not over runs, also without a maximum: it is
what a pending change waits for. `ObjectInv` says that what is owed is among the changed
instances and waits for a minimum period. `ValueInv` relates three values: the
resource's, the last one the server was sent and the handler's last; the server is owed
the value exactly if it has another one, and the last value is the one it was sent or
one of the two that stand for none. `LimitsInv` places the limits of the next step
around the current value whenever there is no minimum period, which makes the
comparison with limits the comparison of steps (`LimitsAreThresholds`). A lemma for each
method lists what it does to each member (`ReportMembers`, `SetValueMembers`), and what
the two timers do has one form, `Reported` or `Silent`.

`M2MResourceTree_proofs` proves, for trees of any shape (`TreeAssumption`), any sets of
observable, static, string and hidden nodes and any payloads:

- `TreeTypes`: `Spec => []TypeOK`;
- `ListedNodesAreAlive`: `Spec => []ListedIsAlive`;
- `LevelsStayRight`: `Spec => []LevelsAreObservations`;
- `ObservationsStayAgreed`: `Spec => []ObservationsAgree`, where the tokens of a node are
  its own (`DistinctTokens`);
- `ObservationIsImplemented`: `Spec => ImplementsObservation`, where moreover no resource
  instance is observable on its own (`PlainInstances`).

Both assumptions are borders of the code and not conveniences: with shared tokens a
RESET ends the wrong observation, and an observable resource instance has a handler
that hides its resource's. The first part proves the shape of a tree: a path climbs
(`PathsClimb`), what is below nests (`BelowNests`). `LevelInv` adds to `TypeOK` that
handlers belong to nodes that exist and that a node without one keeps nothing
(`ReportsAreKept`): without that, a node that is created again could inherit a level.
Its preservation has a lemma per action that touches handlers. `AgreeInv` adds that
every token in a handler, also a stale one, is one of its node's (`TokensAreOwn`):
this is what makes RESET find the right node. For the refinement `TellInv` adds
that only observable nodes are observed; `CombinedIsExact` then shows that the
combined level of a leaf has the level of its resource exactly when that is
observed, `ReportsReachObservers` works out whom `report()` reaches for each type and
mode of a leaf, and `NextPromise` maps the actions to those of `Observation`.

`M2MResourceRequests_proofs` proves, for any finite sets of objects and types, any
callbacks, sizes and transfers allowed by `RequestsAssumption`:

- `RequestTypes`: `Spec => []TypeOK`;
- `CallbacksAreThoseSet`: `Spec => []CallbacksAreCurrent`;
- `CombinedValuesAreWhole`: `Spec => []CombinedIsComplete`;
- `UpdatesEndTransfers`: `Spec => []UpdatedIsComplete`.

`RequestsInv` has a part for each of the things that are composed. `IsMap` says that
the list of callbacks has at most one association of each object and type and that
its associations are exactly those set: that is what a lookup relies on, and it bounds
the list (`FewAssociations` counts by an injection). `BlocksInv` relates the kept blocks
to the transfer: unless a message was refused they are its first blocks, in order, and
an announced size is that of some transfer. `Whole` says of the last step what the
two properties about values ask, and `PostInv` types the delayed responses. `do_remove_callback()` removes the
associations of an object one after the other: its fold is unrolled by an induction
over its length (`RemovalIsTheFold`, `RemovesAll`). The induction theorems of the
library take an operator and cannot be used, so `SetOfNumbers` derives what is needed,
induction for a set of numbers, from the minimum of a well-founded relation.

`M2MTLV_proofs` proves what the TLV code does for every payload and all contents. A
reader is a recursive function on the positions of a payload (`ReadAll`), so that an
induction over a range (`RangeInduction`, `RecursionExists`) takes the place of one over
data:

- `HeaderRoundTrip`: what `serialize_TILV()` writes for any type, any identifier of two
  bytes and any length of three is bytes, and is read back as it was;
- `DeserializeResourcesWrites`, `DeserialiseObjectInstancesWrites`,
  `DeserializeResourceInstancesWrites`: whatever the records, and whatever the contents,
  a payload leaves every leaf in its place with its type and operations, gives a leaf
  only a value that one of its records has for that identifier, creates only when it is a POST,
  and changes no value at all if it is refused (`Written`).

Each reader has three lemmas. That its function exists and is typed (`...Runs`, from
`RecursionExists`); that every step makes contents grow in this sense (`...Grows`); and that
the second pass, run on what the first pass left, fails nowhere the first did not (`...Follows`,
`Succeeds`). The last is what makes a refusal without effect: an error in the second pass
would leave the values set before it, and the check of the first pass is the only thing
that prevents that, on contents that it has itself changed.

The same readers, on records nested as the format has them (`WellFormed`: nothing but
resource instances in the container of a multiple resource, none outside, no container
longer than the rest of the payload):

- `DeserializeResourcesApplies`, `DeserialiseObjectInstancesApplies`,
  `DeserializeResourceInstancesApplies`: after a payload that is accepted every leaf has
  the value of the last record that names it at its place of the nesting, or its old one
  if none does (`Applied`).

`Progress` says this of the records before a position; each step of a reader carries it to
the position read next, and `Latest` moves on to a new record or stays. The check pass
makes what a `POST` names, so the update pass finds a slot for every record and no step of
it has to create one. The positions a reader jumps over, those in a container it
does not descend into, name slots of another nesting and change no leaf.

And what is written is read again:

- `SerializeResourcesRestores`: contents of any resources, written by
  `SerializeResources` and read into the same contents without their values, give every
  value back as it was written (`Returned`: an integer as its digits, a boolean as one byte),
  and no error is left.

`serialize_resources()` writes resources in the order of a list that the model leaves open:
`FoldSet` chooses an element of a set. The fold is unrolled as a function defined by
recursion over the subsets of a finite set (`Folding`, `FoldingExists`, with
`SubsetInduction` in place of the library's induction), and the argument holds for any
choice. `Serial` says of what a set of resources is written to that its records are well
formed, carry these resources' values and no other, and name each of their slots;
`SerialJoins` carries it through a concatenation. Then each record finds its slot (the
`...Finds` lemmas), so no record is refused, and the value `Latest` names is that of the
slot itself.

`M2MObjects_proofs` proves, for any numbers, words, instances and payloads of records
allowed by `ObjectsAssumption`:

- `ContentsTypeOK`: `Spec => []TypeOK`;
- `MandatoryResourcesStay`: `Spec => []MandatoryStay`;
- `HeadersStayReadable`: `Spec => []HeadersAreRestored`;
- `RefusedSetsNothing`: `Spec => []RefusedChangesNothing`;
- `UpdateStaysExecutable`: `Spec => []UpdateIsExecutable`, where no record gives `State` the
  text of a downloaded package (`StateIsNotSent`; section 5 shows what one does);
- `AcceptedEndsWhereNamed`: `Spec => []AcceptedIsApplied`, where the payloads are well
  formed (`PayloadsAreWellFormed`), as those of run `Written` are;
- `SerialisedStaysReadable`: `Spec => []SerialisedIsRestored`.

`PayloadsAreWellFormed` is the grammar of the format and, again, a border of the code: it
takes the record of a resource instance that stands outside a container for a resource,
and a record behind one whose length is wrong for whatever its type says there.

All but `UpdateStaysExecutable` rest on `Shape`: contents are typed, instances belong to multiple resources
(`Nested`), which resources of a class are multiple never changes (`Fixed`) and the mandatory ones
are there with their types (`Complete`). Each class has a lemma that its methods keep the shape
(`DeviceKeeps`, `FirmwareKeeps`, ...), and `RequestsKeep` derives the requests from the
theorems about payloads. `Fixed` is what keeps `Nested`: an instance is created below
whatever has its resource's id, unchecked. `UpdateIsExecutable` alone is not inductive, for
a `State` that servers may write would change without its check; `Ready` adds that they may
only read it, so that the method that runs `check_value_range()` is its one writer.

So every safety invariant and every action property of the passing runs is a theorem,
for all values of the constants or under the hypothesis named with it. What stays with TLC:
the three liveness properties (`ReconnectionEnds`, `OwedIsTold`, `ChangeIsTold`), for
fairness is about `ENABLED`, which the provers do not handle; and the three runs that expect a
violation, whose counterexamples are their result.

## 7. What is not modelled

- The ports (timers, sockets, TLS) and the nsdl library, beyond what the code
  relies on: they are not in this repository.
- Durations in `M2MInterfaceImpl`: a timer is armed or not. Which of two armed
  timers fires first is left open, so every order of the code's timers is among
  the model's.
- `_register_server`, which is only handed to callbacks; which server an outcome is
  reported for is in section 5.
- Memory: copies, allocation failure and dangling pointers.
- Re-entrant calls from observer callbacks and from the callbacks of a resource (setting
  a callback from inside that callback deletes the one that runs), and concurrent
  calls from another thread: a handler runs to its end.
- In the tree: copying of names, content types, the maximum age, response texts, the
  acknowledgement of notifications, and the observation number. In the TLV code: a
  length that lies about what follows it. Several object instances of one class in
  `M2MObjects`, and the resources of a class beyond those of `Written.cfg`.
- Floats: a value, a threshold and a step are integers.
- Components marked `not_modelled` in `PROJECT.json`, with the reason: the interface
  factory and the string classes have no behaviour over time, `nsdlaccesshelper`
  forwards calls, the ports are elsewhere.

## 8. Plan

Done: the connection state machine, the report handler and the resource tree with
their theorems and both abstract specifications; block-wise requests, delayed responses
and the callback storage with theirs; the objects with their TLV records and theirs.
What would come next:

1. Re-entrant calls of the application from its callbacks in `M2MInterfaceImpl`.
