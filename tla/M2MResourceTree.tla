--------------------------- MODULE M2MResourceTree ---------------------------
(***************************************************************************)
(* The tree of one M2MObject: its instances, their resources and the       *)
(* instances of those, how the server observes them, how they come and go, *)
(* and what the nsdl library knows of them. Translated from                *)
(* source/m2mbase.cpp, m2mobject.cpp, m2mobjectinstance.cpp,               *)
(* m2mresource.cpp, m2mresourcebase.cpp, m2mresourceinstance.cpp and the   *)
(* resource half of m2mnsdlinterface.cpp.                                  *)
(*                                                                         *)
(* Abstracted: values (a change is a change), the periods and thresholds   *)
(* of a report handler (module M2MReportHandler: here a trigger sends at   *)
(* once), the payload of a POST (the nodes its records name and whether    *)
(* the deserialiser accepts it, module M2MTLV).                            *)
(***************************************************************************)
EXTENDS Naturals, FiniteSets

CONSTANTS
    Object,              \* the M2MObject
    Instances,           \* M2MObjectInstance, by identifier
    Resources,           \* M2MResource
    ResourceInstances,   \* M2MResourceInstance
    Parent,              \* the node each of them belongs to
    Multiple,            \* resources that support several instances
    Strings,             \* leaves of type STRING
    Statics,             \* leaves of mode Static
    Hidden,              \* object and instances whose operation is NOT_ALLOWED
    Observable,          \* nodes whose observable flag is set
    Attributed,          \* nodes whose attributes the server writes
    Tokens,              \* tokens of the server's requests
    TokensOf,            \* those it uses to observe a node
    Bodies,              \* the nodes the records of a POST may name
    NoToken

Nodes == {Object} \cup Instances \cup Resources \cup ResourceInstances
Leaves == (Resources \ Multiple) \cup ResourceInstances

ASSUME TreeAssumption ==
    /\ Object \notin Instances \cup Resources \cup ResourceInstances
    /\ Instances \cap Resources = {}
    /\ (Instances \cup Resources) \cap ResourceInstances = {}
    /\ Multiple \subseteq Resources
    /\ Parent \in [Instances \cup Resources \cup ResourceInstances -> Nodes]
    /\ \A i \in Instances : Parent[i] = Object
    /\ \A r \in Resources : Parent[r] \in Instances
    /\ \A x \in ResourceInstances : Parent[x] \in Multiple
ASSUME TokenAssumption ==
    /\ TokensOf \in [Nodes -> SUBSET Tokens]
    /\ NoToken \notin Tokens
ASSUME BodiesAssumption == Bodies \subseteq SUBSET Nodes

VARIABLES
    alive,                 \* the nodes that exist
    report,                \* _report_handler of each node
    observation_handler,   \* M2MObject::_observation_handler is set
    registered,            \* entries of the nsdl library's list of resources
    dangling,              \* entries whose node is gone
    change,                \* what the last step changed, if it changed a value
    told,                  \* the nodes the server was notified of in that step
    observing              \* the server: the token it observes a node with

tree == <<alive, registered, dangling>>
vars == <<alive, report, observation_handler, registered, dangling, change, told, observing>>

-----------------------------------------------------------------------------
(* The history of the last step.                                           *)

Changes == Leaves \X {"set", "clear"}
NoChange == <<>>

Quiet == change' = NoChange /\ told' = {}

-----------------------------------------------------------------------------
(* Where a node stands in the tree.                                        *)

\* get_parent_resource(), get_parent_object_instance()
ResourceOf(l) == IF l \in ResourceInstances THEN Parent[l] ELSE l
InstanceOf(l) == Parent[ResourceOf(l)]

\* The nodes from n up to the object.
Path ==
    [n \in Nodes |->
        CASE n = Object -> {Object}
          [] n \in Instances -> {n, Object}
          [] OTHER -> {n, ResourceOf(n), InstanceOf(n), Object}]

Below == [n \in Nodes |-> {m \in Nodes : n \in Path[m]}]

\* The level an observation of n puts on n and on everything below it.
Level(n) ==
    CASE n = Object -> "O"
      [] n \in Instances -> "OI"
      [] OTHER -> "R"

-----------------------------------------------------------------------------
(* Report handlers.                                                        *)

NoReport == [exists |-> FALSE, observed |-> FALSE, levels |-> {}, token |-> NoToken]
\* Mutant: the level starts as a flag of its own.
NewReport_LevelNone == [NoReport EXCEPT !.exists = TRUE, !.levels = {"None"}]
NewReport == [NoReport EXCEPT !.exists = TRUE]

\* Mutant: a handler that exists is only ever put under observation.
UnderObservation_OnlyStarts(r, n, observed, handler) ==
    IF ~handler THEN NoReport
    ELSE IF r.exists \/ (observed /\ n \notin ResourceInstances)
         THEN [r EXCEPT !.exists = TRUE, !.observed = @ \/ observed]
         ELSE r

\* M2MBase::set_under_observation(). Every class but M2MObject passes the
\* observation handler on to its parent, so there is one for the whole tree.
UnderObservation(r, n, observed, handler) ==
    IF ~handler THEN NoReport
    ELSE IF r.exists \/ (observed /\ n \notin ResourceInstances)
         THEN [r EXCEPT !.exists = TRUE, !.observed = observed]
         ELSE r

\* add_observation_level(), remove_observation_level(): a node without a
\* report handler keeps no level.
AddLevel(reports, n) ==
    [m \in Nodes |-> IF m \in Below[n] /\ reports[m].exists
                     THEN [reports[m] EXCEPT !.levels = @ \cup {Level(n)}]
                     ELSE reports[m]]

\* Mutant: the level is removed from the node only.
RemoveLevel_OwnOnly(reports, n) ==
    [reports EXCEPT ![n].levels = @ \ {Level(n)}]

RemoveLevel(reports, n) ==
    [m \in Nodes |-> IF m \in Below[n]
                     THEN [reports[m] EXCEPT !.levels = @ \ {Level(n)}]
                     ELSE reports[m]]

SetToken(reports, n, t) ==
    [reports EXCEPT ![n] = IF @.exists THEN [@ EXCEPT !.token = t] ELSE @]

-----------------------------------------------------------------------------
(* Which handlers a change reaches.                                        *)

\* The combined level of M2MResourceBase::report().
CombinedLevels(l) == UNION {report[n].levels : n \in Path[l]}

\* Mutant: the level of the leaf alone decides who hears of a change.
NotificationUpdate_OwnLevel(l) ==
    {n \in {Object, InstanceOf(l)} : Level(n) \in report[l].levels /\ report[n].observed}

\* M2MObjectInstance::notification_update(), M2MObject::notification_update()
NotificationUpdate(l) ==
    {n \in {Object, InstanceOf(l)} : Level(n) \in CombinedLevels(l) /\ report[n].observed}

\* The handler report() triggers at the level of the resource.
ResourceUpdate(l) ==
    IF l \in Statics \/ "R" \notin CombinedLevels(l) THEN {}
    ELSE IF l \notin Strings /\ report[l].levels # {} THEN {l} \cap Observable
    ELSE IF l \in ResourceInstances
         THEN {n \in {Parent[l]} : report[n].exists /\ n \in Observable}
         ELSE {}

\* M2MResourceBase::report()
Report(l) == NotificationUpdate(l) \cup ResourceUpdate(l)

\* M2MBase::observation_to_be_sent() and its namesake in M2MNsdlInterface,
\* which has no notification for a resource instance.
Sent(triggered) ==
    IF observation_handler THEN triggered \ ResourceInstances ELSE {}

\* set_value(): a string goes to its own report handler only.
Triggered(l) ==
    IF l \in Strings THEN {n \in {l} : report[n].observed} ELSE Report(l)

-----------------------------------------------------------------------------
(* The list of the nsdl library.                                           *)

\* create_nsdl_object_structure() and the functions below it: which of the
\* nodes in S are put into the list.
Structure(S) ==
    {n \in S : /\ n \notin Hidden
               /\ n \in Multiple => \E x \in S \cap ResourceInstances : Parent[x] = n}

\* sn_nsdl_put_resource(): a path that is listed keeps its entry, also the entry
\* of a node that is gone.
CreateNsdl(S) == registered' = registered \cup (Structure(S) \ dangling)

\* Mutant: the destructor of a resource instance does not free its entry.
FreeResources_KeepsInstances(S) ==
    /\ registered' = registered \ (S \ ResourceInstances)
    /\ dangling' = dangling \cup (IF observation_handler THEN {} ELSE registered \cap S)

\* free_resources(): the entry is removed if there is an observation handler.
FreeResources(S) ==
    /\ registered' = registered \ S
    /\ dangling' = dangling \cup (IF observation_handler THEN {} ELSE registered \cap S)

-----------------------------------------------------------------------------
(* Requests of the server.                                                 *)

\* The library calls resource_callback() for a node that it lists.
Reached(n) == n \in alive /\ n \in registered \cup dangling

\* What handle_get_request() asks before it looks at the observe option: an
\* object without instances or an instance without resources serialises to
\* nothing and is answered 4.15.
HasContent(n) ==
    n \in {Object} \cup Instances => \E m \in alive \ {Object} : Parent[m] = n

\* GET with observe 0: handle_get_request() of the class of n.
Observe(n, t) ==
    /\ Reached(n)
    /\ HasContent(n)
    /\ n \in Observable
    /\ \A m \in Nodes \ {n} : observing[m] # t
    /\ LET shown == [report EXCEPT ![n] = UnderObservation(@, n, TRUE, TRUE)]
       IN  report' = SetToken(AddLevel(shown, n), n, t)
    /\ observation_handler' = TRUE
    /\ observing' = [observing EXCEPT ![n] = t]
    /\ Quiet
    /\ UNCHANGED tree

\* GET with observe 1: the observation handler of the whole object is given up.
Cancel(n) ==
    /\ Reached(n)
    /\ HasContent(n)
    /\ n \in Observable
    /\ report' = RemoveLevel([report EXCEPT ![n] = UnderObservation(@, n, FALSE, FALSE)], n)
    /\ observation_handler' = FALSE
    /\ observing' = [observing EXCEPT ![n] = NoToken]
    /\ Quiet
    /\ UNCHANGED tree

\* find_resource() by token: the first in the order of the lists, which the
\* model leaves open; resource instances are not searched.
FoundByToken(t) ==
    {n \in alive \ ResourceInstances : report[n].exists /\ report[n].token = t}

\* RESET in answer to a notification: received_from_server_callback().
Reset(t) ==
    /\ \E n \in FoundByToken(t) :
           report' = [RemoveLevel(report, n) EXCEPT ![n] = UnderObservation(@, n, FALSE, TRUE)]
    /\ observation_handler' = TRUE
    /\ observing' = [n \in Nodes |-> IF observing[n] = t THEN NoToken ELSE observing[n]]
    /\ Quiet
    /\ UNCHANGED tree

\* PUT with a query: handle_observation_attribute() makes a report handler
\* for a node that has none.
WriteAttributes(n) ==
    /\ Reached(n)
    /\ n \in Attributed
    /\ report' = [report EXCEPT ![n] = IF @.exists THEN @ ELSE NewReport]
    /\ Quiet
    /\ UNCHANGED <<tree, observation_handler, observing>>

-----------------------------------------------------------------------------
(* Changes of value.                                                       *)

\* M2MNsdlInterface::value_updated(), to which a static leaf reports itself: it
\* makes sure that the leaf is listed.
ValueUpdated(l) == IF observation_handler THEN CreateNsdl({l}) ELSE UNCHANGED registered

\* set_value() with a new value, by the application or by a PUT.
Change(l) ==
    /\ l \in alive
    /\ change' = <<l, "set">>
    /\ told' = Sent(Triggered(l))
    /\ IF l \in Statics \ Strings THEN ValueUpdated(l) ELSE UNCHANGED registered
    /\ UNCHANGED <<alive, dangling, report, observation_handler, observing>>

\* clear_value() reports a string like any other value.
ClearValue(l) ==
    /\ l \in alive
    /\ change' = <<l, "clear">>
    /\ told' = Sent(Report(l))
    /\ IF l \in Statics THEN ValueUpdated(l) ELSE UNCHANGED registered
    /\ UNCHANGED <<alive, dangling, report, observation_handler, observing>>

-----------------------------------------------------------------------------
(* Life cycle.                                                             *)

\* create_object_instance(), create_static_resource(), create_dynamic_resource(),
\* create_static_resource_instance(), create_dynamic_resource_instance(): the last
\* two make the resource as well if there is none. What is new has no report
\* handler, so the level handed down to it is lost.
Create(n) ==
    /\ n \notin alive
    /\ n \in Instances \cup Resources => Parent[n] \in alive
    /\ n \in ResourceInstances => InstanceOf(n) \in alive
    /\ alive' = alive \cup {n} \cup (IF n \in ResourceInstances THEN {Parent[n]} ELSE {})
    /\ Quiet
    /\ UNCHANGED <<report, observation_handler, registered, dangling, observing>>

\* What goes with n: everything below it, and a resource with its last instance.
Removed(n) ==
    IF n \in ResourceInstances /\ Below[Parent[n]] \cap alive \subseteq {n, Parent[n]}
    THEN {n, Parent[n]}
    ELSE Below[n] \cap alive

\* remove_object_instance(), remove_resource(), remove_resource_instance(); also a
\* DELETE of the server, which resource_callback() allows for object instances.
Remove(n) ==
    /\ n \in alive \ {Object}
    /\ alive' = alive \ Removed(n)
    /\ FreeResources(Removed(n))
    /\ report' = [m \in Nodes |-> IF m \in Removed(n) THEN NoReport ELSE report[m]]
    /\ observing' = [m \in Nodes |-> IF m \in Removed(n) THEN NoToken ELSE observing[m]]
    /\ Quiet
    /\ UNCHANGED observation_handler

\* create_nsdl_list_structure(), from a registration or an update of it.
Register ==
    /\ CreateNsdl(alive)
    /\ observation_handler' = (observation_handler \/ Structure(alive) # {})
    /\ Quiet
    /\ UNCHANGED <<alive, report, dangling, observing>>

\* What a payload creates below instance i.
Payloads(i) ==
    {{i} \cup S : S \in {B \in Bodies : \A m \in B : m \in Below[i] /\ Parent[m] \in B \cup {i}}}

\* POST to the object: M2MObject::handle_post_request(). What a refused
\* payload created stays.
PostObject(i, S, accepted) ==
    /\ Reached(Object)
    /\ i \notin alive
    /\ alive' = alive \cup S
    /\ IF accepted
       THEN /\ CreateNsdl(alive \cup S)
            /\ observation_handler' = TRUE
       ELSE UNCHANGED <<registered, observation_handler>>
    /\ Quiet
    /\ UNCHANGED <<report, dangling, observing>>

\* POST to an instance the library lists: M2MObjectInstance::handle_post_request().
PostInstance(i, S, accepted) ==
    /\ Reached(i)
    /\ alive' = alive \cup S
    /\ IF accepted THEN CreateNsdl((alive \cup S) \cap Below[i]) ELSE UNCHANGED registered
    /\ observation_handler' = (observation_handler \/ accepted)
    /\ Quiet
    /\ UNCHANGED <<report, dangling, observing>>

\* POST to an instance that it does not list: received_from_server_callback() makes
\* it, takes it away again if the payload is refused, and updates the registration
\* if not. One that exists nevertheless gets the update and no answer.
PostUnlisted(i, S, accepted) ==
    /\ registered \cup dangling # {}
    /\ ~Reached(i)
    /\ IF i \in alive
       THEN /\ CreateNsdl(alive)
            /\ observation_handler' = TRUE
            /\ UNCHANGED alive
       ELSE IF accepted
       THEN /\ alive' = alive \cup S
            /\ CreateNsdl(alive \cup S)
            /\ observation_handler' = TRUE
       ELSE UNCHANGED <<alive, registered, observation_handler>>
    /\ Quiet
    /\ UNCHANGED <<report, dangling, observing>>

-----------------------------------------------------------------------------
Init ==
    /\ alive = {Object}
    /\ report = [n \in Nodes |-> NoReport]
    /\ observation_handler = FALSE
    /\ registered = {}
    /\ dangling = {}
    /\ change = NoChange
    /\ told = {}
    /\ observing = [n \in Nodes |-> NoToken]

Server ==
    \/ \E n \in Nodes : \E t \in TokensOf[n] : Observe(n, t)
    \/ \E n \in Nodes : Cancel(n)
    \/ \E t \in Tokens : Reset(t)
    \/ \E n \in Nodes : WriteAttributes(n)
    \/ \E i \in Instances, accepted \in BOOLEAN : \E S \in Payloads(i) :
           \/ PostObject(i, S, accepted)
           \/ PostInstance(i, S, accepted)
           \/ PostUnlisted(i, S, accepted)

Application ==
    \/ \E l \in Leaves : Change(l) \/ ClearValue(l)
    \/ \E n \in Nodes : Create(n) \/ Remove(n)
    \/ Register

Next == Server \/ Application

Spec == Init /\ [][Next]_vars

-----------------------------------------------------------------------------
(* Properties.                                                             *)

TypeOK ==
    /\ alive \subseteq Nodes
    /\ report \in [Nodes -> [exists : BOOLEAN, observed : BOOLEAN,
                             levels : SUBSET {"O", "OI", "R"},
                             token : Tokens \cup {NoToken}]]
    /\ observation_handler \in BOOLEAN
    /\ registered \subseteq Nodes
    /\ dangling \subseteq Nodes
    /\ change \in Changes \cup {NoChange}
    /\ told \subseteq Nodes
    /\ observing \in [Nodes -> Tokens \cup {NoToken}]

\* A level is kept by many handlers, the observation it stands for by one: no
\* handler keeps the level of an observation that has ended, whatever was
\* cancelled, reset, removed or created since, and an observed node has its own
\* (add_observation_level(), remove_observation_level() and their callers).
LevelsAreObservations ==
    \A n \in Nodes :
        /\ \A level \in report[n].levels :
               \E m \in Path[n] : Level(m) = level /\ report[m].observed
        /\ n \notin ResourceInstances /\ report[n].observed => Level(n) \in report[n].levels

\* The client and the server agree on what is observed and with which token
\* (handle_get_request(), set_under_observation(), the handling of RESET).
ObservationsAgree ==
    \A n \in Nodes \ ResourceInstances :
        /\ report[n].observed <=> observing[n] # NoToken
        /\ report[n].observed => n \in alive /\ report[n].token = observing[n]

\* The nsdl library lists no node that was removed while the object had its
\* observation handler (free_resources(), create_nsdl_resource()).
ListedIsAlive == registered \subseteq alive

\* What a change concerns: every node from the leaf up. A string set goes to its
\* own handler only, a static value to the observers of its parents only.
Heard ==
    [c \in Changes |->
        LET l == c[1] IN
        IF l \in Strings /\ c[2] = "set" THEN {l} \ ResourceInstances
        ELSE IF l \in Statics THEN {InstanceOf(l), Object}
        ELSE IF l \in Strings THEN Path[l] \ {l}
        ELSE Path[l] \ ResourceInstances]

\* Attributes written to a resource instance give it a handler of its own, which
\* may take the place of the one of its resource and reports to nobody.
Optional ==
    [c \in Changes |-> IF c[1] \in ResourceInstances \cap Attributed THEN {Parent[c[1]]} ELSE {}]

Promise == INSTANCE Observation
    WITH Nodes <- Nodes, Changes <- Changes, Heard <- Heard, Optional <- Optional,
         observing <- {n \in Nodes : observing[n] # NoToken},
         muted <- ~observation_handler, None <- NoChange

\* A change tells exactly the observers of the node and of its parents: the tree
\* implements Observation (report(), notification_update() and the levels).
ImplementsObservation == Promise!Spec

\* docs/info_reporting.md:3: "When the Resource changes, it sends a notification
\* with its new value to all servers who asked to observe it."
ObserversAreTold ==
    change # NoChange =>
        \A n \in Path[change[1]] \ ResourceInstances : observing[n] # NoToken => n \in told
=============================================================================
