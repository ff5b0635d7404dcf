----------------------- MODULE M2MResourceTree_proofs -----------------------
(***************************************************************************)
(* Theorems about M2MResourceTree, for every tree, every set of observable *)
(* nodes and every use of tokens.                                          *)
(***************************************************************************)
EXTENDS M2MResourceTree, TLAPS

-----------------------------------------------------------------------------
(* The shape of the tree.                                                  *)

LEMMA Parents ==
    /\ Object \in Nodes
    /\ \A i \in Instances : i \in Nodes /\ i # Object /\ Parent[i] = Object
    /\ \A r \in Resources :
           r \in Nodes /\ r # Object /\ r \notin Instances /\ Parent[r] \in Instances
    /\ \A x \in ResourceInstances :
           /\ x \in Nodes /\ x # Object /\ x \notin Instances /\ x \notin Resources
           /\ Parent[x] \in Resources
  BY TreeAssumption DEF Nodes

LEMMA Paths ==
    ASSUME NEW n \in Nodes
    PROVE  /\ n = Object => Path[n] = {Object}
           /\ n \in Instances => Path[n] = {n, Object}
           /\ n \in Resources => Path[n] = {n, Parent[n], Object}
           /\ n \in ResourceInstances => Path[n] = {n, Parent[n], Parent[Parent[n]], Object}
  <1>1. CASE n = Object
    BY <1>1, Parents DEF Path
  <1>2. CASE n \in Instances
    BY <1>2, Parents DEF Path
  <1>3. CASE n \in Resources
    <2>1. n # Object /\ n \notin Instances /\ n \notin ResourceInstances
      BY <1>3, Parents
    <2>2. Path[n] = {n, ResourceOf(n), InstanceOf(n), Object}
      BY <2>1 DEF Path
    <2> QED
      BY <1>3, <2>1, <2>2 DEF ResourceOf, InstanceOf
  <1>4. CASE n \in ResourceInstances
    <2>1. n # Object /\ n \notin Instances /\ n \notin Resources
      BY <1>4, Parents
    <2>2. Path[n] = {n, ResourceOf(n), InstanceOf(n), Object}
      BY <2>1 DEF Path
    <2> QED
      BY <1>4, <2>1, <2>2 DEF ResourceOf, InstanceOf
  <1> QED
    BY <1>1, <1>2, <1>3, <1>4 DEF Nodes

LEMMA PathsClimb ==
    ASSUME NEW n \in Nodes
    PROVE  /\ n \in Path[n]
           /\ Path[n] \subseteq Nodes
           /\ \A w \in Path[n] : Path[w] \subseteq Path[n]
  <1>1. CASE n = Object
    BY <1>1, Paths, Parents
  <1>2. CASE n \in Instances
    BY <1>2, Paths, Parents
  <1>3. CASE n \in Resources
    <2>1. Path[n] = {n, Parent[n], Object} /\ Path[Parent[n]] = {Parent[n], Object}
      BY <1>3, Paths, Parents
    <2> QED
      BY <1>3, <2>1, Paths, Parents
  <1>4. CASE n \in ResourceInstances
    <2> DEFINE r == Parent[n]
               i == Parent[r]
    <2>1. r \in Resources /\ i \in Instances
      BY <1>4, Parents
    <2>2. /\ Path[n] = {n, r, i, Object} /\ Path[r] = {r, i, Object}
          /\ Path[i] = {i, Object} /\ Path[Object] = {Object}
      BY <1>4, <2>1, Paths, Parents
    <2> HIDE DEF r, i
    <2> QED
      BY <2>1, <2>2, Parents
  <1> QED
    BY <1>1, <1>2, <1>3, <1>4 DEF Nodes

LEMMA BelowNests ==
    ASSUME NEW n \in Nodes
    PROVE  /\ n \in Below[n]
           /\ Below[n] \subseteq Nodes
           /\ \A w \in Below[n] : Below[w] \subseteq Below[n]
  BY PathsClimb DEF Below

LEMMA NothingBelowResourceInstances ==
    ASSUME NEW x \in ResourceInstances
    PROVE  Below[x] = {x}
  <1>1. x \in Nodes
    BY Parents
  <1>2. ASSUME NEW n \in Nodes, x \in Path[n]
        PROVE  n = x
    BY <1>2, Paths, Parents DEF Nodes
  <1> QED
    BY <1>1, <1>2, PathsClimb DEF Below

-----------------------------------------------------------------------------
(* Type correctness.                                                       *)

Levels == {"O", "OI", "R"}
Handlers == [exists : BOOLEAN, observed : BOOLEAN, levels : SUBSET Levels,
             token : Tokens \cup {NoToken}]

LEMMA LevelsTyped == \A n : Level(n) \in Levels
  BY DEF Level, Levels

LEMMA NewHandlersTyped == NoReport \in Handlers /\ NewReport \in Handlers
  <1>1. {} \in SUBSET Levels /\ NoToken \in Tokens \cup {NoToken}
    OBVIOUS
  <1> QED
    BY <1>1 DEF NoReport, NewReport, Handlers

LEMMA UnderObservationTyped ==
    ASSUME NEW r \in Handlers, NEW n, NEW observed \in BOOLEAN, NEW handler \in BOOLEAN
    PROVE  UnderObservation(r, n, observed, handler) \in Handlers
  BY NewHandlersTyped DEF UnderObservation, Handlers

LEMMA LevelOperatorsTyped ==
    ASSUME NEW reports \in [Nodes -> Handlers], NEW n \in Nodes
    PROVE  /\ AddLevel(reports, n) \in [Nodes -> Handlers]
           /\ RemoveLevel(reports, n) \in [Nodes -> Handlers]
  <1>1. ASSUME NEW r \in Handlers
        PROVE  /\ [r EXCEPT !.levels = @ \cup {Level(n)}] \in Handlers
               /\ [r EXCEPT !.levels = @ \ {Level(n)}] \in Handlers
    <2>1. r.levels \cup {Level(n)} \in SUBSET Levels /\ r.levels \ {Level(n)} \in SUBSET Levels
      BY LevelsTyped DEF Handlers
    <2> QED
      BY <2>1 DEF Handlers
  <1>2. AddLevel(reports, n) \in [Nodes -> Handlers]
    BY <1>1 DEF AddLevel
  <1>3. RemoveLevel(reports, n) \in [Nodes -> Handlers]
    BY <1>1 DEF RemoveLevel
  <1> QED
    BY <1>2, <1>3

\* What the level operators leave alone.
LEMMA LevelOperatorsKeepTheRest ==
    ASSUME NEW reports \in [Nodes -> Handlers], NEW n \in Nodes, NEW m \in Nodes
    PROVE  /\ AddLevel(reports, n)[m].exists = reports[m].exists
           /\ AddLevel(reports, n)[m].observed = reports[m].observed
           /\ RemoveLevel(reports, n)[m].exists = reports[m].exists
           /\ RemoveLevel(reports, n)[m].observed = reports[m].observed
  <1>1. reports[m] \in Handlers
    OBVIOUS
  <1>2. CASE m \in Below[n]
    <2> DEFINE more == [reports[m] EXCEPT !.levels = reports[m].levels \cup {Level(n)}]
               less == [reports[m] EXCEPT !.levels = reports[m].levels \ {Level(n)}]
    <2>1. /\ more.exists = reports[m].exists /\ more.observed = reports[m].observed
          /\ less.exists = reports[m].exists /\ less.observed = reports[m].observed
      BY <1>1 DEF Handlers
    <2>2. AddLevel(reports, n)[m] = more \/ AddLevel(reports, n)[m] = reports[m]
      BY Zenon DEF AddLevel
    <2>3. RemoveLevel(reports, n)[m] = less
      BY <1>2, Zenon DEF RemoveLevel
    <2> HIDE DEF more, less
    <2> QED
      BY <2>1, <2>2, <2>3, Zenon
  <1>3. CASE m \notin Below[n]
    BY <1>3, Zenon DEF AddLevel, RemoveLevel
  <1> QED
    BY <1>2, <1>3

LEMMA SetTokenTyped ==
    ASSUME NEW reports \in [Nodes -> Handlers], NEW n \in Nodes, NEW t \in Tokens
    PROVE  SetToken(reports, n, t) \in [Nodes -> Handlers]
  <1>1. ASSUME NEW r \in Handlers
        PROVE  [r EXCEPT !.token = t] \in Handlers
    BY DEF Handlers
  <1> QED
    BY <1>1 DEF SetToken

\* What the server was told of in a step are nodes.
LEMMA SentTyped ==
    ASSUME NEW l \in Leaves
    PROVE  Sent(Triggered(l)) \subseteq Nodes /\ Sent(Report(l)) \subseteq Nodes
  <1>1. /\ l \in Nodes /\ Object \in Nodes
        /\ l \in Resources \/ l \in ResourceInstances
        /\ InstanceOf(l) \in Nodes
        /\ l \in ResourceInstances => Parent[l] \in Nodes
    BY Parents DEF Leaves, InstanceOf, ResourceOf
  <1>2. Report(l) \subseteq Nodes
    BY <1>1 DEF Report, NotificationUpdate, ResourceUpdate
  <1>3. Triggered(l) \subseteq Nodes
    BY <1>1, <1>2 DEF Triggered
  <1> QED
    BY <1>2, <1>3 DEF Sent

LEMMA CreateNsdlTyped ==
    ASSUME TypeOK, NEW S \in SUBSET Nodes, CreateNsdl(S)
    PROVE  registered' \subseteq Nodes
  BY DEF TypeOK, CreateNsdl, Structure

LEMMA PayloadsTyped ==
    ASSUME NEW i \in Instances, NEW S \in Payloads(i)
    PROVE  S \subseteq Nodes /\ S \subseteq Below[i]
  <1>1. i \in Nodes
    BY Parents
  <1>2. PICK B \in SUBSET Below[i] : S = {i} \cup B
    BY DEF Payloads
  <1> QED
    BY <1>1, <1>2, BelowNests

LEMMA RemovedTyped ==
    ASSUME NEW n \in Nodes
    PROVE  Removed(n) \subseteq Nodes
  BY BelowNests, Parents DEF Removed

LEMMA InitTyped == Init => TypeOK
  <1> SUFFICES ASSUME Init PROVE TypeOK
    OBVIOUS
  <1>1. report \in [Nodes -> Handlers]
    BY NewHandlersTyped DEF Init
  <1>2. Object \in Nodes
    BY Parents
  <1> QED
    BY <1>1, <1>2 DEF Init, TypeOK, Handlers, Levels, NoChange

LEMMA QuietTyped ==
    ASSUME Quiet
    PROVE  change' \in Changes \cup {NoChange} /\ told' \subseteq Nodes
  BY DEF Quiet

\* TypeOK with the names of this module.
Types ==
    /\ alive \subseteq Nodes
    /\ report \in [Nodes -> Handlers]
    /\ observation_handler \in BOOLEAN
    /\ registered \subseteq Nodes
    /\ dangling \subseteq Nodes
    /\ change \in Changes \cup {NoChange}
    /\ told \subseteq Nodes
    /\ observing \in [Nodes -> Tokens \cup {NoToken}]

LEMMA Typed == (TypeOK <=> Types) /\ (TypeOK' <=> Types')
  BY DEF TypeOK, Types, Handlers, Levels

LEMMA ServerTyped ==
    ASSUME TypeOK, Server
    PROVE  TypeOK'
  <1> USE Typed DEF Types
  <1>1. ASSUME NEW n \in Nodes, NEW t \in TokensOf[n], Observe(n, t)
        PROVE  TypeOK'
    <2>1. t \in Tokens
      BY TokenAssumption
    <2> DEFINE shown == [report EXCEPT ![n] = UnderObservation(@, n, TRUE, TRUE)]
    <2>2. shown \in [Nodes -> Handlers]
      BY UnderObservationTyped
    <2> HIDE DEF shown
    <2>3. SetToken(AddLevel(shown, n), n, t) \in [Nodes -> Handlers]
      BY <2>1, <2>2, LevelOperatorsTyped, SetTokenTyped
    <2>4. report' = SetToken(AddLevel(shown, n), n, t)
      BY <1>1 DEF Observe, shown
    <2> QED
      BY <1>1, <2>1, <2>3, <2>4, QuietTyped DEF Observe, tree
  <1>2. ASSUME NEW n \in Nodes, Cancel(n)
        PROVE  TypeOK'
    <2> DEFINE hidden == [report EXCEPT ![n] = UnderObservation(@, n, FALSE, FALSE)]
    <2>1. hidden \in [Nodes -> Handlers]
      BY UnderObservationTyped
    <2> HIDE DEF hidden
    <2>2. RemoveLevel(hidden, n) \in [Nodes -> Handlers]
      BY <2>1, LevelOperatorsTyped
    <2>3. report' = RemoveLevel(hidden, n)
      BY <1>2 DEF Cancel, hidden
    <2> QED
      BY <1>2, <2>2, <2>3, QuietTyped DEF Cancel, tree
  <1>3. ASSUME NEW t \in Tokens, Reset(t)
        PROVE  TypeOK'
    <2>1. PICK n \in FoundByToken(t) :
              report' = [RemoveLevel(report, n) EXCEPT ![n] = UnderObservation(@, n, FALSE, TRUE)]
      BY <1>3 DEF Reset
    <2>2. n \in Nodes
      BY DEF FoundByToken
    <2>3. RemoveLevel(report, n) \in [Nodes -> Handlers]
      BY <1>3, <2>2, LevelOperatorsTyped
    <2>4. report' \in [Nodes -> Handlers]
      BY <2>1, <2>2, <2>3, UnderObservationTyped
    <2> QED
      BY <1>3, <2>4, QuietTyped DEF Reset, tree
  <1>4. ASSUME NEW n \in Nodes, WriteAttributes(n)
        PROVE  TypeOK'
    <2>1. report' \in [Nodes -> Handlers]
      BY <1>4, NewHandlersTyped DEF WriteAttributes
    <2> QED
      BY <1>4, <2>1, QuietTyped DEF WriteAttributes, tree
  <1>5. ASSUME NEW i \in Instances, NEW accepted \in BOOLEAN, NEW S \in Payloads(i),
               PostObject(i, S, accepted) \/ PostInstance(i, S, accepted)
                   \/ PostUnlisted(i, S, accepted)
        PROVE  TypeOK'
    <2>1. alive \cup S \in SUBSET Nodes /\ (alive \cup S) \cap Below[i] \in SUBSET Nodes
          /\ alive \in SUBSET Nodes
      BY PayloadsTyped
    <2>2. registered' \subseteq Nodes
      BY <1>5, <2>1, CreateNsdlTyped DEF PostObject, PostInstance, PostUnlisted
    <2>3. alive' \subseteq Nodes
      BY <1>5, <2>1 DEF PostObject, PostInstance, PostUnlisted
    <2>4. UNCHANGED <<report, dangling, observing>> /\ Quiet /\ observation_handler' \in BOOLEAN
      BY <1>5 DEF PostObject, PostInstance, PostUnlisted
    <2> QED
      BY <2>2, <2>3, <2>4, QuietTyped
  <1> QED
    BY <1>1, <1>2, <1>3, <1>4, <1>5 DEF Server

LEMMA ApplicationTyped ==
    ASSUME TypeOK, Application
    PROVE  TypeOK'
  <1> USE Typed DEF Types
  <1>1. ASSUME NEW l \in Leaves, Change(l) \/ ClearValue(l)
        PROVE  TypeOK'
    <2>1. l \in Nodes
      BY Parents DEF Leaves
    <2>2. registered' \subseteq Nodes
      BY <1>1, <2>1, CreateNsdlTyped DEF Change, ClearValue, ValueUpdated
    <2>3. change' \in Changes /\ told' \subseteq Nodes
      BY <1>1, SentTyped DEF Change, ClearValue, Changes
    <2> QED
      BY <1>1, <2>2, <2>3 DEF Change, ClearValue
  <1>2. ASSUME NEW n \in Nodes, Create(n)
        PROVE  TypeOK'
    <2>1. n \in ResourceInstances => Parent[n] \in Nodes
      BY Parents
    <2> QED
      BY <1>2, <2>1, QuietTyped DEF Create
  <1>3. ASSUME NEW n \in Nodes, Remove(n)
        PROVE  TypeOK'
    <2>1. report' \in [Nodes -> Handlers] /\ observing' \in [Nodes -> Tokens \cup {NoToken}]
      BY <1>3, NewHandlersTyped DEF Remove
    <2>2. registered' \subseteq Nodes /\ dangling' \subseteq Nodes
      BY <1>3, RemovedTyped DEF Remove, FreeResources
    <2> QED
      BY <1>3, <2>1, <2>2, QuietTyped DEF Remove
  <1>4. ASSUME Register
        PROVE  TypeOK'
    <2>1. registered' \subseteq Nodes
      BY <1>4, CreateNsdlTyped DEF Register
    <2>2. observation_handler' \in BOOLEAN
      BY <1>4 DEF Register
    <2> QED
      BY <1>4, <2>1, <2>2, QuietTyped DEF Register
  <1> QED
    BY <1>1, <1>2, <1>3, <1>4 DEF Application

LEMMA TypeKept == TypeOK /\ [Next]_vars => TypeOK'
  <1> SUFFICES ASSUME TypeOK, [Next]_vars PROVE TypeOK'
    OBVIOUS
  <1>1. CASE UNCHANGED vars
    BY <1>1, Typed DEF vars, Types
  <1> QED
    BY <1>1, ServerTyped, ApplicationTyped DEF Next

\* Every variable keeps its type for every tree: in particular a handler keeps no
\* level but the three of the observations.
THEOREM TreeTypes == Spec => []TypeOK
  BY InitTyped, TypeKept, PTL DEF Spec

-----------------------------------------------------------------------------
(* The list of the library.                                                *)

LEMMA CreateNsdlLists ==
    ASSUME ListedIsAlive, NEW S, CreateNsdl(S), S \subseteq alive', alive \subseteq alive'
    PROVE  ListedIsAlive'
  BY DEF ListedIsAlive, CreateNsdl, Structure

LEMMA ListKept ==
    ASSUME ListedIsAlive, [Next]_vars
    PROVE  ListedIsAlive'
  <1>1. ASSUME NEW n \in Nodes, NEW t, Observe(n, t)
        PROVE  ListedIsAlive'
    BY <1>1 DEF Observe, tree, ListedIsAlive
  <1>2. ASSUME NEW n \in Nodes, Cancel(n) \/ WriteAttributes(n)
        PROVE  ListedIsAlive'
    BY <1>2 DEF Cancel, WriteAttributes, tree, ListedIsAlive
  <1>3. ASSUME NEW t \in Tokens, Reset(t)
        PROVE  ListedIsAlive'
    BY <1>3 DEF Reset, tree, ListedIsAlive
  <1>4. ASSUME NEW i \in Instances, NEW accepted \in BOOLEAN, NEW S \in Payloads(i),
               PostObject(i, S, accepted)
        PROVE  ListedIsAlive'
    <2>1. CASE accepted
      <3>1. CreateNsdl(alive \cup S) /\ alive' = alive \cup S
        BY <1>4, <2>1 DEF PostObject
      <3> QED
        BY <3>1, CreateNsdlLists
    <2> QED
      BY <1>4, <2>1 DEF PostObject, ListedIsAlive
  <1>5. ASSUME NEW i \in Instances, NEW accepted \in BOOLEAN, NEW S \in Payloads(i),
               PostInstance(i, S, accepted)
        PROVE  ListedIsAlive'
    <2>1. CASE accepted
      <3>1. CreateNsdl((alive \cup S) \cap Below[i]) /\ alive' = alive \cup S
        BY <1>5, <2>1 DEF PostInstance
      <3> QED
        BY <3>1, CreateNsdlLists
    <2> QED
      BY <1>5, <2>1 DEF PostInstance, ListedIsAlive
  <1>6. ASSUME NEW i \in Instances, NEW accepted \in BOOLEAN, NEW S \in Payloads(i),
               PostUnlisted(i, S, accepted)
        PROVE  ListedIsAlive'
    <2>1. CASE i \in alive
      <3>1. CreateNsdl(alive) /\ alive' = alive
        BY <1>6, <2>1 DEF PostUnlisted
      <3> QED
        BY <3>1, CreateNsdlLists
    <2>2. CASE i \notin alive /\ accepted
      <3>1. CreateNsdl(alive \cup S) /\ alive' = alive \cup S
        BY <1>6, <2>2 DEF PostUnlisted
      <3> QED
        BY <3>1, CreateNsdlLists
    <2>3. CASE i \notin alive /\ ~accepted
      BY <1>6, <2>3 DEF PostUnlisted, ListedIsAlive
    <2> QED
      BY <2>1, <2>2, <2>3
  <1>7. ASSUME NEW l \in Leaves, Change(l) \/ ClearValue(l)
        PROVE  ListedIsAlive'
    <2>1. alive' = alive /\ {l} \subseteq alive
      BY <1>7 DEF Change, ClearValue
    <2>2. CreateNsdl({l}) \/ registered' = registered
      BY <1>7 DEF Change, ClearValue, ValueUpdated
    <2> QED
      BY <2>1, <2>2, CreateNsdlLists DEF ListedIsAlive
  <1>8. ASSUME NEW n \in Nodes, Create(n)
        PROVE  ListedIsAlive'
    BY <1>8 DEF Create, ListedIsAlive
  <1>9. ASSUME NEW n \in Nodes, Remove(n)
        PROVE  ListedIsAlive'
    BY <1>9 DEF Remove, FreeResources, ListedIsAlive
  <1>10. CASE Register
    BY <1>10, CreateNsdlLists DEF Register
  <1>11. CASE UNCHANGED vars
    BY <1>11 DEF vars, ListedIsAlive
  <1> QED
    BY <1>1, <1>2, <1>3, <1>4, <1>5, <1>6, <1>7, <1>8, <1>9, <1>10, <1>11
       DEF Next, Server, Application

\* Whatever is created, removed, registered and posted in whatever order, the list
\* of the library has no entry of its own for a node that is gone.
THEOREM ListedNodesAreAlive == Spec => []ListedIsAlive
  <1>1. Init => ListedIsAlive
    BY DEF Init, ListedIsAlive
  <1>2. ListedIsAlive /\ [Next]_vars => ListedIsAlive'
    BY ListKept
  <1> QED
    BY <1>1, <1>2, PTL DEF Spec

-----------------------------------------------------------------------------
(* Levels.                                                                 *)

\* Report handlers belong to nodes that exist, and a node without one is not
\* observed and keeps no level.
ReportsAreKept ==
    \A n \in Nodes :
        /\ report[n].exists => n \in alive
        /\ ~report[n].exists => ~report[n].observed /\ report[n].levels = {}

\* The two halves of LevelsAreObservations.
LevelsHaveObserver(reports) ==
    \A n \in Nodes : \A level \in reports[n].levels :
        \E w \in Path[n] : Level(w) = level /\ reports[w].observed

ObserversHaveLevel(reports) ==
    \A n \in Nodes \ ResourceInstances : reports[n].observed => Level(n) \in reports[n].levels

LevelInv ==
    /\ TypeOK
    /\ ReportsAreKept
    /\ LevelsHaveObserver(report)
    /\ ObserversHaveLevel(report)

\* What an observed node looks like to the levels, and what one no longer observed does.
LEMMA ObserveLevels ==
    ASSUME LevelInv, NEW n \in Nodes, NEW t \in TokensOf[n], Observe(n, t)
    PROVE  ReportsAreKept' /\ LevelsHaveObserver(report') /\ ObserversHaveLevel(report')
  <1> DEFINE own == UnderObservation(report[n], n, TRUE, TRUE)
             shown == [report EXCEPT ![n] = own]
             r == report'
  <1>1. report \in [Nodes -> Handlers]
    BY Typed DEF LevelInv, Types
  <1>2. /\ own.levels = report[n].levels
        /\ own.exists => own.observed
        /\ ~own.exists => ~own.observed /\ own.levels = {}
        /\ report[n].exists => own.exists
        /\ n \notin ResourceInstances => own.exists
    BY <1>1 DEF UnderObservation, Handlers, LevelInv, ReportsAreKept
  <1>3. own \in Handlers
    BY <1>1, UnderObservationTyped
  <1> HIDE DEF own
  <1>4. /\ shown \in [Nodes -> Handlers]
        /\ shown[n] = own
        /\ \A m \in Nodes \ {n} : shown[m] = report[m]
    BY <1>1, <1>3
  <1>5. r = SetToken(AddLevel(shown, n), n, t)
    BY DEF Observe, own
  <1> HIDE DEF shown
  <1>6. \A m \in Nodes :
            /\ r[m].exists = shown[m].exists
            /\ r[m].observed = shown[m].observed
            /\ r[m].levels = IF m \in Below[n] /\ shown[m].exists
                             THEN shown[m].levels \cup {Level(n)} ELSE shown[m].levels
    <2> DEFINE added == AddLevel(shown, n)
    <2>1. added \in [Nodes -> Handlers]
      BY <1>4, LevelOperatorsTyped
    <2>2. \A m \in Nodes :
              /\ added[m].exists = shown[m].exists
              /\ added[m].observed = shown[m].observed
              /\ added[m].levels = IF m \in Below[n] /\ shown[m].exists
                                   THEN shown[m].levels \cup {Level(n)} ELSE shown[m].levels
      BY <1>4 DEF AddLevel, Handlers
    <2> HIDE DEF added
    <2>3. r = SetToken(added, n, t)
      BY <1>5 DEF added
    <2> QED
      BY <2>1, <2>2, <2>3 DEF SetToken, Handlers
  <1> HIDE DEF r
  <1>7. n \in alive /\ alive' = alive
    BY DEF Observe, Reached, tree
  <1>8. ReportsAreKept'
    <2>1. \A m \in Nodes :
              /\ r[m].exists => m \in alive
              /\ ~r[m].exists => ~r[m].observed /\ r[m].levels = {}
      <3>1. \A m \in Nodes :
                /\ shown[m].exists => m \in alive
                /\ ~shown[m].exists => ~shown[m].observed /\ shown[m].levels = {}
        BY <1>2, <1>4, <1>7 DEF LevelInv, ReportsAreKept
      <3> QED
        BY <1>6, <3>1
    <2> QED
      BY <1>7, <2>1 DEF ReportsAreKept, r
  <1>9. LevelsHaveObserver(r)
    <2> SUFFICES ASSUME NEW m \in Nodes, NEW level \in r[m].levels
                 PROVE  \E w \in Path[m] : Level(w) = level /\ r[w].observed
      BY DEF LevelsHaveObserver
    <2>1. CASE level \in report[m].levels
      <3>1. PICK w \in Path[m] : Level(w) = level /\ report[w].observed
        BY <2>1 DEF LevelInv, LevelsHaveObserver
      <3>2. w \in Nodes
        BY PathsClimb
      <3>3. report[w].exists
        BY <3>1, <3>2 DEF LevelInv, ReportsAreKept
      <3>4. r[w].observed
        BY <1>2, <1>4, <1>6, <3>1, <3>2, <3>3
      <3> QED
        BY <3>1, <3>4
    <2>2. CASE level \notin report[m].levels
      <3>0. shown[m].levels = report[m].levels
        BY <1>2, <1>4
      <3>1. m \in Below[n] /\ shown[m].exists /\ level = Level(n)
        BY <1>6, <2>2, <3>0
      <3>2. n \in Path[m]
        BY <3>1 DEF Below
      <3>3. own.exists
        <4>1. CASE n \in ResourceInstances
          BY <3>1, <4>1, <1>4, NothingBelowResourceInstances
        <4> QED
          BY <4>1, <1>2
      <3> QED
        BY <1>2, <1>4, <1>6, <3>1, <3>2, <3>3
    <2> QED
      BY <2>1, <2>2
  <1>10. ObserversHaveLevel(r)
    <2> SUFFICES ASSUME NEW m \in Nodes \ ResourceInstances, r[m].observed
                 PROVE  Level(m) \in r[m].levels
      BY DEF ObserversHaveLevel
    <2>1. CASE m = n
      BY <1>2, <1>4, <1>6, <2>1, BelowNests
    <2>2. CASE m # n
      BY <1>4, <1>6, <2>2 DEF LevelInv, ObserversHaveLevel
    <2> QED
      BY <2>1, <2>2
  <1> QED
    BY <1>8, <1>9, <1>10 DEF r

LEMMA LevelsDiffer ==
    ASSUME NEW n \in Nodes, NEW m \in Below[n], m # n, m \notin ResourceInstances
    PROVE  Level(m) # Level(n)
  <1>1. m \in Nodes /\ n \in Path[m]
    BY DEF Below
  <1>2. CASE m = Object
    BY <1>1, <1>2, Paths
  <1>3. CASE m \in Instances
    <2>1. n = Object
      BY <1>1, <1>3, Paths
    <2> QED
      BY <1>3, <2>1, Parents DEF Level
  <1>4. CASE m \in Resources
    <2>1. n = Object \/ n \in Instances
      BY <1>1, <1>4, Paths, Parents
    <2> QED
      BY <1>4, <2>1, Parents DEF Level
  <1> QED
    BY <1>1, <1>2, <1>3, <1>4 DEF Nodes

\* Ending the observation of a node keeps the levels right, if its own level goes
\* from everything below it.
LEMMA EndLevels ==
    ASSUME LevelInv, NEW n \in Nodes, NEW r \in [Nodes -> Handlers],
           ~r[n].observed, r[n].levels \subseteq report[n].levels \ {Level(n)},
           \A m \in Nodes \ {n} :
               /\ r[m].observed = report[m].observed
               /\ r[m].levels = IF m \in Below[n] THEN report[m].levels \ {Level(n)}
                                ELSE report[m].levels
    PROVE  LevelsHaveObserver(r) /\ ObserversHaveLevel(r)
  <1>1. LevelsHaveObserver(r)
    <2> SUFFICES ASSUME NEW m \in Nodes, NEW level \in r[m].levels
                 PROVE  \E w \in Path[m] : Level(w) = level /\ r[w].observed
      BY DEF LevelsHaveObserver
    <2>1. level \in report[m].levels
      BY DEF LevelsHaveObserver
    <2>2. PICK w \in Path[m] : Level(w) = level /\ report[w].observed
      BY <2>1 DEF LevelInv, LevelsHaveObserver
    <2>3. w \in Nodes
      BY PathsClimb
    <2>4. CASE w = n
      <3>1. m \in Below[n] /\ level = Level(n)
        BY <2>2, <2>4 DEF Below
      <3>2. Level(n) \notin r[m].levels
        BY <3>1
      <3> QED
        BY <3>1, <3>2
    <2> QED
      BY <2>2, <2>3, <2>4
  <1>2. ObserversHaveLevel(r)
    <2> SUFFICES ASSUME NEW m \in Nodes \ ResourceInstances, r[m].observed
                 PROVE  Level(m) \in r[m].levels
      BY DEF ObserversHaveLevel
    <2>1. m # n /\ Level(m) \in report[m].levels
      BY DEF LevelInv, ObserversHaveLevel
    <2> QED
      BY <2>1, LevelsDiffer
  <1> QED
    BY <1>1, <1>2

LEMMA CancelLevels ==
    ASSUME LevelInv, NEW n \in Nodes, Cancel(n)
    PROVE  ReportsAreKept' /\ LevelsHaveObserver(report') /\ ObserversHaveLevel(report')
  <1> DEFINE hidden == [report EXCEPT ![n] = UnderObservation(@, n, FALSE, FALSE)]
             r == report'
  <1>1. report \in [Nodes -> Handlers] /\ NoReport \in Handlers
    BY Typed, NewHandlersTyped DEF LevelInv, Types
  <1>2. hidden = [report EXCEPT ![n] = NoReport]
    BY DEF UnderObservation
  <1>3. r = RemoveLevel(hidden, n)
    BY DEF Cancel
  <1> HIDE DEF hidden
  <1>4. hidden \in [Nodes -> Handlers]
    BY <1>1, <1>2
  <1>5. \A m \in Nodes :
            /\ r[m].exists = hidden[m].exists
            /\ r[m].observed = hidden[m].observed
            /\ r[m].levels = IF m \in Below[n] THEN hidden[m].levels \ {Level(n)}
                             ELSE hidden[m].levels
    BY <1>3, <1>4 DEF RemoveLevel, Handlers
  <1>6. r \in [Nodes -> Handlers]
    BY <1>3, <1>4, LevelOperatorsTyped
  <1> HIDE DEF r
  <1>7. ~hidden[n].exists /\ ~hidden[n].observed /\ hidden[n].levels = {}
    BY <1>1, <1>2 DEF NoReport
  <1>8. \A m \in Nodes \ {n} : hidden[m] = report[m]
    BY <1>1, <1>2
  <1>9. LevelsHaveObserver(r) /\ ObserversHaveLevel(r)
    <2>1. ~r[n].observed /\ r[n].levels \subseteq report[n].levels \ {Level(n)}
      BY <1>5, <1>7
    <2>2. \A m \in Nodes \ {n} :
              /\ r[m].observed = report[m].observed
              /\ r[m].levels = IF m \in Below[n] THEN report[m].levels \ {Level(n)}
                               ELSE report[m].levels
      BY <1>5, <1>8
    <2> QED
      BY <1>6, <2>1, <2>2, EndLevels
  <1>10. \A m \in Nodes :
             /\ r[m].exists => m \in alive
             /\ ~r[m].exists => ~r[m].observed /\ r[m].levels = {}
    BY <1>5, <1>7, <1>8 DEF LevelInv, ReportsAreKept
  <1> QED
    BY <1>9, <1>10 DEF ReportsAreKept, Cancel, tree, r

LEMMA ResetLevels ==
    ASSUME LevelInv, NEW t \in Tokens, Reset(t)
    PROVE  ReportsAreKept' /\ LevelsHaveObserver(report') /\ ObserversHaveLevel(report')
  <1>1. PICK n \in FoundByToken(t) :
            report' = [RemoveLevel(report, n) EXCEPT ![n] = UnderObservation(@, n, FALSE, TRUE)]
    BY DEF Reset
  <1>2. n \in Nodes /\ report[n].exists /\ report \in [Nodes -> Handlers]
    BY Typed DEF FoundByToken, LevelInv, Types
  <1> DEFINE removed == RemoveLevel(report, n)
             r == report'
  <1>3. removed \in [Nodes -> Handlers]
    BY <1>2, LevelOperatorsTyped
  <1>4. \A m \in Nodes :
            /\ removed[m].exists = report[m].exists
            /\ removed[m].observed = report[m].observed
            /\ removed[m].levels = IF m \in Below[n] THEN report[m].levels \ {Level(n)}
                                   ELSE report[m].levels
    BY <1>2 DEF RemoveLevel, Handlers
  <1>5. r = [removed EXCEPT ![n] = UnderObservation(@, n, FALSE, TRUE)]
    BY <1>1
  <1> HIDE DEF removed, r
  <1>6. r \in [Nodes -> Handlers]
    BY <1>2, <1>3, <1>5, UnderObservationTyped
  <1>7. r[n] = [removed[n] EXCEPT !.exists = TRUE, !.observed = FALSE]
    BY <1>2, <1>3, <1>4, <1>5 DEF UnderObservation
  <1>8. /\ r[n].exists /\ ~r[n].observed /\ r[n].levels = report[n].levels \ {Level(n)}
        /\ \A m \in Nodes \ {n} : r[m] = removed[m]
    <2>1. removed[n] \in Handlers /\ n \in Below[n]
      BY <1>2, <1>3, BelowNests
    <2> QED
      BY <1>2, <1>3, <1>4, <1>5, <1>7, <2>1 DEF Handlers
  <1>9. LevelsHaveObserver(r) /\ ObserversHaveLevel(r)
    BY <1>2, <1>4, <1>6, <1>8, EndLevels
  <1>10. \A m \in Nodes :
             /\ r[m].exists => m \in alive
             /\ ~r[m].exists => ~r[m].observed /\ r[m].levels = {}
    BY <1>2, <1>4, <1>8 DEF LevelInv, ReportsAreKept
  <1> QED
    BY <1>9, <1>10 DEF ReportsAreKept, Reset, tree, r

LEMMA WriteAttributesLevels ==
    ASSUME LevelInv, NEW n \in Nodes, WriteAttributes(n)
    PROVE  ReportsAreKept' /\ LevelsHaveObserver(report') /\ ObserversHaveLevel(report')
  <1> DEFINE r == report'
  <1>1. report \in [Nodes -> Handlers] /\ NewReport \in Handlers
    BY Typed, NewHandlersTyped DEF LevelInv, Types
  <1>2. CASE report[n].exists
    <2>1. r = report
      BY <1>1, <1>2 DEF WriteAttributes
    <2> QED
      BY <2>1 DEF LevelInv, ReportsAreKept, WriteAttributes, tree
  <1>3. CASE ~report[n].exists
    <2>1. r = [report EXCEPT ![n] = NewReport]
      BY <1>1, <1>3 DEF WriteAttributes
    <2> HIDE DEF r
    <2>2. NewReport.exists /\ ~NewReport.observed /\ NewReport.levels = {}
      BY DEF NewReport, NoReport
    <2>3. ~report[n].observed /\ report[n].levels = {}
      BY <1>3 DEF LevelInv, ReportsAreKept
    <2>4. \A m \in Nodes :
              /\ r[m].observed <=> report[m].observed
              /\ r[m].levels = report[m].levels
              /\ r[m].exists => m \in alive
              /\ ~r[m].exists => ~report[m].exists
      BY <1>1, <2>1, <2>2, <2>3 DEF WriteAttributes, Reached, LevelInv, ReportsAreKept
    <2>5. LevelsHaveObserver(r)
      BY <2>4, PathsClimb DEF LevelInv, LevelsHaveObserver
    <2>6. ObserversHaveLevel(r)
      BY <2>4 DEF LevelInv, ObserversHaveLevel
    <2>7. \A m \in Nodes :
              /\ r[m].exists => m \in alive
              /\ ~r[m].exists => ~r[m].observed /\ r[m].levels = {}
      BY <2>4 DEF LevelInv, ReportsAreKept
    <2> QED
      BY <2>5, <2>6, <2>7 DEF ReportsAreKept, WriteAttributes, tree, r
  <1> QED
    BY <1>2, <1>3

LEMMA RemoveLevels ==
    ASSUME LevelInv, NEW n \in Nodes, Remove(n)
    PROVE  ReportsAreKept' /\ LevelsHaveObserver(report') /\ ObserversHaveLevel(report')
  <1> DEFINE r == report'
  <1>1. r = [m \in Nodes |-> IF m \in Removed(n) THEN NoReport ELSE report[m]]
    BY DEF Remove
  <1>2. alive' = alive \ Removed(n)
    BY DEF Remove
  <1> HIDE DEF r
  <1>3. ~NoReport.exists /\ ~NoReport.observed /\ NoReport.levels = {}
    BY DEF NoReport
  <1>4. ASSUME NEW w \in Removed(n), NEW m \in Below[w] \cap alive
        PROVE  m \in Removed(n)
    <2>1. CASE n \in ResourceInstances /\ Below[Parent[n]] \cap alive \subseteq {n, Parent[n]}
      <3>1. Removed(n) = {n, Parent[n]}
        BY <2>1 DEF Removed
      <3>2. Parent[n] \in Nodes /\ n \in Below[Parent[n]]
        BY <2>1, Parents, Paths DEF Below
      <3>3. Below[w] \subseteq Below[Parent[n]]
        BY <3>1, <3>2, BelowNests
      <3> QED
        BY <2>1, <3>1, <3>3
    <2>2. CASE ~(n \in ResourceInstances /\ Below[Parent[n]] \cap alive \subseteq {n, Parent[n]})
      <3>1. Removed(n) = Below[n] \cap alive
        BY <2>2 DEF Removed
      <3> QED
        BY <3>1, BelowNests
    <2> QED
      BY <2>1, <2>2
  <1>5. LevelsHaveObserver(r)
    <2> SUFFICES ASSUME NEW m \in Nodes, NEW level \in r[m].levels
                 PROVE  \E w \in Path[m] : Level(w) = level /\ r[w].observed
      BY DEF LevelsHaveObserver
    <2>1. m \notin Removed(n) /\ level \in report[m].levels
      BY <1>1, <1>3
    <2>2. PICK w \in Path[m] : Level(w) = level /\ report[w].observed
      BY <2>1 DEF LevelInv, LevelsHaveObserver
    <2>3. w \in Nodes /\ m \in Below[w]
      BY PathsClimb DEF Below
    <2>4. m \in alive
      BY <2>1 DEF LevelInv, ReportsAreKept
    <2>5. w \notin Removed(n)
      BY <1>4, <2>1, <2>3, <2>4
    <2> QED
      BY <1>1, <2>2, <2>3, <2>5
  <1>6. ObserversHaveLevel(r)
    BY <1>1, <1>3 DEF LevelInv, ObserversHaveLevel
  <1>7. \A m \in Nodes :
            /\ r[m].exists => m \in alive \ Removed(n)
            /\ ~r[m].exists => ~r[m].observed /\ r[m].levels = {}
    BY <1>1, <1>3 DEF LevelInv, ReportsAreKept
  <1> QED
    BY <1>2, <1>5, <1>6, <1>7 DEF ReportsAreKept, r

LEMMA LevelsKept == LevelInv /\ [Next]_vars => LevelInv'
  <1> SUFFICES ASSUME LevelInv, [Next]_vars PROVE LevelInv'
    OBVIOUS
  <1>1. TypeOK'
    BY TypeKept DEF LevelInv
  <1>2. ASSUME report' = report, alive \subseteq alive'
        PROVE  ReportsAreKept' /\ LevelsHaveObserver(report') /\ ObserversHaveLevel(report')
    BY <1>2 DEF LevelInv, ReportsAreKept
  <1>3. ASSUME NEW i \in Instances, NEW accepted \in BOOLEAN, NEW S \in Payloads(i),
               PostObject(i, S, accepted) \/ PostInstance(i, S, accepted)
                   \/ PostUnlisted(i, S, accepted)
        PROVE  report' = report /\ alive \subseteq alive'
    BY <1>3 DEF PostObject, PostInstance, PostUnlisted
  <1>4. ASSUME NEW l \in Leaves, Change(l) \/ ClearValue(l)
        PROVE  report' = report /\ alive \subseteq alive'
    BY <1>4 DEF Change, ClearValue
  <1>5. ASSUME NEW n \in Nodes, Create(n)
        PROVE  report' = report /\ alive \subseteq alive'
    BY <1>5 DEF Create
  <1>6. ASSUME Register \/ UNCHANGED vars
        PROVE  report' = report /\ alive \subseteq alive'
    BY <1>6 DEF Register, vars
  <1>7. ReportsAreKept' /\ LevelsHaveObserver(report') /\ ObserversHaveLevel(report')
    BY <1>2, <1>3, <1>4, <1>5, <1>6, ObserveLevels, CancelLevels, ResetLevels,
       WriteAttributesLevels, RemoveLevels DEF Next, Server, Application
  <1> QED
    BY <1>1, <1>7 DEF LevelInv, LevelsHaveObserver, ObserversHaveLevel

\* Whatever is observed, cancelled, reset, created and removed, on a tree of any
\* shape: the levels that handlers keep, from which report() works out whom to tell,
\* are those of observations that last.
THEOREM LevelsStayRight == Spec => []LevelsAreObservations
  <1>1. Init => LevelInv
    <2> SUFFICES ASSUME Init PROVE LevelInv
      OBVIOUS
    <2>1. \A n \in Nodes : ~report[n].exists /\ ~report[n].observed /\ report[n].levels = {}
      BY DEF Init, NoReport
    <2> QED
      BY <2>1, InitTyped DEF LevelInv, ReportsAreKept, LevelsHaveObserver, ObserversHaveLevel
  <1>2. LevelInv => LevelsAreObservations
    BY DEF LevelInv, LevelsHaveObserver, ObserversHaveLevel, LevelsAreObservations
  <1> QED
    BY <1>1, <1>2, LevelsKept, PTL DEF Spec

-----------------------------------------------------------------------------
(* What client and server hold of an observation.                          *)

\* A server that observes two nodes uses two tokens, and no token for one node today
\* and for another tomorrow: RESET is matched by token, also with one that a handler
\* kept when its observation ended.
DistinctTokens == \A m, n \in Nodes : m # n => TokensOf[m] \cap TokensOf[n] = {}

TokensAreOwn ==
    \A n \in Nodes : /\ report[n].token \in TokensOf[n] \cup {NoToken}
                     /\ observing[n] \in TokensOf[n] \cup {NoToken}

AgreeInv == LevelInv /\ TokensAreOwn /\ ObservationsAgree

LEMMA ObserveAgrees ==
    ASSUME AgreeInv, NEW n \in Nodes, NEW t \in TokensOf[n], Observe(n, t)
    PROVE  TokensAreOwn' /\ ObservationsAgree'
  <1> DEFINE own == UnderObservation(report[n], n, TRUE, TRUE)
             shown == [report EXCEPT ![n] = own]
             added == AddLevel(shown, n)
             r == report'
  <1>1. report \in [Nodes -> Handlers] /\ observing \in [Nodes -> Tokens \cup {NoToken}]
    BY Typed DEF AgreeInv, LevelInv, Types
  <1>2. /\ own.token = report[n].token
        /\ n \notin ResourceInstances => own.exists /\ own.observed
    BY <1>1 DEF UnderObservation, Handlers
  <1>3. own \in Handlers
    BY <1>1, UnderObservationTyped
  <1> HIDE DEF own
  <1>4. /\ shown \in [Nodes -> Handlers]
        /\ shown[n] = own
        /\ \A m \in Nodes \ {n} : shown[m] = report[m]
    BY <1>1, <1>3
  <1>5. r = SetToken(added, n, t)
    BY DEF Observe, own
  <1> HIDE DEF shown
  <1>6. added \in [Nodes -> Handlers]
    BY <1>4, LevelOperatorsTyped
  <1>7. \A m \in Nodes : /\ added[m].exists = shown[m].exists
                         /\ added[m].observed = shown[m].observed
                         /\ added[m].token = shown[m].token
    BY <1>4 DEF AddLevel, Handlers
  <1> HIDE DEF added, r
  <1>8. /\ \A m \in Nodes \ {n} : r[m] = added[m]
        /\ r[n].observed = added[n].observed
        /\ r[n].token = IF added[n].exists THEN t ELSE added[n].token
    BY <1>5, <1>6 DEF SetToken, Handlers
  <1>9. /\ observing' = [observing EXCEPT ![n] = t] /\ alive' = alive /\ n \in alive
        /\ t # NoToken
    BY TokenAssumption DEF Observe, Reached, tree
  <1>10. \A m \in Nodes \ {n} :
             /\ r[m].observed = report[m].observed /\ r[m].token = report[m].token
             /\ observing'[m] = observing[m]
    BY <1>1, <1>4, <1>7, <1>8, <1>9
  <1>11. /\ r[n].token \in TokensOf[n] \cup {NoToken} /\ observing'[n] = t
         /\ n \notin ResourceInstances => r[n].observed /\ r[n].token = t
    BY <1>1, <1>2, <1>4, <1>7, <1>8, <1>9 DEF AgreeInv, TokensAreOwn
  <1>12. TokensAreOwn'
    BY <1>10, <1>11 DEF AgreeInv, TokensAreOwn, r
  <1>13. ObservationsAgree'
    BY <1>9, <1>10, <1>11 DEF AgreeInv, ObservationsAgree, r
  <1> QED
    BY <1>12, <1>13

LEMMA CancelAgrees ==
    ASSUME AgreeInv, NEW n \in Nodes, Cancel(n)
    PROVE  TokensAreOwn' /\ ObservationsAgree'
  <1> DEFINE hidden == [report EXCEPT ![n] = UnderObservation(@, n, FALSE, FALSE)]
             r == report'
  <1>1. report \in [Nodes -> Handlers] /\ observing \in [Nodes -> Tokens \cup {NoToken}]
    BY Typed DEF AgreeInv, LevelInv, Types
  <1>2. hidden = [report EXCEPT ![n] = NoReport] /\ NoReport \in Handlers
    BY NewHandlersTyped DEF UnderObservation
  <1>3. r = RemoveLevel(hidden, n)
    BY DEF Cancel
  <1> HIDE DEF hidden
  <1>4. hidden \in [Nodes -> Handlers]
    BY <1>1, <1>2
  <1>5. \A m \in Nodes : r[m].observed = hidden[m].observed /\ r[m].token = hidden[m].token
    BY <1>3, <1>4 DEF RemoveLevel, Handlers
  <1> HIDE DEF r
  <1>6. ~r[n].observed /\ r[n].token = NoToken
    BY <1>1, <1>2, <1>5 DEF NoReport
  <1>7. \A m \in Nodes \ {n} : r[m].observed = report[m].observed /\ r[m].token = report[m].token
    BY <1>1, <1>2, <1>5
  <1>8. observing' = [observing EXCEPT ![n] = NoToken] /\ alive' = alive
    BY DEF Cancel, tree
  <1>9. TokensAreOwn'
    BY <1>1, <1>6, <1>7, <1>8 DEF AgreeInv, TokensAreOwn, r
  <1>10. ObservationsAgree'
    BY <1>1, <1>6, <1>7, <1>8 DEF AgreeInv, ObservationsAgree, r
  <1> QED
    BY <1>9, <1>10

LEMMA ResetAgrees ==
    ASSUME DistinctTokens, AgreeInv, NEW t \in Tokens, Reset(t)
    PROVE  TokensAreOwn' /\ ObservationsAgree'
  <1>1. PICK n \in FoundByToken(t) :
            report' = [RemoveLevel(report, n) EXCEPT ![n] = UnderObservation(@, n, FALSE, TRUE)]
    BY DEF Reset
  <1>2. /\ n \in Nodes /\ n \notin ResourceInstances /\ report[n].exists /\ report[n].token = t
        /\ report \in [Nodes -> Handlers] /\ observing \in [Nodes -> Tokens \cup {NoToken}]
    BY Typed DEF FoundByToken, AgreeInv, LevelInv, Types
  <1> DEFINE removed == RemoveLevel(report, n)
             r == report'
  <1>3. removed \in [Nodes -> Handlers]
    BY <1>2, LevelOperatorsTyped
  <1>4. \A m \in Nodes : /\ removed[m].exists = report[m].exists
                         /\ removed[m].observed = report[m].observed
                         /\ removed[m].token = report[m].token
    BY <1>2 DEF RemoveLevel, Handlers
  <1>5. r = [removed EXCEPT ![n] = UnderObservation(@, n, FALSE, TRUE)]
    BY <1>1
  <1> HIDE DEF removed, r
  <1>6. r[n] = [removed[n] EXCEPT !.exists = TRUE, !.observed = FALSE]
    BY <1>2, <1>3, <1>4, <1>5 DEF UnderObservation
  <1>7. ~r[n].observed /\ r[n].token = t
    <2>1. removed[n] \in Handlers
      BY <1>2, <1>3
    <2> QED
      BY <1>2, <1>4, <1>6, <2>1 DEF Handlers
  <1>8. \A m \in Nodes \ {n} : r[m].observed = report[m].observed /\ r[m].token = report[m].token
    BY <1>2, <1>3, <1>4, <1>5
  <1>9. /\ observing' = [m \in Nodes |-> IF observing[m] = t THEN NoToken ELSE observing[m]]
        /\ alive' = alive /\ t # NoToken
    BY TokenAssumption DEF Reset, tree
  <1>10. t \in TokensOf[n]
    BY <1>2, <1>9 DEF AgreeInv, TokensAreOwn
  <1>11. \A m \in Nodes \ {n} : observing'[m] = observing[m]
    BY <1>2, <1>9, <1>10 DEF AgreeInv, TokensAreOwn, DistinctTokens
  <1>12. observing'[n] = NoToken
    BY <1>2, <1>9 DEF AgreeInv, ObservationsAgree
  <1>13. TokensAreOwn'
    BY <1>7, <1>8, <1>10, <1>11, <1>12 DEF AgreeInv, TokensAreOwn, r
  <1>14. ObservationsAgree'
    BY <1>2, <1>7, <1>8, <1>9, <1>11, <1>12 DEF AgreeInv, ObservationsAgree, r
  <1> QED
    BY <1>13, <1>14

LEMMA WriteAttributesAgrees ==
    ASSUME AgreeInv, NEW n \in Nodes, WriteAttributes(n)
    PROVE  TokensAreOwn' /\ ObservationsAgree'
  <1>1. report \in [Nodes -> Handlers]
    BY Typed DEF AgreeInv, LevelInv, Types
  <1>2. observing' = observing /\ alive' = alive
    BY DEF WriteAttributes, tree
  <1>3. CASE report[n].exists
    <2>1. report' = report
      BY <1>1, <1>3 DEF WriteAttributes
    <2> QED
      BY <1>2, <2>1 DEF AgreeInv, TokensAreOwn, ObservationsAgree
  <1>4. CASE ~report[n].exists
    <2>1. report' = [report EXCEPT ![n] = NewReport]
      BY <1>1, <1>4 DEF WriteAttributes
    <2>2. ~NewReport.observed /\ NewReport.token = NoToken /\ ~report[n].observed
      BY <1>4 DEF NewReport, NoReport, AgreeInv, LevelInv, ReportsAreKept
    <2> QED
      BY <1>1, <1>2, <2>1, <2>2 DEF AgreeInv, TokensAreOwn, ObservationsAgree
  <1> QED
    BY <1>3, <1>4

LEMMA RemoveAgrees ==
    ASSUME AgreeInv, NEW n \in Nodes, Remove(n)
    PROVE  TokensAreOwn' /\ ObservationsAgree'
  <1>1. /\ report' = [m \in Nodes |-> IF m \in Removed(n) THEN NoReport ELSE report[m]]
        /\ observing' = [m \in Nodes |-> IF m \in Removed(n) THEN NoToken ELSE observing[m]]
        /\ alive' = alive \ Removed(n)
    BY DEF Remove
  <1>2. ~NoReport.observed /\ NoReport.token = NoToken
    BY DEF NoReport
  <1> QED
    BY <1>1, <1>2 DEF AgreeInv, TokensAreOwn, ObservationsAgree

LEMMA AgreementKept == DistinctTokens /\ AgreeInv /\ [Next]_vars => AgreeInv'
  <1> SUFFICES ASSUME DistinctTokens, AgreeInv, [Next]_vars PROVE AgreeInv'
    OBVIOUS
  <1>1. LevelInv'
    BY LevelsKept DEF AgreeInv
  <1>2. ASSUME report' = report, observing' = observing, alive \subseteq alive'
        PROVE  TokensAreOwn' /\ ObservationsAgree'
    BY <1>2 DEF AgreeInv, TokensAreOwn, ObservationsAgree
  <1>3. ASSUME NEW i \in Instances, NEW accepted \in BOOLEAN, NEW S \in Payloads(i),
               PostObject(i, S, accepted) \/ PostInstance(i, S, accepted)
                   \/ PostUnlisted(i, S, accepted)
        PROVE  report' = report /\ observing' = observing /\ alive \subseteq alive'
    BY <1>3 DEF PostObject, PostInstance, PostUnlisted
  <1>4. ASSUME NEW l \in Leaves, Change(l) \/ ClearValue(l)
        PROVE  report' = report /\ observing' = observing /\ alive \subseteq alive'
    BY <1>4 DEF Change, ClearValue
  <1>5. ASSUME NEW n \in Nodes, Create(n)
        PROVE  report' = report /\ observing' = observing /\ alive \subseteq alive'
    BY <1>5 DEF Create
  <1>6. ASSUME Register \/ UNCHANGED vars
        PROVE  report' = report /\ observing' = observing /\ alive \subseteq alive'
    BY <1>6 DEF Register, vars
  <1>7. TokensAreOwn' /\ ObservationsAgree'
    BY <1>2, <1>3, <1>4, <1>5, <1>6, ObserveAgrees, CancelAgrees, ResetAgrees,
       WriteAttributesAgrees, RemoveAgrees DEF Next, Server, Application
  <1> QED
    BY <1>1, <1>7 DEF AgreeInv

LEMMA InitAgrees == Init => AgreeInv
  <1> SUFFICES ASSUME Init PROVE AgreeInv
    OBVIOUS
  <1>1. \A n \in Nodes : /\ ~report[n].exists /\ ~report[n].observed /\ report[n].levels = {}
                         /\ report[n].token = NoToken /\ observing[n] = NoToken
    BY DEF Init, NoReport
  <1> QED
    BY <1>1, InitTyped DEF AgreeInv, LevelInv, ReportsAreKept, LevelsHaveObserver,
                           ObserversHaveLevel, TokensAreOwn, ObservationsAgree

\* Where the server uses the tokens of a node for it alone, client and server agree
\* on what is observed and with which token, on a tree of any shape and whatever
\* is observed, cancelled, reset, removed and created again.
THEOREM ObservationsStayAgreed == ASSUME DistinctTokens PROVE Spec => []ObservationsAgree
  <1>1. AgreeInv /\ [Next]_vars => AgreeInv'
    BY AgreementKept
  <1>2. AgreeInv => ObservationsAgree
    BY DEF AgreeInv
  <1> QED
    BY <1>1, <1>2, InitAgrees, PTL DEF Spec

-----------------------------------------------------------------------------
(* The tree implements Observation.                                        *)

\* A resource instance that can be observed is sent to nobody and hides its resource
\* (observation_to_be_sent()): the promise is made for trees that have none.
PlainInstances == ResourceInstances \cap Observable = {}

InstancesArePlain ==
    /\ \A n \in Nodes : observing[n] # NoToken => n \in Observable
    /\ \A x \in ResourceInstances :
           ~report[x].observed /\ (report[x].exists => x \in Attributed)

TellInv == AgreeInv /\ InstancesArePlain

Observed == {n \in Nodes : observing[n] # NoToken}

LEMMA ObservedAreReported ==
    ASSUME TellInv, PlainInstances
    PROVE  /\ Observed \subseteq Observable \ ResourceInstances
           /\ \A n \in Nodes : report[n].observed <=> n \in Observed
           /\ \A n \in Nodes : report[n].observed => report[n].exists
           /\ \A n \in Observed : Level(n) \in report[n].levels
  <1>1. Observed \subseteq Observable \ ResourceInstances
    BY DEF TellInv, InstancesArePlain, PlainInstances, Observed
  <1>2. \A n \in Nodes : report[n].observed <=> n \in Observed
    BY <1>1 DEF TellInv, InstancesArePlain, AgreeInv, ObservationsAgree, Observed
  <1>3. \A n \in Nodes : report[n].observed => report[n].exists
    BY DEF TellInv, AgreeInv, LevelInv, ReportsAreKept
  <1>4. \A n \in Observed : Level(n) \in report[n].levels
    BY <1>1, <1>2 DEF TellInv, AgreeInv, LevelInv, ObserversHaveLevel, Observed
  <1> QED
    BY <1>1, <1>2, <1>3, <1>4

\* Where a leaf stands.
LEMMA LeafPath ==
    ASSUME NEW l \in Leaves
    PROVE  /\ l \in Nodes /\ Path[l] = {l, ResourceOf(l), InstanceOf(l), Object}
           /\ ResourceOf(l) \in Resources /\ InstanceOf(l) \in Instances
           /\ l \notin ResourceInstances => ResourceOf(l) = l
           /\ l \in ResourceInstances => ResourceOf(l) = Parent[l]
           /\ Level(ResourceOf(l)) = "R" /\ Level(InstanceOf(l)) = "OI" /\ Level(Object) = "O"
  <1>1. l \in Resources \/ l \in ResourceInstances
    BY DEF Leaves
  <1>2. /\ l \in Nodes /\ l # Object /\ l \notin Instances
        /\ ResourceOf(l) \in Resources
    BY <1>1, Parents DEF ResourceOf
  <1>3. InstanceOf(l) \in Instances
    BY <1>2, Parents DEF InstanceOf
  <1>4. Path[l] = {l, ResourceOf(l), InstanceOf(l), Object}
    BY <1>2 DEF Path
  <1> QED
    BY <1>2, <1>3, <1>4, Parents DEF ResourceOf, Level

\* The combined level of a leaf has the level of the resource exactly when its
\* resource is observed.
LEMMA CombinedIsExact ==
    ASSUME TellInv, PlainInstances, NEW l \in Leaves
    PROVE  /\ \A n \in Path[l] \cap Observed : Level(n) \in CombinedLevels(l)
           /\ "R" \in CombinedLevels(l) => ResourceOf(l) \in Observed
  <1>1. \A n \in Path[l] \cap Observed : Level(n) \in CombinedLevels(l)
    BY ObservedAreReported DEF CombinedLevels
  <1>2. ASSUME "R" \in CombinedLevels(l)
        PROVE  ResourceOf(l) \in Observed
    <2>1. PICK n \in Path[l] : "R" \in report[n].levels
      BY <1>2 DEF CombinedLevels
    <2>2. n \in Nodes /\ Path[n] \subseteq Path[l]
      BY LeafPath, PathsClimb
    <2>3. PICK w \in Path[n] : Level(w) = "R" /\ report[w].observed
      BY <2>1, <2>2 DEF TellInv, AgreeInv, LevelInv, LevelsHaveObserver
    <2>4. w \in {l, ResourceOf(l), InstanceOf(l), Object} /\ w \in Nodes
      BY <2>2, <2>3, LeafPath, PathsClimb
    <2>5. w \in Observed /\ w \notin ResourceInstances
      BY <2>3, <2>4, ObservedAreReported
    <2>6. w # InstanceOf(l) /\ w # Object
      BY <2>3, LeafPath
    <2> QED
      BY <2>4, <2>5, <2>6, LeafPath
  <1> QED
    BY <1>1, <1>2

\* The observers of the object and of the instance are always reached.
LEMMA ParentsAreNotified ==
    ASSUME TellInv, PlainInstances, NEW l \in Leaves
    PROVE  NotificationUpdate(l) = {Object, InstanceOf(l)} \cap Observed
  <1>1. /\ Object \in Path[l] /\ InstanceOf(l) \in Path[l]
        /\ Object \in Nodes /\ InstanceOf(l) \in Nodes
    BY LeafPath, Parents
  <1> QED
    BY <1>1, CombinedIsExact, ObservedAreReported DEF NotificationUpdate

\* report() reaches the observers of the resource too, unless a handler of a resource
\* instance is in the way.
LEMMA ResourceIsTold ==
    ASSUME TellInv, PlainInstances, NEW l \in Leaves, l \notin Statics
    PROVE  /\ ResourceUpdate(l) \ ResourceInstances \subseteq {ResourceOf(l)} \cap Observed
           /\ l \notin ResourceInstances /\ l \in Strings => ResourceUpdate(l) = {}
           /\ l \notin ResourceInstances /\ l \notin Strings =>
                  {l} \cap Observed \subseteq ResourceUpdate(l)
           /\ l \in ResourceInstances /\ l \notin Attributed =>
                  {Parent[l]} \cap Observed \subseteq ResourceUpdate(l)
  <1> DEFINE r == ResourceOf(l)
  <1>1. r \in Nodes /\ r \in Path[l] /\ Level(r) = "R" /\ l \in Nodes
    BY LeafPath, Parents
  <1>2. "R" \in CombinedLevels(l) <=> r \in Observed
    BY <1>1, CombinedIsExact
  <1>3. r \in Observed => /\ "R" \in report[r].levels /\ r \in Observable
                          /\ report[r].exists /\ r \notin ResourceInstances
    BY <1>1, ObservedAreReported
  <1>4. CASE r \notin Observed
    <2>1. ResourceUpdate(l) = {}
      BY <1>2, <1>4 DEF ResourceUpdate
    <2> QED
      BY <1>4, <2>1, LeafPath
  <1>5. CASE r \in Observed /\ l \notin ResourceInstances
    <2>1. r = l
      BY <1>5, LeafPath
    <2>2. ResourceUpdate(l) = IF l \in Strings THEN {} ELSE {l}
      BY <1>2, <1>3, <1>5, <2>1 DEF ResourceUpdate
    <2> QED
      BY <1>5, <2>1, <2>2
  <1>6. CASE r \in Observed /\ l \in ResourceInstances
    <2>1. r = Parent[l]
      BY <1>6, LeafPath
    <2>2. ResourceUpdate(l) = IF l \notin Strings /\ report[l].levels # {}
                              THEN {l} \cap Observable ELSE {r}
      BY <1>2, <1>3, <1>6, <2>1 DEF ResourceUpdate
    <2>3. l \notin Attributed => report[l].levels = {}
      BY <1>1, <1>6 DEF TellInv, InstancesArePlain, AgreeInv, LevelInv, ReportsAreKept
    <2> QED
      BY <1>6, <2>1, <2>2, <2>3
  <1> QED
    BY <1>4, <1>5, <1>6

\* What a change makes the library send is what the promise says.
LEMMA ReportsReachObservers ==
    ASSUME TellInv, PlainInstances, NEW c \in Changes,
           NEW told_, told_ = Sent(IF c[2] = "set" THEN Triggered(c[1]) ELSE Report(c[1]))
    PROVE  /\ told_ \subseteq Observed \cap Heard[c]
           /\ ~observation_handler => told_ = {}
           /\ observation_handler => (Observed \cap Heard[c]) \ told_ \subseteq Optional[c]
  <1> DEFINE l == c[1]
             set == c[2] = "set"
             above == {InstanceOf(l), Object}
  <1>1. l \in Leaves /\ (set \/ c[2] = "clear")
    BY DEF Changes
  <1>2. /\ l \in Nodes /\ Path[l] = {l, ResourceOf(l)} \cup above
        /\ above \cap ResourceInstances = {} /\ l \notin above /\ ResourceOf(l) \notin above
        /\ ResourceOf(l) \notin ResourceInstances
        /\ l \notin ResourceInstances => ResourceOf(l) = l
        /\ l \in ResourceInstances => ResourceOf(l) = Parent[l]
    BY <1>1, LeafPath, Parents
  <1>3. Heard[c] = IF l \in Strings /\ set THEN {l} \ ResourceInstances
                   ELSE IF l \in Statics THEN above
                   ELSE IF l \in Strings THEN Path[l] \ {l}
                   ELSE Path[l] \ ResourceInstances
    BY DEF Heard
  <1>4. Optional[c] = IF l \in ResourceInstances \cap Attributed THEN {Parent[l]} ELSE {}
    BY DEF Optional
  <1>5. NotificationUpdate(l) = above \cap Observed
    BY <1>1, ParentsAreNotified
  <1>6. Observed \cap ResourceInstances = {} /\ (report[l].observed <=> l \in Observed)
    BY <1>2, ObservedAreReported
  <1> HIDE DEF l, set, above
  <1>7. ASSUME NEW triggered,
               triggered \ ResourceInstances \subseteq Observed \cap Heard[c],
               (Observed \cap Heard[c]) \ triggered \subseteq Optional[c],
               told_ = Sent(triggered)
        PROVE  /\ told_ \subseteq Observed \cap Heard[c]
               /\ ~observation_handler => told_ = {}
               /\ observation_handler => (Observed \cap Heard[c]) \ told_ \subseteq Optional[c]
    BY <1>6, <1>7 DEF Sent
  <1>8. CASE l \in Strings /\ set
    <2>1. told_ = Sent(Triggered(l)) /\ Triggered(l) = {l} \cap Observed
      BY <1>6, <1>8 DEF Triggered, l, set
    <2>2. Heard[c] = {l} \ ResourceInstances
      BY <1>3, <1>8
    <2> QED
      BY <1>6, <1>7, <2>1, <2>2
  <1>9. CASE ~(l \in Strings /\ set)
    <2>1. told_ = Sent(Report(l))
      BY <1>1, <1>9 DEF Triggered, l, set
    <2>2. CASE l \in Statics
      <3>1. Report(l) = above \cap Observed
        BY <1>5, <2>2 DEF Report, ResourceUpdate
      <3>2. Heard[c] = above
        BY <1>3, <1>9, <2>2
      <3> QED
        BY <1>7, <2>1, <3>1, <3>2
    <2>3. CASE l \notin Statics /\ l \notin ResourceInstances
      <3>1. Heard[c] = IF l \in Strings THEN above ELSE {l} \cup above
        BY <1>2, <1>3, <1>9, <2>3
      <3>2. Report(l) \ ResourceInstances \subseteq Observed \cap Heard[c]
        BY <1>1, <1>2, <1>5, <2>3, <3>1, ResourceIsTold DEF Report
      <3>3. Observed \cap Heard[c] \subseteq Report(l)
        BY <1>1, <1>5, <2>3, <3>1, ResourceIsTold DEF Report
      <3> QED
        BY <1>7, <2>1, <3>2, <3>3
    <2>4. CASE l \notin Statics /\ l \in ResourceInstances
      <3>1. Heard[c] = {Parent[l]} \cup above
        BY <1>2, <1>3, <1>9, <2>4
      <3>2. Report(l) \ ResourceInstances \subseteq Observed \cap Heard[c]
        BY <1>1, <1>2, <1>5, <2>4, <3>1, ResourceIsTold DEF Report
      <3>3. (Observed \cap Heard[c]) \ Report(l) \subseteq Optional[c]
        BY <1>1, <1>4, <1>5, <2>4, <3>1, ResourceIsTold DEF Report
      <3> QED
        BY <1>7, <2>1, <3>2, <3>3
    <2> QED
      BY <2>2, <2>3, <2>4
  <1> QED
    BY <1>8, <1>9

\* Only a node whose attributes are written, or one that is observed, gets a handler.
LEMMA InstancesStayPlain ==
    ASSUME PlainInstances, TellInv, [Next]_vars
    PROVE  InstancesArePlain'
  <1> DEFINE r == report'
  <1>1. /\ report \in [Nodes -> Handlers] /\ observing \in [Nodes -> Tokens \cup {NoToken}]
        /\ ResourceInstances \subseteq Nodes
    BY Typed, Parents DEF TellInv, AgreeInv, LevelInv, Types
  <1>2. ASSUME report' = report, observing' = observing
        PROVE  InstancesArePlain'
    BY <1>2 DEF TellInv, InstancesArePlain
  <1>3. ASSUME NEW n \in Nodes, NEW t \in TokensOf[n], Observe(n, t)
        PROVE  InstancesArePlain'
    <2>1. n \in Observable /\ n \notin ResourceInstances
      BY <1>3 DEF Observe, PlainInstances
    <2>2. observing' = [observing EXCEPT ![n] = t]
      BY <1>3 DEF Observe
    <2> DEFINE own == UnderObservation(report[n], n, TRUE, TRUE)
               shown == [report EXCEPT ![n] = own]
               added == AddLevel(shown, n)
    <2>3. own \in Handlers
      BY <1>1, UnderObservationTyped
    <2> HIDE DEF own
    <2>4. shown \in [Nodes -> Handlers] /\ \A x \in ResourceInstances : shown[x] = report[x]
      BY <1>1, <2>1, <2>3
    <2> HIDE DEF shown
    <2>5. /\ added \in [Nodes -> Handlers]
          /\ \A x \in ResourceInstances : /\ added[x].exists = shown[x].exists
                                          /\ added[x].observed = shown[x].observed
      <3>1. added \in [Nodes -> Handlers]
        BY <2>4, LevelOperatorsTyped
      <3>2. \A x \in ResourceInstances : /\ added[x].exists = shown[x].exists
                                         /\ added[x].observed = shown[x].observed
        BY <1>1, <2>4, LevelOperatorsKeepTheRest
      <3> QED
        BY <3>1, <3>2
    <2>6. report' = SetToken(added, n, t)
      BY <1>3 DEF Observe, own, shown
    <2> HIDE DEF added
    <2>7. \A x \in ResourceInstances : report'[x] = added[x]
      BY <1>1, <2>1, <2>5, <2>6 DEF SetToken
    <2> QED
      BY <1>1, <2>1, <2>2, <2>4, <2>5, <2>7 DEF TellInv, InstancesArePlain
  <1>4. ASSUME NEW n \in Nodes, Cancel(n)
        PROVE  InstancesArePlain'
    <2> DEFINE hidden == [report EXCEPT ![n] = UnderObservation(@, n, FALSE, FALSE)]
    <2>1. hidden = [report EXCEPT ![n] = NoReport] /\ NoReport \in Handlers
      BY NewHandlersTyped DEF UnderObservation
    <2>2. report' = RemoveLevel(hidden, n) /\ observing' = [observing EXCEPT ![n] = NoToken]
      BY <1>4 DEF Cancel
    <2> HIDE DEF hidden
    <2>3. hidden \in [Nodes -> Handlers]
      BY <1>1, <2>1
    <2>4. \A x \in ResourceInstances : /\ report'[x].exists = hidden[x].exists
                                       /\ report'[x].observed = hidden[x].observed
      BY <1>1, <2>2, <2>3, LevelOperatorsKeepTheRest
    <2>5. \A x \in ResourceInstances : hidden[x] = report[x] \/ hidden[x] = NoReport
      BY <1>1, <2>1
    <2>6. \A m \in Nodes : observing'[m] # NoToken => observing[m] # NoToken
      BY <1>1, <2>2
    <2> QED
      BY <2>4, <2>5, <2>6 DEF TellInv, InstancesArePlain, NoReport
  <1>5. ASSUME NEW t \in Tokens, Reset(t)
        PROVE  InstancesArePlain'
    <2>1. PICK n \in FoundByToken(t) :
              report' = [RemoveLevel(report, n) EXCEPT ![n] = UnderObservation(@, n, FALSE, TRUE)]
      BY <1>5 DEF Reset
    <2>2. n \in Nodes /\ n \notin ResourceInstances
      BY <1>1, <2>1 DEF FoundByToken, TellInv, AgreeInv, LevelInv, TypeOK
    <2> DEFINE removed == RemoveLevel(report, n)
    <2>3. removed \in [Nodes -> Handlers]
      BY <1>1, <2>2, LevelOperatorsTyped
    <2>4. \A x \in ResourceInstances : /\ removed[x].exists = report[x].exists
                                       /\ removed[x].observed = report[x].observed
      BY <1>1 DEF RemoveLevel, Handlers
    <2>5. report' = [removed EXCEPT ![n] = UnderObservation(@, n, FALSE, TRUE)]
      BY <2>1
    <2> HIDE DEF removed
    <2>6. \A x \in ResourceInstances : report'[x] = removed[x]
      BY <1>1, <2>2, <2>3, <2>5
    <2>7. \A m \in Nodes : observing'[m] # NoToken => observing[m] # NoToken
      BY <1>1, <1>5 DEF Reset
    <2> QED
      BY <2>6, <2>7, <2>4 DEF TellInv, InstancesArePlain
  <1>6. ASSUME NEW n \in Nodes, WriteAttributes(n)
        PROVE  InstancesArePlain'
    <2>1. /\ observing' = observing /\ n \in Attributed
          /\ report' = [report EXCEPT ![n] = IF @.exists THEN @ ELSE NewReport]
      BY <1>6 DEF WriteAttributes
    <2>2. ~NewReport.observed
      BY DEF NewReport, NoReport
    <2>3. \A x \in ResourceInstances :
              report'[x] = report[x] \/ (x = n /\ report'[x] = NewReport)
      BY <1>1, <2>1
    <2> QED
      BY <2>1, <2>2, <2>3 DEF TellInv, InstancesArePlain
  <1>7. ASSUME NEW n \in Nodes, Remove(n)
        PROVE  InstancesArePlain'
    <2>1. /\ report' = [m \in Nodes |-> IF m \in Removed(n) THEN NoReport ELSE report[m]]
          /\ observing' = [m \in Nodes |-> IF m \in Removed(n) THEN NoToken ELSE observing[m]]
      BY <1>7 DEF Remove
    <2>2. ~NoReport.observed /\ ~NoReport.exists
      BY DEF NoReport
    <2> QED
      BY <1>1, <2>1, <2>2 DEF TellInv, InstancesArePlain
  <1>8. ASSUME NEW i \in Instances, NEW accepted \in BOOLEAN, NEW S \in Payloads(i),
               PostObject(i, S, accepted) \/ PostInstance(i, S, accepted)
                   \/ PostUnlisted(i, S, accepted)
        PROVE  report' = report /\ observing' = observing
    BY <1>8 DEF PostObject, PostInstance, PostUnlisted
  <1>9. ASSUME NEW l \in Leaves, Change(l) \/ ClearValue(l)
        PROVE  report' = report /\ observing' = observing
    BY <1>9 DEF Change, ClearValue
  <1>10. ASSUME NEW n \in Nodes, Create(n)
        PROVE  report' = report /\ observing' = observing
    BY <1>10 DEF Create
  <1>11. ASSUME Register \/ UNCHANGED vars
        PROVE  report' = report /\ observing' = observing
    BY <1>11 DEF Register, vars
  <1> QED
    BY <1>2, <1>3, <1>4, <1>5, <1>6, <1>7, <1>8, <1>9, <1>10, <1>11
       DEF Next, Server, Application

LEMMA TellKept == DistinctTokens /\ PlainInstances /\ TellInv /\ [Next]_vars => TellInv'
  BY AgreementKept, InstancesStayPlain DEF TellInv

LEMMA ChangePromised ==
    ASSUME TellInv, PlainInstances, NEW l \in Leaves, Change(l) \/ ClearValue(l)
    PROVE  Promise!Next
  <1>1. PICK c \in Changes :
            /\ change' = c
            /\ told' = Sent(IF c[2] = "set" THEN Triggered(c[1]) ELSE Report(c[1]))
    <2>1. CASE Change(l)
      <3> DEFINE c == <<l, "set">>
      <3>1. c \in Changes /\ c[1] = l /\ c[2] = "set"
        BY DEF Changes
      <3>2. change' = c /\ told' = Sent(Triggered(l))
        BY <2>1 DEF Change
      <3> HIDE DEF c
      <3> QED
        BY <3>1, <3>2
    <2>2. CASE ClearValue(l)
      <3> DEFINE c == <<l, "clear">>
      <3>1. c \in Changes /\ c[1] = l /\ c[2] # "set"
        BY DEF Changes
      <3>2. change' = c /\ told' = Sent(Report(l))
        BY <2>2 DEF ClearValue
      <3> HIDE DEF c
      <3> QED
        BY <3>1, <3>2
    <2> QED
      BY <2>1, <2>2
  <1>2. /\ told' \subseteq Observed \cap Heard[c]
        /\ ~observation_handler => told' = {}
        /\ observation_handler => (Observed \cap Heard[c]) \ told' \subseteq Optional[c]
    BY <1>1, ReportsReachObservers
  <1>3. observing' = observing /\ observation_handler' = observation_handler
    BY DEF Change, ClearValue
  <1>4. Promise!Change(c)
    BY <1>1, <1>2, <1>3 DEF Promise!Change, Observed
  <1> QED
    BY <1>4 DEF Promise!Next

\* Every step of the tree is one of the promise, or leaves it alone.
LEMMA NextPromise ==
    ASSUME DistinctTokens, PlainInstances, TellInv, [Next]_vars
    PROVE  [Promise!Next]_(Promise!vars)
  <1>1. /\ observing \in [Nodes -> Tokens \cup {NoToken}]
        /\ alive \subseteq Nodes /\ observation_handler \in BOOLEAN
    BY Typed DEF TellInv, AgreeInv, LevelInv, Types
  <1>2. ASSUME Quiet, observation_handler' \in BOOLEAN,
               \A m \in Nodes : observing'[m] # NoToken => observing[m] # NoToken
        PROVE  Promise!Next
    <2>1. {m \in Nodes : observing'[m] # NoToken} \subseteq {m \in Nodes : observing[m] # NoToken}
      BY <1>2
    <2>2. Promise!End
      BY <1>2, <2>1 DEF Promise!End, Promise!Quiet, Quiet
    <2> QED
      BY <2>2 DEF Promise!Next
  <1>3. ASSUME NEW n \in Nodes, NEW t \in TokensOf[n], Observe(n, t)
        PROVE  Promise!Next
    <2>1. t # NoToken
      BY TokenAssumption
    <2>2. {m \in Nodes : observing'[m] # NoToken}
              = {m \in Nodes : observing[m] # NoToken} \cup {n}
      BY <1>1, <1>3, <2>1 DEF Observe
    <2>3. Promise!Start(n)
      BY <1>3, <2>2 DEF Promise!Start, Promise!Quiet, Quiet, Observe
    <2> QED
      BY <2>3 DEF Promise!Next
  <1>4. ASSUME NEW n \in Nodes, Cancel(n) \/ Remove(n) \/ WriteAttributes(n) \/ Create(n)
        PROVE  Promise!Next
    <2>1. /\ Quiet /\ observation_handler' \in BOOLEAN
          /\ \A m \in Nodes : observing'[m] # NoToken => observing[m] # NoToken
      BY <1>1, <1>4 DEF Cancel, Remove, WriteAttributes, Create
    <2> QED
      BY <1>2, <2>1
  <1>5. ASSUME NEW t \in Tokens, Reset(t)
        PROVE  Promise!Next
    BY <1>1, <1>2, <1>5 DEF Reset
  <1>6. ASSUME NEW i \in Instances, NEW accepted \in BOOLEAN, NEW S \in Payloads(i),
               PostObject(i, S, accepted) \/ PostInstance(i, S, accepted)
                   \/ PostUnlisted(i, S, accepted)
        PROVE  Promise!Next
    <2>1. /\ Quiet /\ observation_handler' \in BOOLEAN /\ observing' = observing
      BY <1>1, <1>6 DEF PostObject, PostInstance, PostUnlisted
    <2> QED
      BY <1>2, <2>1
  <1>7. CASE Register
    BY <1>1, <1>2, <1>7 DEF Register
  <1>8. CASE UNCHANGED vars
    BY <1>8 DEF vars, Promise!vars
  <1> QED
    BY <1>4, <1>3, <1>5, <1>6, <1>7, <1>8, ChangePromised
       DEF Next, Server, Application

\* Where tokens are not shared and no resource instance is observable on its own,
\* the tree keeps the promise of Observation: every change of a value, on a tree of any
\* shape, tells exactly those observers of the node and of its parents that the promise
\* names, as long as the observation handler is set.
THEOREM ObservationIsImplemented ==
    ASSUME DistinctTokens, PlainInstances
    PROVE  Spec => ImplementsObservation
  <1>1. Init => TellInv
    <2> SUFFICES ASSUME Init PROVE TellInv
      OBVIOUS
    <2>1. /\ \A n \in Nodes : ~report[n].exists /\ ~report[n].observed /\ observing[n] = NoToken
          /\ ResourceInstances \subseteq Nodes
      BY Parents DEF Init, NoReport
    <2> QED
      BY <2>1, InitAgrees DEF TellInv, InstancesArePlain
  <1>2. TellInv /\ [Next]_vars => TellInv'
    BY TellKept
  <1>3. Init => Promise!Init
    BY DEF Init, Promise!Init
  <1>4. TellInv /\ [Next]_vars => [Promise!Next]_(Promise!vars)
    BY NextPromise
  <1> QED
    BY <1>1, <1>2, <1>3, <1>4, PTL DEF Spec, ImplementsObservation, Promise!Spec
=============================================================================
