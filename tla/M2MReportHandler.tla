-------------------------- MODULE M2MReportHandler --------------------------
(***************************************************************************)
(* The notifications of one observed node: class M2MReportHandler          *)
(* (source/m2mreporthandler.cpp) with the calls that reach it from the     *)
(* node: a new value, a changed instance, an observation started or        *)
(* ended, attributes written, a timer.  Each runs to completion and is one *)
(* action; inside it the methods are operators from handlers to handlers   *)
(* applied in the order of the calls.                                      *)
(*                                                                         *)
(* A numeric resource calls set_value(); a string resource, an object or   *)
(* an object instance calls set_notification_trigger().  Numbers are       *)
(* integers.  Time passes in ticks of one second; a timer is served in the *)
(* second it is due.                                                       *)
(***************************************************************************)
EXTENDS Integers, FiniteSets

CONSTANTS
    Numeric,    \* the node is a numeric resource
    Values,     \* the values a numeric resource takes
    Ids,        \* the instances that may change, or {0}
    Options,    \* attribute -> the values the server writes to it
    MaxOptions, \* attributes in one query (the code reads five)
    Server,     \* what else the server does: see ServerHabits
    HORIZON     \* elapsed time is counted up to this bound

Periods == {"pmin", "pmax"}
Thresholds == {"lt", "gt", "st"}
AttributeNames == Periods \cup Thresholds

\* It renews an observation it has, cancels one by answering a notification with a
\* RESET, or writes a query with an option the node does not know.
ServerHabits == {"renews", "resets", "misspells"}

ASSUME OptionsAssumption ==
    /\ Numeric \in BOOLEAN
    /\ Values \subseteq Int
    /\ Ids \subseteq Nat
    /\ 0 \in Ids
    /\ DOMAIN Options \subseteq IF Numeric THEN AttributeNames ELSE Periods
    /\ \A a \in DOMAIN Options : Options[a] \subseteq Int
    /\ "pmin" \in DOMAIN Options => Options["pmin"] \subseteq Nat
    /\ "st" \in DOMAIN Options => Options["st"] \subseteq Nat
    /\ MaxOptions \in Nat
    /\ Server \subseteq ServerHabits
    /\ HORIZON \in Nat
    /\ \A a \in Periods \cap DOMAIN Options : \A v \in Options[a] : v < HORIZON

\* A timer that is not running; a running one holds the seconds it has left.
OFF == -1

VARIABLES
    handler,    \* the members of M2MReportHandler
    value,      \* the value of the resource
    server,     \* history: the value the server was last sent
    owed,       \* history: changes the server has yet to be told of
    elapsed     \* history: seconds since the last notification, the start of the
                \* observation or the last accepted write of attributes

vars == <<handler, value, server, owed, elapsed>>

\* A query: some attributes, each with a value the server may give it.
Queries ==
    LET Of(S) == {q \in [S -> UNION {Options[a] : a \in S}] : \A a \in S : q[a] \in Options[a]}
    IN UNION {Of(S) : S \in {T \in SUBSET DOMAIN Options : T # {} /\ Cardinality(T) <= MaxOptions}}

NewHandler ==
    [observed |-> FALSE, attributes |-> {},
     pmin |-> 1, pmax |-> -1, gt |-> 0, lt |-> 0, st |-> 0,
     high_step |-> 0, low_step |-> 0,
     notify |-> FALSE, pmin_exceeded |-> FALSE, pmax_exceeded |-> FALSE,
     pmin_timer |-> OFF, pmax_timer |-> OFF,
     current |-> 0, last |-> -1, changed |-> {},
     sent |-> "none", carried |-> {}]

-----------------------------------------------------------------------------
(* Timers and reports.                                                     *)

Has(h, a) == a \in h.attributes

StopTimers(h) ==
    [h EXCEPT !.pmin_exceeded = FALSE, !.pmin_timer = OFF,
              !.pmax_exceeded = FALSE, !.pmax_timer = OFF]

\* Mutants of HandleTimers: milliseconds taken for seconds; a minimum that stays
\* exceeded.
HandleTimers_Milliseconds(h) ==
    [h EXCEPT !.pmin_exceeded = IF Has(h, "pmin") THEN h.pmin = h.pmax ELSE @,
              !.pmin_timer = IF Has(h, "pmin") /\ h.pmin # h.pmax THEN 1000 * h.pmin ELSE @,
              !.pmax_timer = IF Has(h, "pmax") /\ h.pmax > 0 THEN 1000 * h.pmax ELSE @]
HandleTimers_KeepsExceeded(h) ==
    [h EXCEPT !.pmin_timer = IF Has(h, "pmin") /\ h.pmin # h.pmax THEN h.pmin ELSE @,
              !.pmax_timer = IF Has(h, "pmax") /\ h.pmax > 0 THEN h.pmax ELSE @]

\* Equal periods need no minimum: it counts as exceeded at once.
HandleTimers(h) ==
    [h EXCEPT !.pmin_exceeded = IF Has(h, "pmin") THEN h.pmin = h.pmax ELSE @,
              !.pmin_timer = IF Has(h, "pmin") /\ h.pmin # h.pmax THEN h.pmin ELSE @,
              !.pmax_timer = IF Has(h, "pmax") /\ h.pmax > 0 THEN h.pmax ELSE @]

SendChange(h) ==
    [h EXCEPT !.pmin_exceeded = FALSE, !.pmax_exceeded = FALSE, !.notify = FALSE,
              !.sent = "change", !.carried = h.changed, !.changed = {}, !.pmax_timer = OFF]

SendPeriod(h) == [h EXCEPT !.sent = "period", !.carried = h.changed, !.changed = {}]

\* Mutants of Report: the maximum timer stopped after it was started; the timers
\* started only after a change.
Report_StopsLast(h) ==
    LET reported == IF h.current # h.last /\ h.notify THEN SendChange(h)
                    ELSE IF h.pmax_exceeded THEN SendPeriod(h)
                    ELSE h
    IN [HandleTimers(reported) EXCEPT !.last = h.current,
            !.pmax_timer = IF reported.sent = "change" THEN OFF ELSE @]
Report_StartsAfterChange(h) ==
    LET reported == IF h.current # h.last /\ h.notify THEN HandleTimers(SendChange(h))
                    ELSE IF h.pmax_exceeded THEN SendPeriod(h)
                    ELSE h
    IN [reported EXCEPT !.last = h.current]

Report(h) ==
    LET reported == IF h.current # h.last /\ h.notify THEN SendChange(h)
                    ELSE IF h.pmax_exceeded THEN SendPeriod(h)
                    ELSE h
    IN [HandleTimers(reported) EXCEPT !.last = h.current]

ScheduleReport(h) ==
    LET pending == [h EXCEPT !.notify = TRUE]
    IN IF ~Has(h, "pmin") \/ h.pmin_exceeded THEN Report(pending) ELSE pending

-----------------------------------------------------------------------------
(* New values.                                                             *)

CheckGtLtParams(h) ==
    \/ h.attributes \cap {"lt", "gt"} = {}
    \/ Has(h, "gt") /\ h.current > h.gt
    \/ Has(h, "lt") /\ h.current < h.lt

\* A mutant: a step of exactly st does not count.
CheckThresholdValues_Strict(h) ==
    IF Has(h, "st")
    THEN \/ h.current > h.high_step
         \/ h.current < h.low_step
         \/ h.attributes \cap {"lt", "gt"} # {} /\ CheckGtLtParams(h)
    ELSE CheckGtLtParams(h)

CheckThresholdValues(h) ==
    IF Has(h, "st")
    THEN \/ h.current >= h.high_step
         \/ h.current <= h.low_step
         \/ h.attributes \cap {"lt", "gt"} # {} /\ CheckGtLtParams(h)
    ELSE CheckGtLtParams(h)

OutOfRange(h) ==
    LET ignored == [h EXCEPT !.notify = FALSE, !.last = h.current]
    IN IF h.attributes \cap Thresholds # {}
       THEN [ignored EXCEPT !.pmin_timer = OFF, !.pmin_exceeded = TRUE]
       ELSE ignored

HandlerSetValue(h, v) ==
    LET new == [h EXCEPT !.current = v]
        decided == IF CheckThresholdValues(new) THEN ScheduleReport(new) ELSE OutOfRange(new)
    IN IF v = h.last THEN new
       ELSE [decided EXCEPT !.high_step = v + h.st, !.low_step = v - h.st]

\* A mutant: the trigger leaves the last value alone.
SetNotificationTrigger_KeepsLast(h, id) ==
    ScheduleReport([h EXCEPT !.changed = @ \cup {id}, !.current = 0])

SetNotificationTrigger(h, id) ==
    ScheduleReport([h EXCEPT !.changed = @ \cup {id}, !.current = 0, !.last = 1])

-----------------------------------------------------------------------------
(* Observation and attributes.                                             *)

\* All as in a new handler but the pending flag, the current value and, here, the
\* timers.
SetDefaultValues(h) ==
    [NewHandler EXCEPT !.observed = h.observed, !.notify = h.notify, !.current = h.current,
                       !.pmin_timer = h.pmin_timer, !.pmax_timer = h.pmax_timer,
                       !.sent = h.sent, !.carried = h.carried]

\* A mutant: an observation starts without its timers.
SetUnderObservation_NoTimers(h, observed) ==
    LET stopped == [StopTimers(h) EXCEPT !.observed = observed]
    IN IF observed THEN stopped ELSE SetDefaultValues(stopped)

SetUnderObservation(h, observed) ==
    LET stopped == [StopTimers(h) EXCEPT !.observed = observed]
    IN IF observed THEN HandleTimers(stopped) ELSE SetDefaultValues(stopped)

\* All the options of a query, when each of them can be parsed.
Written(h, q) ==
    LET In(a, old) == IF a \in DOMAIN q THEN q[a] ELSE old
        set == [h EXCEPT !.attributes = @ \cup DOMAIN q,
                         !.pmin = In("pmin", @), !.pmax = In("pmax", @),
                         !.gt = In("gt", @), !.lt = In("lt", @), !.st = In("st", @)]
    IN IF "st" \in DOMAIN q
       THEN [set EXCEPT !.high_step = h.current + q["st"], !.low_step = h.current - q["st"]]
       ELSE set

\* A mutant: the step counted once.
CheckAttributeValidity_OneStep(h) ==
    /\ ~(Has(h, "pmax") /\ h.pmax >= -1 /\ h.pmin > h.pmax)
    /\ ~(Has(h, "gt") /\ h.lt + h.st >= h.gt)

CheckAttributeValidity(h) ==
    /\ ~(Has(h, "pmax") /\ h.pmax >= -1 /\ h.pmin > h.pmax)
    /\ ~(Has(h, "gt") /\ h.lt + 2 * h.st >= h.gt)

\* Mutants of HandleObservationAttribute: what was refused stays; what was set
\* before is dropped first.
HandleObservationAttribute_KeepsRefused(h, q) ==
    LET written == Written(h, q)
    IN IF h.observed /\ CheckAttributeValidity(written)
       THEN SetUnderObservation(written, TRUE)
       ELSE written
HandleObservationAttribute_Resets(h, q) ==
    LET written == Written(SetDefaultValues(h), q)
    IN IF ~CheckAttributeValidity(written) THEN SetDefaultValues(written)
       ELSE IF h.observed THEN SetUnderObservation(written, TRUE)
       ELSE written

\* Whether the option or the combination is refused, the caller falls back to the
\* defaults: what parse_notification_attribute() restores does not survive.
HandleObservationAttribute(h, q) ==
    LET written == Written(h, q)
    IN IF ~CheckAttributeValidity(written) THEN SetDefaultValues(written)
       ELSE IF h.observed THEN SetUnderObservation(written, TRUE)
       ELSE written

-----------------------------------------------------------------------------
(* Actions.                                                                *)

Init ==
    /\ handler = NewHandler
    /\ value \in IF Numeric THEN Values ELSE {0}
    /\ server = value
    /\ owed = {}
    /\ elapsed = 0

\* The handler at the start of a step, before it has sent anything.
Now == [handler EXCEPT !.sent = "none", !.carried = {}]

\* The node and its history after a step that leaves the handler as h, when the
\* changes in due were to be told: a periodic notification tells everything, one of
\* a change the value or the instances it carries.
Reports(h, due) ==
    /\ handler' = h
    /\ elapsed' = IF h.sent = "none" THEN elapsed ELSE 0
    /\ server' = IF h.sent = "none" THEN server ELSE value'
    /\ owed' = IF h.sent = "none" THEN due
               ELSE IF h.sent = "period" \/ Numeric THEN {}
               ELSE due \ h.carried

\* M2MResourceBase::set_value(): only a changed value reaches an observed handler.
\* A value decided by thresholds is not owed, nor one the server has.
SetValue(v) ==
    LET due == IF handler.attributes \cap Thresholds # {} THEN owed
               ELSE IF v = server THEN {} ELSE {0}
    IN /\ Numeric
       /\ v # value
       /\ value' = v
       /\ IF handler.observed THEN Reports(HandlerSetValue(Now, v), due) ELSE Reports(Now, owed)

\* A resource below the node changes (notification_update()), or a string resource.
Change(id) ==
    /\ ~Numeric
    /\ handler.observed
    /\ UNCHANGED value
    /\ Reports(SetNotificationTrigger(Now, id), owed \cup {id})

\* GET with observe 0; the response carries the value.
Observe ==
    /\ handler.observed => "renews" \in Server
    /\ handler' = SetUnderObservation(Now, TRUE)
    /\ server' = value
    /\ owed' = {}
    /\ elapsed' = 0
    /\ UNCHANGED value

\* GET with observe 1: set_under_observation(false, NULL) deletes the handler, and
\* the next observation or write creates a new one.
Cancel ==
    /\ handler' = NewHandler
    /\ owed' = {}
    /\ UNCHANGED <<value, server, elapsed>>

\* A RESET answers a notification: set_under_observation(false, this) keeps it.
Reset ==
    /\ "resets" \in Server
    /\ handler.observed
    /\ handler' = SetUnderObservation(Now, FALSE)
    /\ owed' = {}
    /\ UNCHANGED <<value, server, elapsed>>

WriteAttributes(q) ==
    LET accepted == CheckAttributeValidity(Written(Now, q))
    IN /\ handler' = HandleObservationAttribute(Now, q)
       /\ elapsed' = IF accepted /\ handler.observed THEN 0 ELSE elapsed
       /\ owed' = IF accepted /\ DOMAIN q \cap Thresholds # {} THEN {} ELSE owed
       /\ UNCHANGED <<value, server>>

\* A query with an option that cannot be parsed or is not for this node.
WriteMalformed ==
    /\ "misspells" \in Server
    /\ handler' = SetDefaultValues(Now)
    /\ UNCHANGED <<value, server, owed, elapsed>>

\* A mutant: the timer forgets what is pending.
PminExpired_IgnoresPending ==
    LET expired == [Now EXCEPT !.pmin_timer = OFF, !.pmin_exceeded = TRUE]
        reports == handler.pmin > 0 /\ ~Has(handler, "pmax")
    IN /\ handler.pmin_timer = 0
       /\ UNCHANGED value
       /\ Reports(IF reports THEN Report(expired) ELSE expired, owed)

PminExpired ==
    LET expired == [Now EXCEPT !.pmin_timer = OFF, !.pmin_exceeded = TRUE]
        reports == handler.notify \/ (handler.pmin > 0 /\ ~Has(handler, "pmax"))
    IN /\ handler.pmin_timer = 0
       /\ UNCHANGED value
       /\ Reports(IF reports THEN Report(expired) ELSE expired, owed)

PmaxExpired ==
    LET expired == [Now EXCEPT !.pmax_timer = OFF, !.pmax_exceeded = TRUE]
        reports == handler.pmin_exceeded \/ ~Has(handler, "pmin")
    IN /\ handler.pmax_timer = 0
       /\ UNCHANGED value
       /\ Reports(IF reports THEN Report(expired) ELSE expired, owed)

\* A second passes once every timer due has been served.
Tick ==
    LET Left(timer) == IF timer = OFF THEN OFF ELSE timer - 1
    IN /\ handler.pmin_timer # 0
       /\ handler.pmax_timer # 0
       /\ handler' = [Now EXCEPT !.pmin_timer = Left(@), !.pmax_timer = Left(@)]
       /\ elapsed' = IF elapsed < HORIZON THEN elapsed + 1 ELSE elapsed
       /\ UNCHANGED <<value, server, owed>>

Next ==
    \/ \E v \in Values : SetValue(v)
    \/ \E id \in Ids : Change(id)
    \/ Observe
    \/ Cancel
    \/ Reset
    \/ \E q \in Queries : WriteAttributes(q)
    \/ WriteMalformed
    \/ PminExpired
    \/ PmaxExpired
    \/ Tick

Spec == Init /\ [][Next]_vars

\* Time passes and timers that are due are served.
FairSpec == Spec /\ WF_vars(Tick) /\ WF_vars(PminExpired) /\ WF_vars(PmaxExpired)

-----------------------------------------------------------------------------
(* Properties.                                                             *)

Timers == OFF .. HORIZON

Handlers ==
    [observed : BOOLEAN, attributes : SUBSET DOMAIN Options,
     pmin : Nat, pmax : Int, gt : Int, lt : Int, st : Nat,
     high_step : Int, low_step : Int,
     notify : BOOLEAN, pmin_exceeded : BOOLEAN, pmax_exceeded : BOOLEAN,
     pmin_timer : Timers, pmax_timer : Timers,
     current : Int, last : Int, changed : SUBSET Ids,
     sent : {"none", "change", "period"}, carried : SUBSET Ids]

TypeOK ==
    /\ handler \in Handlers
    /\ value \in Int
    /\ server \in Int
    /\ owed \subseteq Ids
    /\ elapsed \in 0 .. HORIZON

\* Attributes are written one query at a time and only the result is checked: what
\* is in force always passes check_attribute_validity().
AttributesAreValid ==
    /\ Has(handler, "pmax") /\ handler.pmax >= -1 => handler.pmin <= handler.pmax
    /\ Has(handler, "gt") => handler.lt + 2 * handler.st < handler.gt

\* docs/info_reporting.md:3: when the resource changes, the server is notified.  A
\* change not yet told is still pending in the handler and a timer will send it.
ChangeIsPending ==
    owed # {} => /\ handler.notify
                 /\ handler.current # handler.last
                 /\ {handler.pmin_timer, handler.pmax_timer} # {OFF}

\* The instances a notification of an object has to carry are not forgotten.
ChangedAreCarried == ~Numeric => owed \subseteq handler.changed

\* While a maximum period is set its timer is running, so the next periodic
\* notification is always on its way.
HeartbeatIsArmed ==
    handler.observed /\ Has(handler, "pmax") /\ handler.pmax > 0 => handler.pmax_timer # OFF

\* With a maximum period, the server hears of the node that often: no notification,
\* timer or new value may start the period anew without telling it (report(),
\* timer_expired(), handle_timers()). A change that waits for the minimum period is
\* excepted: taken back, it leaves the flag, and the minimum timer restarts both.
MaximumPeriod ==
    /\ handler.observed /\ Has(handler, "pmax") /\ handler.pmax > 0
    /\ ~(Has(handler, "pmin") /\ handler.notify)
    => elapsed <= handler.pmax

\* With a minimum period, notifications are that far apart.
MinimumPeriod ==
    [][handler'.sent # "none" /\ Has(handler, "pmin") => elapsed >= handler.pmin]_vars

\* What the thresholds ask: a step of st since the previous value, or a value
\* beyond gt or lt; with no threshold, any change.
Meets(h, old, new) ==
    \/ h.attributes \cap Thresholds = {}
    \/ Has(h, "st") /\ (new - old >= h.st \/ old - new >= h.st)
    \/ Has(h, "gt") /\ new > h.gt
    \/ Has(h, "lt") /\ new < h.lt

\* set_value() decides by limits computed when the previous value was set or the
\* step written; without a minimum period a change is sent at once if and only if
\* it meets the thresholds in force.
ThresholdsDecide ==
    [][value' # value /\ handler.observed /\ ~Has(handler, "pmin") /\ handler.current = value
       => (handler'.sent = "change" <=> Meets(handler, value, value'))]_vars

\* A change is told in the end, unless the server keeps restarting the timers.
Restart == Observe \/ \E q \in Queries : WriteAttributes(q)
ChangeIsTold == (owed # {} ~> owed = {}) \/ []<><<Restart>>_vars
=============================================================================
