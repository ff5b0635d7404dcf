----------------------- MODULE M2MReportHandler_proofs -----------------------
(***************************************************************************)
(* Theorems about M2MReportHandler, for every set of values, instances and *)
(* attributes the server may write.                                        *)
(***************************************************************************)
EXTENDS M2MReportHandler, TLAPS

-----------------------------------------------------------------------------
(* What every step keeps of the handler.                                   *)

\* The periods in force are ones the server wrote; without a maximum, the default.
PeriodsWritten(h) ==
    /\ Has(h, "pmin") => h.pmin \in Options["pmin"]
    /\ IF Has(h, "pmax") THEN h.pmax \in Options["pmax"] ELSE h.pmax = -1

Sound(h) ==
    /\ h \in Handlers
    /\ PeriodsWritten(h)
    /\ CheckAttributeValidity(h)

\* The maximum timer runs; and until the minimum is exceeded its timer runs too and
\* is due first, so that the maximum timer never expires in vain.
Armed(h) ==
    h.observed /\ Has(h, "pmax") /\ h.pmax > 0 =>
        /\ h.pmax_timer # OFF
        /\ Has(h, "pmin") /\ ~h.pmin_exceeded =>
               h.pmin_timer # OFF /\ h.pmin_timer < h.pmax_timer

\* A period in force is short enough for the timers.
LEMMA PeriodsFit ==
    ASSUME NEW h, Sound(h)
    PROVE  /\ Has(h, "pmin") => h.pmin \in 0 .. HORIZON
           /\ Has(h, "pmax") => h.pmax \in Int /\ h.pmax < HORIZON
           /\ Has(h, "pmax") /\ h.pmax > 0 => h.pmax \in 0 .. HORIZON
  BY OptionsAssumption DEF Sound, PeriodsWritten, Handlers, Has, Periods

LEMMA NoTimer == OFF \in Timers /\ OFF # 0
  BY OptionsAssumption DEF Timers, OFF

LEMMA StopTimersSound ==
    ASSUME NEW h, Sound(h)
    PROVE  Sound(StopTimers(h))
  <1>1. StopTimers(h) \in Handlers
    BY NoTimer DEF Sound, Handlers, StopTimers
  <1>2. PeriodsWritten(StopTimers(h)) /\ CheckAttributeValidity(StopTimers(h))
    BY DEF Sound, PeriodsWritten, Handlers, Has, StopTimers, CheckAttributeValidity
  <1> QED
    BY <1>1, <1>2 DEF Sound

LEMMA HandleTimersSound ==
    ASSUME NEW h, Sound(h)
    PROVE  /\ Sound(HandleTimers(h))
           /\ Armed(HandleTimers(h))
  <1> DEFINE t == HandleTimers(h)
  <1>1. /\ Has(h, "pmin") => h.pmin \in Timers
        /\ Has(h, "pmax") /\ h.pmax > 0 => h.pmax \in Timers
    BY PeriodsFit, OptionsAssumption DEF Timers, OFF
  <1>2. t \in Handlers
    BY <1>1 DEF Sound, Handlers, Has, HandleTimers
  <1>3. PeriodsWritten(t) /\ CheckAttributeValidity(t)
    BY DEF Sound, PeriodsWritten, Handlers, Has, HandleTimers, CheckAttributeValidity
  <1>4. Armed(t)
    BY PeriodsFit DEF Sound, Armed, Handlers, Has, HandleTimers, CheckAttributeValidity, OFF
  <1> QED
    BY <1>2, <1>3, <1>4 DEF Sound

LEMMA ReportedSound ==
    ASSUME NEW h, Sound(h)
    PROVE  Sound(SendChange(h)) /\ Sound(SendPeriod(h))
  <1>1. h.changed \in SUBSET Ids /\ {} \in SUBSET Ids
    BY DEF Sound, Handlers
  <1>2. SendChange(h) \in Handlers
    BY <1>1, NoTimer DEF Sound, Handlers, SendChange
  <1>3. PeriodsWritten(SendChange(h)) /\ CheckAttributeValidity(SendChange(h))
    BY DEF Sound, PeriodsWritten, Handlers, Has, SendChange, CheckAttributeValidity
  <1>4. Sound(SendPeriod(h))
    BY DEF Sound, PeriodsWritten, Handlers, Has, SendPeriod, CheckAttributeValidity
  <1> QED
    BY <1>2, <1>3, <1>4 DEF Sound

LEMMA ReportSound ==
    ASSUME NEW h, Sound(h)
    PROVE  Sound(Report(h)) /\ Armed(Report(h))
  <1> DEFINE reported == IF h.current # h.last /\ h.notify THEN SendChange(h)
                         ELSE IF h.pmax_exceeded THEN SendPeriod(h)
                         ELSE h
             t == HandleTimers(reported)
             r == [t EXCEPT !.last = h.current]
  <1>1. Sound(reported)
    BY ReportedSound
  <1>2. Sound(t) /\ Armed(t)
    BY <1>1, HandleTimersSound
  <1>3. h.current \in Int
    BY DEF Sound, Handlers
  <1> HIDE DEF t
  <1>4. Sound(r) /\ Armed(r)
    BY <1>2, <1>3 DEF Sound, Armed, PeriodsWritten, Handlers, Has, CheckAttributeValidity
  <1> QED
    BY <1>4 DEF Report, t

LEMMA ScheduleReportSound ==
    ASSUME NEW h, Sound(h), Armed(h)
    PROVE  Sound(ScheduleReport(h)) /\ Armed(ScheduleReport(h))
  <1> DEFINE pending == [h EXCEPT !.notify = TRUE]
  <1>1. Sound(pending) /\ Armed(pending)
    BY DEF Sound, Armed, PeriodsWritten, Handlers, Has, CheckAttributeValidity
  <1> HIDE DEF pending
  <1> QED
    BY <1>1, ReportSound DEF ScheduleReport, pending

LEMMA OutOfRangeSound ==
    ASSUME NEW h, Sound(h), Armed(h)
    PROVE  Sound(OutOfRange(h)) /\ Armed(OutOfRange(h))
  <1>1. OutOfRange(h) \in Handlers
    BY NoTimer DEF Sound, Handlers, OutOfRange
  <1>2. PeriodsWritten(OutOfRange(h)) /\ CheckAttributeValidity(OutOfRange(h))
    BY DEF Sound, PeriodsWritten, Handlers, Has, CheckAttributeValidity, OutOfRange
  <1>3. Armed(OutOfRange(h))
    BY DEF Sound, Armed, Handlers, Has, OutOfRange
  <1> QED
    BY <1>1, <1>2, <1>3 DEF Sound

LEMMA SetValueSound ==
    ASSUME NEW h, Sound(h), Armed(h), NEW v \in Int
    PROVE  Sound(HandlerSetValue(h, v)) /\ Armed(HandlerSetValue(h, v))
  <1> DEFINE new == [h EXCEPT !.current = v]
             decided == IF CheckThresholdValues(new) THEN ScheduleReport(new) ELSE OutOfRange(new)
             stepped == [decided EXCEPT !.high_step = v + h.st, !.low_step = v - h.st]
  <1>1. Sound(new) /\ Armed(new)
    BY DEF Sound, Armed, PeriodsWritten, Handlers, Has, CheckAttributeValidity
  <1> HIDE DEF new
  <1>2. Sound(decided) /\ Armed(decided)
    BY <1>1, ScheduleReportSound, OutOfRangeSound
  <1>3. v + h.st \in Int /\ v - h.st \in Int
    BY DEF Sound, Handlers
  <1> HIDE DEF decided
  <1>4. Sound(stepped) /\ Armed(stepped)
    BY <1>2, <1>3 DEF Sound, Armed, PeriodsWritten, Handlers, Has, CheckAttributeValidity
  <1> QED
    BY <1>1, <1>4 DEF HandlerSetValue, new, decided

LEMMA TriggeredSound ==
    ASSUME NEW h, Sound(h), NEW id \in Ids
    PROVE  LET triggered == [h EXCEPT !.changed = @ \cup {id}, !.current = 0, !.last = 1]
           IN Sound(triggered) /\ (Armed(h) => Armed(triggered))
  <1> DEFINE ids == h.changed \cup {id}
             marked == [h EXCEPT !.changed = ids]
             zeroed == [marked EXCEPT !.current = 0]
             triggered == [zeroed EXCEPT !.last = 1]
  <1>1. ids \in SUBSET Ids
    BY DEF Sound, Handlers
  <1> HIDE DEF ids
  <1>2. Sound(marked) /\ (Armed(h) => Armed(marked))
    <2>1. marked \in Handlers
      BY <1>1 DEF Sound, Handlers
    <2> QED
      BY <2>1 DEF Sound, Armed, PeriodsWritten, Handlers, Has, CheckAttributeValidity
  <1> HIDE DEF marked
  <1>3. Sound(zeroed) /\ (Armed(h) => Armed(zeroed))
    BY <1>2 DEF Sound, Armed, PeriodsWritten, Handlers, Has, CheckAttributeValidity
  <1> HIDE DEF zeroed
  <1>4. Sound(triggered) /\ (Armed(h) => Armed(triggered))
    BY <1>3 DEF Sound, Armed, PeriodsWritten, Handlers, Has, CheckAttributeValidity
  <1> QED
    BY <1>4 DEF ids, marked, zeroed

LEMMA SetNotificationTriggerSound ==
    ASSUME NEW h, Sound(h), Armed(h), NEW id \in Ids
    PROVE  /\ Sound(SetNotificationTrigger(h, id))
           /\ Armed(SetNotificationTrigger(h, id))
  BY TriggeredSound, ScheduleReportSound DEF SetNotificationTrigger

LEMMA NewHandlerSound == Sound(NewHandler) /\ Armed(NewHandler)
  <1>1. NewHandler \in Handlers
    BY NoTimer DEF NewHandler, Handlers
  <1> QED
    BY <1>1 DEF Sound, Armed, PeriodsWritten, Has, CheckAttributeValidity, NewHandler

\* Whatever was written, the defaults are valid.
LEMMA SetDefaultValuesSound ==
    ASSUME NEW h \in Handlers
    PROVE  Sound(SetDefaultValues(h)) /\ Armed(SetDefaultValues(h))
  <1>1. SetDefaultValues(h) \in Handlers
    BY NewHandlerSound DEF Sound, Handlers, SetDefaultValues
  <1>2. SetDefaultValues(h).attributes = {} /\ SetDefaultValues(h).pmax = -1
    BY DEF SetDefaultValues, NewHandler
  <1> QED
    BY <1>1, <1>2 DEF Sound, Armed, PeriodsWritten, Has, CheckAttributeValidity

LEMMA SetUnderObservationSound ==
    ASSUME NEW h, Sound(h), NEW observed \in BOOLEAN
    PROVE  /\ Sound(SetUnderObservation(h, observed))
           /\ Armed(SetUnderObservation(h, observed))
  <1> DEFINE s == StopTimers(h)
             stopped == [s EXCEPT !.observed = observed]
  <1>1. Sound(s)
    BY StopTimersSound
  <1> HIDE DEF s
  <1>2. Sound(stopped)
    BY <1>1 DEF Sound, PeriodsWritten, Handlers, Has, CheckAttributeValidity
  <1> HIDE DEF stopped
  <1>3. stopped \in Handlers
    BY <1>2 DEF Sound
  <1> QED
    BY <1>2, <1>3, HandleTimersSound, SetDefaultValuesSound DEF SetUnderObservation, s, stopped

LEMMA QueryTyped ==
    ASSUME NEW q \in Queries
    PROVE  /\ DOMAIN q \subseteq DOMAIN Options
           /\ \A a \in DOMAIN q : q[a] \in Options[a]
  BY DEF Queries

LEMMA WrittenTyped ==
    ASSUME NEW h, Sound(h), NEW q \in Queries
    PROVE  Written(h, q) \in Handlers /\ PeriodsWritten(Written(h, q))
  <1> DEFINE In(a, old) == IF a \in DOMAIN q THEN q[a] ELSE old
             attributes == h.attributes \cup DOMAIN q
             pmin == In("pmin", h.pmin)
             pmax == In("pmax", h.pmax)
             gt == In("gt", h.gt)
             lt == In("lt", h.lt)
             st == In("st", h.st)
             set == [h EXCEPT !.attributes = attributes, !.pmin = pmin, !.pmax = pmax,
                              !.gt = gt, !.lt = lt, !.st = st]
             high == h.current + q["st"]
             low == h.current - q["st"]
             stepped == [set EXCEPT !.high_step = high, !.low_step = low]
  <1>1. /\ attributes \in SUBSET DOMAIN Options
        /\ pmin \in Nat /\ pmax \in Int /\ gt \in Int /\ lt \in Int /\ st \in Nat
    <2>1. /\ h.attributes \in SUBSET DOMAIN Options
          /\ h.pmin \in Nat /\ h.pmax \in Int /\ h.gt \in Int /\ h.lt \in Int /\ h.st \in Nat
      BY DEF Sound, Handlers
    <2>2. /\ \A a \in DOMAIN q : q[a] \in Int
          /\ "pmin" \in DOMAIN q => q["pmin"] \in Nat
          /\ "st" \in DOMAIN q => q["st"] \in Nat
      BY QueryTyped, OptionsAssumption
    <2> QED
      BY <2>1, <2>2, QueryTyped
  <1>2. /\ "pmin" \in attributes => pmin \in Options["pmin"]
        /\ IF "pmax" \in attributes THEN pmax \in Options["pmax"] ELSE pmax = -1
    BY QueryTyped DEF Sound, PeriodsWritten, Has
  <1>3. "st" \in DOMAIN q => high \in Int /\ low \in Int
    <2>1. h.current \in Int
      BY DEF Sound, Handlers
    <2> QED
      BY <2>1, QueryTyped, OptionsAssumption
  <1>4. Written(h, q) = IF "st" \in DOMAIN q THEN stepped ELSE set
    BY DEF Written
  <1> HIDE DEF attributes, pmin, pmax, gt, lt, st, high, low
  <1>5. set \in Handlers
    BY <1>1 DEF Sound, Handlers
  <1>6. set.attributes = attributes /\ set.pmin = pmin /\ set.pmax = pmax
    BY DEF Sound, Handlers
  <1> HIDE DEF set
  <1>7. "st" \in DOMAIN q => /\ stepped \in Handlers
                             /\ stepped.attributes = attributes
                             /\ stepped.pmin = pmin /\ stepped.pmax = pmax
    BY <1>3, <1>5, <1>6 DEF Handlers
  <1> HIDE DEF stepped
  <1> QED
    BY <1>2, <1>4, <1>5, <1>6, <1>7 DEF PeriodsWritten, Has

LEMMA HandleObservationAttributeSound ==
    ASSUME NEW h, Sound(h), NEW q \in Queries
    PROVE  /\ Sound(HandleObservationAttribute(h, q))
           /\ Armed(HandleObservationAttribute(h, q))
  <1> DEFINE written == Written(h, q)
  <1>1. written \in Handlers /\ PeriodsWritten(written)
    BY WrittenTyped
  <1>2. written.observed = h.observed
    BY DEF Written, Sound, Handlers
  <1> HIDE DEF written
  <1>3. CASE ~CheckAttributeValidity(written)
    BY <1>1, <1>3, SetDefaultValuesSound DEF HandleObservationAttribute, written
  <1>4. CASE CheckAttributeValidity(written)
    <2>1. Sound(written)
      BY <1>1, <1>4 DEF Sound
    <2>2. ~h.observed => Armed(written)
      BY <1>2 DEF Armed
    <2>3. CASE h.observed
      BY <1>4, <2>1, <2>3, SetUnderObservationSound DEF HandleObservationAttribute, written
    <2>4. CASE ~h.observed
      BY <1>4, <2>1, <2>2, <2>4 DEF HandleObservationAttribute, written
    <2> QED
      BY <2>3, <2>4
  <1> QED
    BY <1>3, <1>4

-----------------------------------------------------------------------------
(* Types, valid attributes and the heartbeat.                              *)

\* The inductive invariant of the first three theorems.
HandlerInv ==
    /\ TypeOK
    /\ Sound(handler)
    /\ Armed(handler)

LEMMA NowSound ==
    ASSUME HandlerInv
    PROVE  /\ Sound(Now) /\ Armed(Now)
           /\ Now.observed = handler.observed
           /\ Now.attributes = handler.attributes
           /\ Now.pmin_exceeded = handler.pmin_exceeded
           /\ Now.sent = "none"
  <1>1. Now \in Handlers
    BY DEF HandlerInv, TypeOK, Now, Handlers
  <1> QED
    BY <1>1 DEF HandlerInv, Sound, Armed, PeriodsWritten, Handlers, Has, CheckAttributeValidity, Now

\* Expiries: the minimum is exceeded; the maximum timer is off, and reports.
LEMMA PminExpiredSound ==
    ASSUME HandlerInv, handler.pmin_timer = 0
    PROVE  LET expired == [Now EXCEPT !.pmin_timer = OFF, !.pmin_exceeded = TRUE]
           IN Sound(expired) /\ Armed(expired)
  <1> DEFINE expired == [Now EXCEPT !.pmin_timer = OFF, !.pmin_exceeded = TRUE]
  <1>1. expired \in Handlers
    BY NowSound, NoTimer DEF Sound, Handlers
  <1> QED
    BY <1>1, NowSound DEF Sound, Armed, PeriodsWritten, Handlers, Has, CheckAttributeValidity

LEMMA PmaxExpiredSound ==
    ASSUME HandlerInv, handler.pmax_timer = 0
    PROVE  LET expired == [Now EXCEPT !.pmax_timer = OFF, !.pmax_exceeded = TRUE]
               reports == handler.pmin_exceeded \/ ~Has(handler, "pmin")
           IN Sound(expired) /\ (~reports => Armed(expired))
  <1> DEFINE expired == [Now EXCEPT !.pmax_timer = OFF, !.pmax_exceeded = TRUE]
  <1>1. expired \in Handlers
    BY NowSound, NoTimer DEF Sound, Handlers
  <1>2. PeriodsWritten(expired) /\ CheckAttributeValidity(expired)
    BY NowSound DEF Sound, PeriodsWritten, Handlers, Has, CheckAttributeValidity
  <1>3. ASSUME ~handler.pmin_exceeded, Has(handler, "pmin")
        PROVE  Armed(expired)
    <2>1. ~(handler.observed /\ Has(handler, "pmax") /\ handler.pmax > 0)
      BY <1>3 DEF HandlerInv, Armed, Sound, Handlers, Timers, OFF
    <2> QED
      BY <2>1 DEF HandlerInv, Sound, Armed, Handlers, Has, Now
  <1> QED
    BY <1>1, <1>2, <1>3 DEF Sound

LEMMA TickSound ==
    ASSUME HandlerInv, Tick
    PROVE  Sound(handler') /\ Armed(handler')
  <1> DEFINE Left(timer) == IF timer = OFF THEN OFF ELSE timer - 1
             pmin_left == Left(Now.pmin_timer)
             pmax_left == Left(Now.pmax_timer)
             h == [Now EXCEPT !.pmin_timer = pmin_left, !.pmax_timer = pmax_left]
  <1>1. Now.pmin_timer = handler.pmin_timer /\ Now.pmax_timer = handler.pmax_timer
    BY DEF Now, HandlerInv, Sound, Handlers
  <1>2. /\ Now.pmin_timer \in Timers \ {0} /\ Now.pmax_timer \in Timers \ {0}
    BY <1>1 DEF Tick, HandlerInv, Sound, Handlers
  <1>3. /\ pmin_left \in Timers /\ pmax_left \in Timers
        /\ Now.pmax_timer # OFF => pmax_left # OFF
        /\ Now.pmin_timer # OFF => pmin_left # OFF
        /\ Now.pmin_timer # OFF /\ Now.pmax_timer # OFF /\ Now.pmin_timer < Now.pmax_timer
             => pmin_left < pmax_left
    BY <1>2, OptionsAssumption DEF Timers, OFF
  <1>4. handler' = h
    BY DEF Tick
  <1> HIDE DEF pmin_left, pmax_left
  <1>5. h \in Handlers
    BY <1>3, NowSound DEF Sound, Handlers
  <1>6. PeriodsWritten(h) /\ CheckAttributeValidity(h) /\ Armed(h)
    BY <1>3, NowSound DEF Sound, Armed, PeriodsWritten, Handlers, Has, CheckAttributeValidity
  <1> QED
    BY <1>4, <1>5, <1>6 DEF Sound

LEMMA InitSound == Init => HandlerInv
  <1> SUFFICES ASSUME Init PROVE HandlerInv
    OBVIOUS
  <1>1. value \in Int
    BY OptionsAssumption DEF Init
  <1>2. {} \subseteq Ids /\ 0 \in 0 .. HORIZON
    BY OptionsAssumption
  <1> QED
    BY <1>1, <1>2, NewHandlerSound DEF Init, HandlerInv, TypeOK, Sound

\* Reports() keeps the types of the history.
LEMMA ReportsTyped ==
    ASSUME HandlerInv, NEW h, Sound(h), Armed(h), NEW due \in SUBSET Ids,
           value' \in Int, Reports(h, due)
    PROVE  HandlerInv'
  <1>1. Sound(handler') /\ Armed(handler') /\ handler' \in Handlers
    BY DEF Reports, Sound
  <1>2. server' \in Int /\ owed' \in SUBSET Ids /\ elapsed' \in 0 .. HORIZON
    <2>1. owed' \in {due, {}, due \ h.carried}
      BY DEF Reports
    <2>2. server' \in {server, value'} /\ elapsed' \in {elapsed, 0}
      BY DEF Reports
    <2>3. {} \in SUBSET Ids /\ due \ h.carried \in SUBSET Ids
      OBVIOUS
    <2>4. 0 \in 0 .. HORIZON
      BY OptionsAssumption
    <2> QED
      BY <2>1, <2>2, <2>3, <2>4 DEF HandlerInv, TypeOK
  <1>3. HandlerInv' <=> /\ handler' \in Handlers /\ value' \in Int /\ server' \in Int
                        /\ owed' \subseteq Ids /\ elapsed' \in 0 .. HORIZON
                        /\ Sound(handler') /\ Armed(handler')
    BY DEF HandlerInv, TypeOK, Sound, Armed, Handlers, Has, PeriodsWritten, CheckAttributeValidity
  <1> QED
    BY <1>1, <1>2, <1>3

LEMMA HandlerInvKept == HandlerInv /\ [Next]_vars => HandlerInv'
  <1> SUFFICES ASSUME HandlerInv, [Next]_vars PROVE HandlerInv'
    OBVIOUS
  <1>1. /\ value \in Int /\ server \in Int /\ owed \in SUBSET Ids
        /\ elapsed \in 0 .. HORIZON /\ 0 \in 0 .. HORIZON
    BY OptionsAssumption DEF HandlerInv, TypeOK
  <1>2. HandlerInv' <=> /\ handler' \in Handlers /\ value' \in Int /\ server' \in Int
                        /\ owed' \subseteq Ids /\ elapsed' \in 0 .. HORIZON
                        /\ Sound(handler') /\ Armed(handler')
    BY DEF HandlerInv, TypeOK, Sound, Armed, Handlers, Has, PeriodsWritten, CheckAttributeValidity
  <1>3. ASSUME NEW v \in Values, SetValue(v) PROVE HandlerInv'
    <2> DEFINE due == IF handler.attributes \cap Thresholds # {} THEN owed
                      ELSE IF v = server THEN {} ELSE {0}
    <2>1. v \in Int /\ value' = v /\ due \in SUBSET Ids
      BY <1>1, <1>3, OptionsAssumption DEF SetValue
    <2>2. CASE handler.observed
      BY <1>3, <2>1, <2>2, NowSound, SetValueSound, ReportsTyped DEF SetValue
    <2>3. CASE ~handler.observed
      BY <1>1, <1>3, <2>1, <2>3, NowSound, ReportsTyped DEF SetValue
    <2> QED
      BY <2>2, <2>3
  <1>4. ASSUME NEW id \in Ids, Change(id) PROVE HandlerInv'
    <2>1. owed \cup {id} \in SUBSET Ids /\ value' \in Int
      BY <1>1, <1>4 DEF Change
    <2> QED
      BY <1>4, <2>1, NowSound, SetNotificationTriggerSound, ReportsTyped DEF Change
  <1>5. CASE Observe
    BY <1>1, <1>2, <1>5, NowSound, SetUnderObservationSound DEF Observe, Sound
  <1>6. CASE Cancel
    BY <1>1, <1>2, <1>6, NewHandlerSound DEF Cancel, Sound
  <1>7. CASE Reset
    BY <1>1, <1>2, <1>7, NowSound, SetUnderObservationSound DEF Reset, Sound
  <1>8. ASSUME NEW q \in Queries, WriteAttributes(q) PROVE HandlerInv'
    BY <1>1, <1>2, <1>8, NowSound, HandleObservationAttributeSound DEF WriteAttributes, Sound
  <1>9. CASE WriteMalformed
    BY <1>1, <1>2, <1>9, NowSound, SetDefaultValuesSound DEF WriteMalformed, Sound
  <1>10. CASE PminExpired
    <2> DEFINE expired == [Now EXCEPT !.pmin_timer = OFF, !.pmin_exceeded = TRUE]
               reports == handler.notify \/ (handler.pmin > 0 /\ ~Has(handler, "pmax"))
               h == IF reports THEN Report(expired) ELSE expired
    <2>1. handler.pmin_timer = 0 /\ value' = value /\ Reports(h, owed)
      BY <1>10 DEF PminExpired
    <2>2. Sound(expired) /\ Armed(expired)
      BY <2>1, PminExpiredSound
    <2> HIDE DEF expired, reports
    <2>3. Sound(h) /\ Armed(h)
      BY <2>2, ReportSound
    <2> QED
      BY <1>1, <2>1, <2>3, ReportsTyped
  <1>11. CASE PmaxExpired
    <2> DEFINE expired == [Now EXCEPT !.pmax_timer = OFF, !.pmax_exceeded = TRUE]
               reports == handler.pmin_exceeded \/ ~Has(handler, "pmin")
               h == IF reports THEN Report(expired) ELSE expired
    <2>1. handler.pmax_timer = 0 /\ value' = value /\ Reports(h, owed)
      BY <1>11 DEF PmaxExpired
    <2>2. Sound(expired) /\ (~reports => Armed(expired))
      BY <2>1, PmaxExpiredSound
    <2> HIDE DEF expired, reports
    <2>3. Sound(h) /\ Armed(h)
      BY <2>2, ReportSound
    <2> QED
      BY <1>1, <2>1, <2>3, ReportsTyped
  <1>12. CASE Tick
    BY <1>1, <1>2, <1>12, TickSound, OptionsAssumption DEF Tick, Sound
  <1>13. CASE UNCHANGED vars
    BY <1>1, <1>2, <1>13 DEF vars, HandlerInv, Sound
  <1> QED
    BY <1>3, <1>4, <1>5, <1>6, <1>7, <1>8, <1>9, <1>10, <1>11, <1>12, <1>13 DEF Next

THEOREM HandlerInvHolds == Spec => []HandlerInv
  BY InitSound, HandlerInvKept, PTL DEF Spec

\* Every member of a handler keeps a value its type allows and the attributes in
\* force fit the timers, whatever the server writes (m2mreporthandler.cpp:126).
THEOREM ReportHandlerTypes == Spec => []TypeOK
  <1>1. HandlerInv => TypeOK
    BY DEF HandlerInv
  <1> QED
    BY <1>1, HandlerInvHolds, PTL

\* check_attribute_validity() judges the result of every write and what it refuses
\* is dropped (m2mreporthandler.cpp:363, m2mresource.cpp:246).
THEOREM AttributesStayValid == Spec => []AttributesAreValid
  <1>1. HandlerInv => AttributesAreValid
    BY DEF HandlerInv, Sound, CheckAttributeValidity, AttributesAreValid, Handlers
  <1> QED
    BY <1>1, HandlerInvHolds, PTL

\* The maximum timer is single shot and restarted only by report(), which its expiry
\* does not always call (m2mreporthandler.cpp:213); still it never stays off.
THEOREM HeartbeatStaysArmed == Spec => []HeartbeatIsArmed
  <1>1. HandlerInv => HeartbeatIsArmed
    BY DEF HandlerInv, Armed, HeartbeatIsArmed
  <1> QED
    BY <1>1, HandlerInvHolds, PTL

-----------------------------------------------------------------------------
(* The maximum period is kept, but while a change waits for the minimum.   *)

\* No threshold can drop a change that waits for the minimum period.
PlainPeriods == "pmin" \notin DOMAIN Options \/ DOMAIN Options \cap Thresholds = {}

\* The elapsed time after a step that started with e and left the handler as h.
After(h, e) == IF h.sent = "none" THEN e ELSE 0

\* A maximum period is in force.
Timed(h) == h.observed /\ Has(h, "pmax") /\ h.pmax > 0

\* Then a minimum timer runs only for a minimum period in force.
Alone(h) == Timed(h) /\ ~Has(h, "pmin") => h.pmin_timer = OFF

\* The maximum timer is due before the period is over.
Beating(h, e) ==
    /\ Alone(h)
    /\ Timed(h) /\ ~(Has(h, "pmin") /\ h.notify) =>
           h.pmax_timer # OFF /\ e + h.pmax_timer <= h.pmax

LEMMA MinimumMeets ==
    ASSUME PlainPeriods, NEW h, Sound(h)
    PROVE  ~Has(h, "pmin") \/ CheckThresholdValues(h)
  <1>1. h.attributes \subseteq DOMAIN Options
    BY DEF Sound, Handlers
  <1>2. CASE "pmin" \notin DOMAIN Options
    BY <1>1, <1>2 DEF Has
  <1>3. CASE DOMAIN Options \cap Thresholds = {}
    <2>1. "st" \notin h.attributes /\ h.attributes \cap {"lt", "gt"} = {}
      BY <1>1, <1>3 DEF Thresholds
    <2> QED
      BY <2>1 DEF CheckThresholdValues, CheckGtLtParams, Has
  <1> QED
    BY <1>2, <1>3 DEF PlainPeriods

LEMMA HandleTimersBeats ==
    ASSUME NEW h, Sound(h), Alone(h)
    PROVE  Beating(HandleTimers(h), 0)
  BY PeriodsFit DEF Sound, Beating, Alone, Timed, HandleTimers, Handlers, Has, OFF

\* Neither a report nor its timers change what is in force.
LEMMA ReportKeeps ==
    ASSUME NEW h, Sound(h)
    PROVE  LET r == Report(h)
           IN  /\ r.observed = h.observed /\ r.attributes = h.attributes /\ r.pmax = h.pmax
               /\ ~(h.current # h.last /\ h.notify) /\ ~h.pmax_exceeded =>
                      r.notify = h.notify /\ r.sent = h.sent
  <1> DEFINE reported == IF h.current # h.last /\ h.notify THEN SendChange(h)
                         ELSE IF h.pmax_exceeded THEN SendPeriod(h)
                         ELSE h
             t == HandleTimers(reported)
  <1>1. /\ reported \in Handlers /\ reported.observed = h.observed
        /\ reported.attributes = h.attributes /\ reported.pmax = h.pmax
        /\ ~(h.current # h.last /\ h.notify) /\ ~h.pmax_exceeded => reported = h
    BY ReportedSound DEF Sound, Handlers, SendChange, SendPeriod
  <1> HIDE DEF reported
  <1>2. /\ t.observed = reported.observed /\ t.attributes = reported.attributes
        /\ t.pmax = reported.pmax /\ t.notify = reported.notify /\ t.sent = reported.sent
    BY <1>1 DEF HandleTimers, Handlers
  <1>3. Sound(t)
    BY ReportedSound, HandleTimersSound DEF reported
  <1> HIDE DEF t
  <1>4. LET r == [t EXCEPT !.last = h.current]
        IN  /\ r.observed = t.observed /\ r.attributes = t.attributes /\ r.pmax = t.pmax
            /\ r.notify = t.notify /\ r.sent = t.sent
    BY <1>3 DEF Sound, Handlers
  <1> QED
    BY <1>1, <1>2, <1>4 DEF Report, reported, t

\* A report that sends starts the maximum period anew.
LEMMA SendingBeats ==
    ASSUME NEW h, Sound(h), Alone(h),
           (h.current # h.last /\ h.notify) \/ h.pmax_exceeded
    PROVE  Report(h).sent # "none" /\ Beating(Report(h), 0)
  <1> DEFINE reported == IF h.current # h.last /\ h.notify THEN SendChange(h)
                         ELSE IF h.pmax_exceeded THEN SendPeriod(h)
                         ELSE h
             t == HandleTimers(reported)
  <1>1. Sound(reported) /\ Alone(reported) /\ reported.sent # "none"
    <2>1. /\ SendChange(h).pmin_timer = h.pmin_timer /\ SendChange(h).sent = "change"
          /\ SendChange(h).observed = h.observed /\ SendChange(h).pmax = h.pmax
          /\ SendChange(h).attributes = h.attributes
      BY DEF SendChange, Sound, Handlers
    <2>2. /\ SendPeriod(h).pmin_timer = h.pmin_timer /\ SendPeriod(h).sent = "period"
          /\ SendPeriod(h).observed = h.observed /\ SendPeriod(h).pmax = h.pmax
          /\ SendPeriod(h).attributes = h.attributes
      BY DEF SendPeriod, Sound, Handlers
    <2>3. Alone(SendChange(h)) /\ Alone(SendPeriod(h))
      BY <2>1, <2>2 DEF Alone, Timed, Has
    <2> QED
      BY <2>1, <2>2, <2>3, ReportedSound
  <1> HIDE DEF reported
  <1>2. Sound(t) /\ Beating(t, 0) /\ t.sent # "none"
    <2>1. t.sent = reported.sent
      BY <1>1 DEF HandleTimers, Sound, Handlers
    <2> QED
      BY <1>1, <2>1, HandleTimersSound, HandleTimersBeats
  <1> HIDE DEF t
  <1>3. /\ [t EXCEPT !.last = h.current].sent # "none"
        /\ Beating([t EXCEPT !.last = h.current], 0)
    BY <1>2 DEF Beating, Alone, Timed, Has, Sound, Handlers
  <1> QED
    BY <1>3 DEF Report, reported, t

\* While a change waits for the minimum, or with no maximum, nothing is asked.
LEMMA ExemptBeats ==
    ASSUME NEW h, NEW e, ~Timed(h) \/ (Has(h, "pmin") /\ h.notify)
    PROVE  Beating(h, e)
  BY DEF Beating, Alone

\* A new value or a trigger: current and last differ, so it is sent or it waits.
LEMMA ScheduleReportBeats ==
    ASSUME NEW h, Sound(h), Alone(h), h.current # h.last, h.sent = "none", NEW e
    PROVE  LET s == ScheduleReport(h) IN Beating(s, After(s, e))
  <1> DEFINE pending == [h EXCEPT !.notify = TRUE]
  <1>1. /\ Sound(pending) /\ Alone(pending)
        /\ pending.current # pending.last /\ pending.notify
    BY DEF Sound, PeriodsWritten, Handlers, Has, CheckAttributeValidity, Alone, Timed
  <1>2. Has(pending, "pmin") = Has(h, "pmin")
    BY DEF Has, Sound, Handlers
  <1> HIDE DEF pending
  <1>3. CASE ~Has(h, "pmin") \/ h.pmin_exceeded
    <2>1. ScheduleReport(h) = Report(pending)
      BY <1>3 DEF ScheduleReport, pending
    <2> QED
      BY <1>1, <2>1, SendingBeats DEF After
  <1>4. CASE ~(~Has(h, "pmin") \/ h.pmin_exceeded)
    <2>1. ScheduleReport(h) = pending
      BY <1>4 DEF ScheduleReport, pending
    <2> QED
      BY <1>1, <1>2, <1>4, <2>1, ExemptBeats
  <1> QED
    BY <1>3, <1>4

LEMMA SetValueBeats ==
    ASSUME PlainPeriods, NEW h, Sound(h), Armed(h), h.sent = "none",
           NEW e, Beating(h, e), NEW v \in Int
    PROVE  LET s == HandlerSetValue(h, v) IN Beating(s, After(s, e))
  <1> DEFINE new == [h EXCEPT !.current = v]
             decided == IF CheckThresholdValues(new) THEN ScheduleReport(new) ELSE OutOfRange(new)
             high == v + h.st
             low == v - h.st
             stepped == [decided EXCEPT !.high_step = high, !.low_step = low]
  <1>1. /\ Sound(new) /\ Armed(new) /\ new.sent = "none"
        /\ new.current = v /\ new.last = h.last /\ Beating(new, e)
    BY DEF Sound, Armed, PeriodsWritten, Handlers, Has, CheckAttributeValidity, Beating,
           Alone, Timed
  <1> HIDE DEF new, high, low
  <1>2. CASE v = h.last
    BY <1>1, <1>2 DEF HandlerSetValue, new, After
  <1>3. CASE v # h.last
    <2>1. Sound(decided) /\ Beating(decided, After(decided, e))
      <3>1. CASE CheckThresholdValues(new)
        <4>1. LET s == ScheduleReport(new) IN Beating(s, After(s, e))
          BY <1>1, <1>3, ScheduleReportBeats DEF Beating
        <4> QED
          BY <1>1, <3>1, <4>1, ScheduleReportSound
      <3>2. CASE ~CheckThresholdValues(new)
        <4>1. ~Has(new, "pmin")
          BY <1>1, <3>2, MinimumMeets
        <4>2. /\ OutOfRange(new).sent = new.sent
              /\ OutOfRange(new).attributes = new.attributes
              /\ OutOfRange(new).observed = new.observed
          BY <1>1 DEF OutOfRange, Sound, Handlers
        <4>3. /\ OutOfRange(new).pmax = new.pmax
              /\ OutOfRange(new).pmax_timer = new.pmax_timer
              /\ OutOfRange(new).pmin_timer \in {OFF, new.pmin_timer}
          BY <1>1 DEF OutOfRange, Sound, Handlers
        <4>4. Beating(OutOfRange(new), e)
          BY <1>1, <4>1, <4>2, <4>3 DEF Beating, Alone, Timed, Has
        <4> QED
          BY <1>1, <3>2, <4>2, <4>4, OutOfRangeSound DEF After
      <3> QED
        BY <3>1, <3>2
    <2> HIDE DEF decided
    <2>2. Beating(stepped, After(stepped, e))
      BY <2>1 DEF Beating, Alone, Timed, After, Has, Sound, Handlers
    <2> QED
      BY <1>3, <2>2 DEF HandlerSetValue, new, decided, high, low
  <1> QED
    BY <1>2, <1>3

LEMMA TriggerBeats ==
    ASSUME NEW h, Sound(h), Alone(h), h.sent = "none", NEW id \in Ids, NEW e
    PROVE  LET t == SetNotificationTrigger(h, id) IN Beating(t, After(t, e))
  <1> DEFINE triggered == [h EXCEPT !.changed = @ \cup {id}, !.current = 0, !.last = 1]
  <1>1. Sound(triggered)
    BY TriggeredSound
  <1>2. triggered.current # triggered.last /\ triggered.sent = "none" /\ Alone(triggered)
    BY DEF Sound, Handlers, Alone, Timed, Has
  <1> HIDE DEF triggered
  <1> QED
    BY <1>1, <1>2, ScheduleReportBeats DEF SetNotificationTrigger, triggered

MaximumInv == HandlerInv /\ Beating(handler, elapsed)

\* What the start of a step and the operators that send nothing leave.
LEMMA QuietBeats ==
    ASSUME MaximumInv
    PROVE  Beating(Now, elapsed)
  BY NowSound DEF MaximumInv, Beating, Alone, Timed, Has, Now, HandlerInv, Sound, Handlers

LEMMA SetUnderObservationBeats ==
    ASSUME NEW h, Sound(h), NEW e
    PROVE  /\ Beating(SetUnderObservation(h, TRUE), 0)
           /\ Beating(SetUnderObservation(h, FALSE), e)
  <1> DEFINE s(o) == [StopTimers(h) EXCEPT !.observed = o]
  <1>1. \A o \in BOOLEAN : /\ Sound(s(o)) /\ s(o).pmin_timer = OFF /\ s(o).observed = o
    <2>1. Sound(StopTimers(h)) /\ StopTimers(h).pmin_timer = OFF
      BY StopTimersSound DEF StopTimers, Sound, Handlers
    <2> HIDE DEF s
    <2>2. ASSUME NEW k, Sound(k), NEW o \in BOOLEAN
          PROVE  /\ Sound([k EXCEPT !.observed = o])
                 /\ [k EXCEPT !.observed = o].pmin_timer = k.pmin_timer
                 /\ [k EXCEPT !.observed = o].observed = o
      BY <2>2 DEF Sound, PeriodsWritten, Handlers, Has, CheckAttributeValidity
    <2> QED
      BY <2>1, <2>2 DEF s
  <1>2. Beating(SetUnderObservation(h, TRUE), 0)
    BY <1>1, HandleTimersBeats DEF SetUnderObservation, Alone
  <1>3. /\ SetUnderObservation(h, FALSE) = SetDefaultValues(s(FALSE))
        /\ SetDefaultValues(s(FALSE)).attributes = {}
    BY DEF SetUnderObservation, SetDefaultValues, NewHandler
  <1>4. Beating(SetUnderObservation(h, FALSE), e)
    BY <1>3, ExemptBeats DEF Timed, Has
  <1> QED
    BY <1>2, <1>4

LEMMA SetDefaultValuesBeats ==
    ASSUME NEW h, NEW e
    PROVE  Beating(SetDefaultValues(h), e)
  <1>1. SetDefaultValues(h).attributes = {}
    BY DEF SetDefaultValues, NewHandler
  <1> QED
    BY <1>1, ExemptBeats DEF Timed, Has

LEMMA WriteBeats ==
    ASSUME NEW h, Sound(h), NEW e, NEW q \in Queries
    PROVE  Beating(HandleObservationAttribute(h, q),
                   IF CheckAttributeValidity(Written(h, q)) /\ h.observed THEN 0 ELSE e)
  <1> DEFINE written == Written(h, q)
  <1>1. /\ written \in Handlers /\ PeriodsWritten(written)
        /\ written.observed = h.observed
    <2>1. written.observed = h.observed
      BY DEF Written, Sound, Handlers
    <2> QED
      BY <2>1, WrittenTyped
  <1> HIDE DEF written
  <1>2. CASE ~CheckAttributeValidity(written)
    BY <1>2, SetDefaultValuesBeats DEF HandleObservationAttribute, written
  <1>3. CASE CheckAttributeValidity(written) /\ h.observed
    BY <1>1, <1>3, SetUnderObservationBeats DEF HandleObservationAttribute, written, Sound
  <1>4. CASE CheckAttributeValidity(written) /\ ~h.observed
    <2>1. Beating(written, e)
      BY <1>1, <1>4, ExemptBeats DEF Timed
    <2> QED
      BY <1>4, <2>1 DEF HandleObservationAttribute, written
  <1> QED
    BY <1>2, <1>3, <1>4

LEMMA ReportsBeats ==
    ASSUME NEW h, NEW due, Reports(h, due), Beating(h, After(h, elapsed))
    PROVE  Beating(handler', elapsed')
  BY DEF Reports, After

\* The minimum timer: what waits is sent, or waits on.
LEMMA PminExpiredBeats ==
    ASSUME MaximumInv, PminExpired
    PROVE  Beating(handler', elapsed')
  <1> DEFINE expired == [Now EXCEPT !.pmin_timer = OFF, !.pmin_exceeded = TRUE]
             reports == handler.notify \/ (handler.pmin > 0 /\ ~Has(handler, "pmax"))
             h == IF reports THEN Report(expired) ELSE expired
  <1>1. handler.pmin_timer = 0 /\ Reports(h, owed)
    BY DEF PminExpired
  <1>2. Sound(expired) /\ Alone(expired) /\ expired.sent = "none"
    <2>1. Sound(expired)
      BY <1>1, PminExpiredSound DEF MaximumInv
    <2>2. Now \in Handlers /\ Now.sent = "none"
      BY NowSound DEF Sound, MaximumInv
    <2>3. expired.pmin_timer = OFF /\ expired.sent = "none"
      BY <2>2 DEF Handlers
    <2> QED
      BY <2>1, <2>3 DEF Alone
  <1>3. /\ expired.observed = handler.observed /\ expired.attributes = handler.attributes
        /\ expired.pmax = handler.pmax /\ expired.notify = handler.notify
        /\ expired.pmax_timer = handler.pmax_timer
    BY DEF Now, MaximumInv, HandlerInv, Sound, Handlers
  <1>4. Timed(expired) = Timed(handler) /\ Has(expired, "pmin") = Has(handler, "pmin")
    BY <1>3 DEF Timed, Has
  <1> HIDE DEF expired
  <1>5. Beating(h, After(h, elapsed))
    <2>1. CASE ~Timed(handler)
      <3>1. ~Timed(h)
        BY <1>2, <1>3, <1>4, <2>1, ReportKeeps DEF Timed, Has
      <3> QED
        BY <3>1, ExemptBeats
    <2>2. CASE Timed(handler)
      <3>1. Has(handler, "pmin") /\ (reports <=> handler.notify)
        BY <1>1, <2>2 DEF MaximumInv, Beating, Alone, Timed, OFF
      <3>2. CASE ~handler.notify
        <4>1. h = expired /\ After(h, elapsed) = elapsed
          BY <1>2, <3>1, <3>2 DEF After
        <4>2. handler.pmax_timer # OFF /\ elapsed + handler.pmax_timer <= handler.pmax
          BY <2>2, <3>2 DEF MaximumInv, Beating
        <4> QED
          BY <1>2, <1>3, <4>1, <4>2 DEF Beating
      <3>3. CASE handler.notify
        <4>1. h = Report(expired)
          BY <3>1, <3>3
        <4> HIDE DEF h
        <4>2. CASE expired.current # expired.last \/ expired.pmax_exceeded
          BY <1>2, <1>3, <3>3, <4>1, <4>2, SendingBeats DEF After
        <4>3. CASE ~(expired.current # expired.last \/ expired.pmax_exceeded)
          <5>1. h.notify /\ h.attributes = expired.attributes
            BY <1>2, <1>3, <3>3, <4>1, <4>3, ReportKeeps
          <5>2. Has(h, "pmin")
            BY <1>4, <3>1, <5>1 DEF Has
          <5> QED
            BY <5>1, <5>2, ExemptBeats
        <4> QED
          BY <4>2, <4>3
      <3> QED
        BY <3>2, <3>3
    <2> QED
      BY <2>1, <2>2
  <1> QED
    BY <1>1, <1>5, ReportsBeats

\* The maximum timer: it never fires inside the minimum.
LEMMA PmaxExpiredBeats ==
    ASSUME MaximumInv, PmaxExpired
    PROVE  Beating(handler', elapsed')
  <1> DEFINE expired == [Now EXCEPT !.pmax_timer = OFF, !.pmax_exceeded = TRUE]
             reports == handler.pmin_exceeded \/ ~Has(handler, "pmin")
             h == IF reports THEN Report(expired) ELSE expired
  <1>1. handler.pmax_timer = 0 /\ Reports(h, owed)
    BY DEF PmaxExpired
  <1>2. Sound(expired) /\ (~reports => Armed(expired))
    BY <1>1, PmaxExpiredSound DEF MaximumInv
  <1>3. Now \in Handlers
    BY NowSound DEF Sound, MaximumInv
  <1>4. /\ expired.pmax_exceeded /\ expired.pmax_timer = OFF
        /\ expired.pmin_timer = Now.pmin_timer /\ expired.observed = Now.observed
        /\ expired.attributes = Now.attributes /\ expired.pmax = Now.pmax
    BY <1>3 DEF Handlers
  <1>5. Alone(expired)
    BY <1>4, QuietBeats DEF Beating, Alone, Timed, Has
  <1> HIDE DEF expired, reports
  <1>6. Beating(h, After(h, elapsed))
    <2>1. CASE reports
      BY <1>2, <1>4, <1>5, <2>1, SendingBeats DEF After
    <2>2. CASE ~reports
      <3>1. ~Timed(expired)
        BY <1>2, <1>4, <2>2 DEF Armed, Timed
      <3> QED
        BY <2>2, <3>1, ExemptBeats
    <2> QED
      BY <2>1, <2>2
  <1> QED
    BY <1>1, <1>6, ReportsBeats

LEMMA MaximumInvKept ==
    ASSUME PlainPeriods, MaximumInv, [Next]_vars
    PROVE  MaximumInv'
  <1>1. HandlerInv'
    BY HandlerInvKept DEF MaximumInv
  <1>2. /\ Sound(Now) /\ Armed(Now) /\ Now.sent = "none" /\ Now.observed = handler.observed
        /\ Alone(Now)
    BY NowSound, QuietBeats DEF MaximumInv, Beating
  <1>3. SUFFICES Beating(handler', elapsed')
    BY <1>1 DEF MaximumInv, Beating, Alone, Timed, Has
  <1>4. ASSUME NEW v \in Values, SetValue(v) PROVE Beating(handler', elapsed')
    <2>1. v \in Int
      BY OptionsAssumption
    <2>2. After(Now, elapsed) = elapsed
      BY <1>2 DEF After
    <2>3. LET s == HandlerSetValue(Now, v) IN Beating(s, After(s, elapsed))
      BY <1>2, <2>1, QuietBeats, SetValueBeats
    <2> QED
      BY <1>4, <2>2, <2>3, QuietBeats, ReportsBeats DEF SetValue
  <1>5. ASSUME NEW id \in Ids, Change(id) PROVE Beating(handler', elapsed')
    <2>1. LET t == SetNotificationTrigger(Now, id) IN Beating(t, After(t, elapsed))
      BY <1>2, TriggerBeats
    <2> QED
      BY <1>5, <2>1, ReportsBeats DEF Change
  <1>6. CASE Observe
    BY <1>2, <1>6, SetUnderObservationBeats DEF Observe
  <1>7. CASE Cancel
    BY <1>7, ExemptBeats DEF Cancel, Timed, NewHandler
  <1>8. CASE Reset
    BY <1>2, <1>8, SetUnderObservationBeats DEF Reset
  <1>9. ASSUME NEW q \in Queries, WriteAttributes(q) PROVE Beating(handler', elapsed')
    BY <1>2, <1>9, WriteBeats DEF WriteAttributes
  <1>10. CASE WriteMalformed
    BY <1>10, SetDefaultValuesBeats DEF WriteMalformed
  <1>11. CASE PminExpired
    BY <1>11, PminExpiredBeats
  <1>12. CASE PmaxExpired
    BY <1>12, PmaxExpiredBeats
  <1>13. CASE Tick
    <2> DEFINE Left(timer) == IF timer = OFF THEN OFF ELSE timer - 1
               pmax_left == Left(Now.pmax_timer)
               pmin_left == Left(Now.pmin_timer)
               h == [Now EXCEPT !.pmin_timer = pmin_left, !.pmax_timer = pmax_left]
    <2>1. handler' = h /\ elapsed' \in {elapsed, elapsed + 1} /\ handler.pmax_timer # 0
      BY <1>13 DEF Tick
    <2>2. /\ Now.pmax_timer \in Timers \ {0} /\ elapsed \in Nat /\ Now.pmax \in Int
          /\ Now.pmin_timer = OFF => pmin_left = OFF
      BY <1>2, <2>1 DEF Sound, MaximumInv, HandlerInv, TypeOK, Handlers, Now
    <2>3. Now.pmax_timer # OFF => pmax_left \in Timers /\ pmax_left # OFF
                                  /\ pmax_left = Now.pmax_timer - 1
      BY <2>2, OptionsAssumption DEF Timers, OFF
    <2> HIDE DEF pmax_left, pmin_left
    <2>4. /\ h.observed = Now.observed /\ h.attributes = Now.attributes /\ h.pmax = Now.pmax
          /\ h.notify = Now.notify /\ h.pmin_timer = pmin_left /\ h.pmax_timer = pmax_left
      BY <1>2 DEF Sound, Handlers
    <2> HIDE DEF h
    <2>5. Beating(Now, elapsed)
      BY QuietBeats
    <2>6. Now.pmax_timer \in Int
      BY <2>2, OptionsAssumption DEF Timers, OFF
    <2> QED
      BY <2>1, <2>2, <2>3, <2>4, <2>5, <2>6 DEF Beating, Alone, Timed, Has
  <1>14. CASE UNCHANGED vars
    BY <1>14 DEF vars, MaximumInv, Beating, Alone, Timed, Has
  <1> QED
    BY <1>4, <1>5, <1>6, <1>7, <1>8, <1>9, <1>10, <1>11, <1>12, <1>13, <1>14 DEF Next

\* The minimum timer is due before the maximum timer and every expiry of the maximum
\* timer sends, so the server hears of the node at least that often, unless a change
\* waits for the minimum (m2mreporthandler.cpp:198-218). No threshold, which could
\* drop such a change, beside a minimum period.
THEOREM MaximumPeriodIsKept ==
    ASSUME PlainPeriods
    PROVE  Spec => []MaximumPeriod
  <1>1. Init => MaximumInv
    BY InitSound, ExemptBeats DEF Init, MaximumInv, Timed, NewHandler
  <1>2. MaximumInv /\ [Next]_vars => MaximumInv'
    BY MaximumInvKept
  <1>3. MaximumInv => MaximumPeriod
    BY DEF MaximumInv, HandlerInv, TypeOK, Handlers, Timers, Beating, Timed, MaximumPeriod, OFF
  <1> QED
    BY <1>1, <1>2, <1>3, PTL DEF Spec

-----------------------------------------------------------------------------
(* Distinct periods and no thresholds: the minimum period is kept.         *)

DistinctPeriods ==
    /\ Thresholds \cap DOMAIN Options = {}
    /\ Periods \subseteq DOMAIN Options => Options["pmin"] \cap Options["pmax"] = {}

\* A minimum taken as exceeded is over; else its timer runs and is not due before.
Spaced(h, e) ==
    /\ ~h.observed => h.pmin_timer = OFF /\ h.pmax_timer = OFF
    /\ h.observed /\ Has(h, "pmin") =>
           IF h.pmin_exceeded THEN e >= h.pmin
           ELSE h.pmin_timer # OFF /\ e + h.pmin_timer >= h.pmin

\* What a step that starts with e and g and leaves h sends is not too early.
SentInTime(g, h, e) == h.sent # "none" /\ Has(g, "pmin") => e >= g.pmin

LEMMA PeriodsDiffer ==
    ASSUME DistinctPeriods, NEW h, Sound(h)
    PROVE  Has(h, "pmin") => h.pmin # h.pmax
  <1>1. CASE Has(h, "pmax")
    BY <1>1 DEF DistinctPeriods, Periods, Sound, PeriodsWritten, Handlers, Has
  <1>2. CASE ~Has(h, "pmax")
    BY <1>2 DEF Sound, PeriodsWritten, Handlers
  <1> QED
    BY <1>1, <1>2

LEMMA HandleTimersSpaces ==
    ASSUME DistinctPeriods, NEW h, Sound(h), h.observed, NEW e \in Nat
    PROVE  /\ Spaced(HandleTimers(h), e)
           /\ HandleTimers(h).observed
           /\ HandleTimers(h).attributes = h.attributes
           /\ HandleTimers(h).sent = h.sent
  <1> DEFINE t == HandleTimers(h)
  <1>1. /\ t.observed /\ t.attributes = h.attributes /\ t.sent = h.sent /\ t.pmin = h.pmin
        /\ Has(h, "pmin") => ~t.pmin_exceeded /\ t.pmin_timer = h.pmin
    BY PeriodsDiffer DEF HandleTimers, Sound, Handlers
  <1>2. h.pmin \in Nat
    BY DEF Sound, Handlers
  <1> HIDE DEF t
  <1>3. Spaced(t, e)
    BY <1>1, <1>2 DEF Spaced, Has, OFF
  <1> QED
    BY <1>1, <1>3 DEF t

LEMMA ReportSpaces ==
    ASSUME DistinctPeriods, NEW h, Sound(h), h.observed, NEW e \in Nat
    PROVE  Spaced(Report(h), e) /\ Spaced(Report(h), After(Report(h), e))
  <1> DEFINE reported == IF h.current # h.last /\ h.notify THEN SendChange(h)
                         ELSE IF h.pmax_exceeded THEN SendPeriod(h)
                         ELSE h
             t == HandleTimers(reported)
             r == [t EXCEPT !.last = h.current]
  <1>1. Sound(reported) /\ reported.observed
    <2>1. Sound(reported)
      BY ReportedSound
    <2>2. SendChange(h).observed = h.observed /\ SendPeriod(h).observed = h.observed
      BY DEF Sound, Handlers, SendChange, SendPeriod
    <2> QED
      BY <2>1, <2>2
  <1> HIDE DEF reported
  <1>2. Sound(t) /\ \A f \in Nat : Spaced(t, f)
    BY <1>1, HandleTimersSound, HandleTimersSpaces
  <1> HIDE DEF t
  <1>3. \A f \in Nat : Spaced(r, f)
    BY <1>2 DEF Spaced, Has, Sound, Handlers
  <1>4. r = Report(h) /\ After(r, e) \in Nat
    BY DEF Report, reported, t, After
  <1> QED
    BY <1>3, <1>4

LEMMA ScheduleReportSpaces ==
    ASSUME DistinctPeriods, NEW h, Sound(h), h.observed, h.sent = "none",
           NEW e \in Nat, Spaced(h, e)
    PROVE  LET s == ScheduleReport(h) IN Spaced(s, After(s, e)) /\ SentInTime(h, s, e)
  <1> DEFINE pending == [h EXCEPT !.notify = TRUE]
  <1>1. /\ Sound(pending) /\ Spaced(pending, e) /\ pending.observed /\ pending.sent = "none"
    BY DEF Sound, PeriodsWritten, Handlers, Has, CheckAttributeValidity, Spaced
  <1>2. Has(h, "pmin") /\ h.pmin_exceeded => e >= h.pmin
    BY DEF Spaced
  <1> HIDE DEF pending
  <1>3. Spaced(Report(pending), After(Report(pending), e)) /\ After(pending, e) = e
    BY <1>1, ReportSpaces DEF After
  <1> QED
    BY <1>1, <1>2, <1>3 DEF ScheduleReport, SentInTime, pending

\* Without thresholds every new value is scheduled.
LEMMA SetValueSpaces ==
    ASSUME DistinctPeriods, NEW h, Sound(h), Armed(h), h.observed, h.sent = "none",
           NEW e \in Nat, Spaced(h, e), NEW v \in Int
    PROVE  LET s == HandlerSetValue(h, v) IN Spaced(s, After(s, e)) /\ SentInTime(h, s, e)
  <1> DEFINE new == [h EXCEPT !.current = v]
             decided == ScheduleReport(new)
             high == v + h.st
             low == v - h.st
             stepped == [decided EXCEPT !.high_step = high, !.low_step = low]
  <1>1. /\ Sound(new) /\ Armed(new) /\ Spaced(new, e) /\ new.observed /\ new.sent = "none"
        /\ new.attributes = h.attributes /\ new.pmin = h.pmin
    BY DEF Sound, Armed, PeriodsWritten, Handlers, Has, CheckAttributeValidity, Spaced
  <1>2. CheckThresholdValues(new)
    <2>1. new.attributes \cap Thresholds = {}
      BY <1>1 DEF DistinctPeriods, Sound, Handlers
    <2> QED
      BY <2>1 DEF CheckThresholdValues, CheckGtLtParams, Has, Thresholds
  <1>3. HandlerSetValue(h, v) = IF v = h.last THEN new ELSE stepped
    BY <1>2 DEF HandlerSetValue
  <1> HIDE DEF new, high, low
  <1>4. Sound(decided) /\ Spaced(decided, After(decided, e)) /\ SentInTime(h, decided, e)
    BY <1>1, ScheduleReportSound, ScheduleReportSpaces DEF SentInTime, Has
  <1> HIDE DEF decided
  <1>5. /\ stepped.sent = decided.sent
        /\ Spaced(stepped, After(stepped, e))
    BY <1>4 DEF Spaced, After, Has, Sound, Handlers
  <1>6. Spaced(new, After(new, e)) /\ SentInTime(h, new, e)
    BY <1>1 DEF After, SentInTime
  <1> QED
    BY <1>3, <1>4, <1>5, <1>6 DEF SentInTime

LEMMA TriggerSpaces ==
    ASSUME DistinctPeriods, NEW h, Sound(h), h.observed, h.sent = "none",
           NEW e \in Nat, Spaced(h, e), NEW id \in Ids
    PROVE  LET s == SetNotificationTrigger(h, id)
           IN Spaced(s, After(s, e)) /\ SentInTime(h, s, e)
  <1> DEFINE triggered == [h EXCEPT !.changed = @ \cup {id}, !.current = 0, !.last = 1]
  <1>1. Sound(triggered)
    BY TriggeredSound
  <1>2. /\ triggered.observed /\ triggered.sent = "none" /\ Spaced(triggered, e)
        /\ triggered.attributes = h.attributes /\ triggered.pmin = h.pmin
    BY DEF Sound, Handlers, Spaced, Has
  <1> HIDE DEF triggered
  <1> QED
    BY <1>1, <1>2, ScheduleReportSpaces DEF SetNotificationTrigger, triggered, SentInTime, Has

LEMMA SetDefaultValuesSpaces ==
    ASSUME NEW h, NEW e, ~h.observed => h.pmin_timer = OFF /\ h.pmax_timer = OFF
    PROVE  Spaced(SetDefaultValues(h), e) /\ SetDefaultValues(h).sent = h.sent
  BY DEF SetDefaultValues, NewHandler, Spaced, Has

LEMMA SetUnderObservationSpaces ==
    ASSUME DistinctPeriods, NEW h, Sound(h), NEW e \in Nat
    PROVE  /\ Spaced(SetUnderObservation(h, TRUE), 0)
           /\ Spaced(SetUnderObservation(h, FALSE), e)
           /\ \A o \in BOOLEAN : SetUnderObservation(h, o).sent = h.sent
  <1> DEFINE s(o) == [StopTimers(h) EXCEPT !.observed = o]
  <1>1. \A o \in BOOLEAN : /\ Sound(s(o)) /\ s(o).observed = o /\ s(o).sent = h.sent
                           /\ s(o).pmin_timer = OFF /\ s(o).pmax_timer = OFF
    <2>1. Sound(StopTimers(h))
      BY StopTimersSound
    <2>2. \A o \in BOOLEAN : Sound(s(o)) /\ s(o).observed = o
      BY <2>1 DEF Sound, PeriodsWritten, Handlers, Has, CheckAttributeValidity
    <2>3. \A o \in BOOLEAN : /\ s(o).sent = h.sent
                             /\ s(o).pmin_timer = OFF /\ s(o).pmax_timer = OFF
      BY DEF StopTimers, Sound, Handlers
    <2> QED
      BY <2>2, <2>3
  <1>2. /\ SetUnderObservation(h, TRUE) = HandleTimers(s(TRUE))
        /\ SetUnderObservation(h, FALSE) = SetDefaultValues(s(FALSE))
    BY DEF SetUnderObservation
  <1> HIDE DEF s
  <1>3. /\ Spaced(SetUnderObservation(h, TRUE), 0)
        /\ SetUnderObservation(h, TRUE).sent = h.sent
    BY <1>1, <1>2, HandleTimersSpaces
  <1>4. /\ Spaced(SetUnderObservation(h, FALSE), e)
        /\ SetUnderObservation(h, FALSE).sent = h.sent
    BY <1>1, <1>2, SetDefaultValuesSpaces
  <1> QED
    BY <1>3, <1>4

LEMMA WriteSpaces ==
    ASSUME DistinctPeriods, NEW h, Sound(h), NEW e \in Nat, Spaced(h, e), NEW q \in Queries
    PROVE  /\ Spaced(HandleObservationAttribute(h, q),
                     IF CheckAttributeValidity(Written(h, q)) /\ h.observed THEN 0 ELSE e)
           /\ HandleObservationAttribute(h, q).sent = h.sent
  <1> DEFINE written == Written(h, q)
  <1>1. /\ written \in Handlers /\ PeriodsWritten(written)
        /\ written.observed = h.observed /\ written.sent = h.sent
        /\ written.pmin_timer = h.pmin_timer /\ written.pmax_timer = h.pmax_timer
    <2>1. /\ written.observed = h.observed /\ written.sent = h.sent
      BY DEF Written, Sound, Handlers
    <2>2. /\ written.pmin_timer = h.pmin_timer /\ written.pmax_timer = h.pmax_timer
      BY DEF Written, Sound, Handlers
    <2> QED
      BY <2>1, <2>2, WrittenTyped
  <1> HIDE DEF written
  <1>2. ~written.observed => written.pmin_timer = OFF /\ written.pmax_timer = OFF
    BY <1>1 DEF Spaced
  <1>3. CASE ~CheckAttributeValidity(written)
    BY <1>1, <1>2, <1>3, SetDefaultValuesSpaces DEF HandleObservationAttribute, written
  <1>4. CASE CheckAttributeValidity(written) /\ h.observed
    BY <1>1, <1>4, SetUnderObservationSpaces DEF HandleObservationAttribute, written, Sound
  <1>5. CASE CheckAttributeValidity(written) /\ ~h.observed
    <2>1. Spaced(written, e)
      BY <1>1, <1>2, <1>5 DEF Spaced
    <2> QED
      BY <1>1, <1>5, <2>1 DEF HandleObservationAttribute, written
  <1> QED
    BY <1>3, <1>4, <1>5

LEMMA ReportsSpaces ==
    ASSUME NEW h, NEW due, Reports(h, due), Spaced(h, After(h, elapsed)),
           SentInTime(handler, h, elapsed)
    PROVE  Spaced(handler', elapsed') /\ SentInTime(handler, handler', elapsed)
  BY DEF Reports, After

\* The inductive invariant of MinimumPeriodIsKept.
MinimumInv == HandlerInv /\ Spaced(handler, elapsed)

LEMMA NowSpaced ==
    ASSUME MinimumInv
    PROVE  /\ Sound(Now) /\ Armed(Now) /\ Now.sent = "none" /\ Spaced(Now, elapsed)
           /\ Now.observed = handler.observed /\ Now.attributes = handler.attributes
           /\ Now.pmin = handler.pmin /\ Now.pmin_exceeded = handler.pmin_exceeded
           /\ Now.pmin_timer = handler.pmin_timer /\ Now.pmax_timer = handler.pmax_timer
           /\ elapsed \in Nat
  <1>1. /\ Sound(Now) /\ Armed(Now) /\ Now.sent = "none"
    BY NowSound DEF MinimumInv
  <1>2. /\ Now.observed = handler.observed /\ Now.attributes = handler.attributes
        /\ Now.pmin = handler.pmin /\ Now.pmin_exceeded = handler.pmin_exceeded
        /\ Now.pmin_timer = handler.pmin_timer /\ Now.pmax_timer = handler.pmax_timer
    BY DEF MinimumInv, HandlerInv, Sound, Handlers, Now
  <1>3. Spaced(Now, elapsed)
    BY <1>2 DEF MinimumInv, Spaced, Has
  <1>4. elapsed \in Nat
    BY OptionsAssumption DEF MinimumInv, HandlerInv, TypeOK
  <1> QED
    BY <1>1, <1>2, <1>3, <1>4

\* An expiry that reports finds the minimum over, or has no minimum.
LEMMA ExpirySpaces ==
    ASSUME DistinctPeriods, MinimumInv, NEW expired, Sound(expired),
           expired.observed, expired.sent = "none",
           Spaced(expired, elapsed), Has(handler, "pmin") => elapsed >= handler.pmin
    PROVE  LET r == Report(expired)
           IN Spaced(r, After(r, elapsed)) /\ SentInTime(handler, r, elapsed)
  BY NowSpaced, ReportSpaces DEF SentInTime

LEMMA PminExpiredSpaces ==
    ASSUME DistinctPeriods, MinimumInv, PminExpired
    PROVE  Spaced(handler', elapsed') /\ SentInTime(handler, handler', elapsed)
  <1> DEFINE expired == [Now EXCEPT !.pmin_timer = OFF, !.pmin_exceeded = TRUE]
             reports == handler.notify \/ (handler.pmin > 0 /\ ~Has(handler, "pmax"))
             h == IF reports THEN Report(expired) ELSE expired
  <1>1. handler.pmin_timer = 0 /\ Reports(h, owed)
    BY DEF PminExpired
  <1>2. Sound(expired)
    BY <1>1, PminExpiredSound DEF MinimumInv
  <1>3. handler.observed /\ (Has(handler, "pmin") => elapsed >= handler.pmin)
    <2>1. handler.pmin \in Nat
      BY DEF MinimumInv, HandlerInv, Sound, Handlers
    <2> QED
      BY <1>1, <2>1, NowSpaced DEF MinimumInv, Spaced, OFF
  <1>4. /\ expired.observed /\ expired.sent = "none" /\ expired.pmin_exceeded
        /\ expired.pmin = handler.pmin /\ expired.attributes = handler.attributes
    BY <1>3, NowSpaced DEF Sound, Handlers
  <1> HIDE DEF expired, reports
  <1>5. Spaced(expired, elapsed)
    BY <1>3, <1>4 DEF Spaced, Has
  <1>6. Spaced(h, After(h, elapsed)) /\ SentInTime(handler, h, elapsed)
    BY <1>2, <1>3, <1>4, <1>5, ExpirySpaces DEF After, SentInTime
  <1> QED
    BY <1>1, <1>6, ReportsSpaces

LEMMA PmaxExpiredSpaces ==
    ASSUME DistinctPeriods, MinimumInv, PmaxExpired
    PROVE  Spaced(handler', elapsed') /\ SentInTime(handler, handler', elapsed)
  <1> DEFINE expired == [Now EXCEPT !.pmax_timer = OFF, !.pmax_exceeded = TRUE]
             reports == handler.pmin_exceeded \/ ~Has(handler, "pmin")
             h == IF reports THEN Report(expired) ELSE expired
  <1>1. handler.pmax_timer = 0 /\ Reports(h, owed)
    BY DEF PmaxExpired
  <1>2. Sound(expired)
    BY <1>1, PmaxExpiredSound DEF MinimumInv
  <1>3. handler.observed /\ (reports /\ Has(handler, "pmin") => elapsed >= handler.pmin)
    BY <1>1, NoTimer DEF MinimumInv, Spaced
  <1>4. /\ expired.observed /\ expired.sent = "none"
        /\ expired.pmin_exceeded = handler.pmin_exceeded
        /\ expired.pmin_timer = handler.pmin_timer
        /\ expired.pmin = handler.pmin /\ expired.attributes = handler.attributes
    BY <1>3, NowSpaced DEF Sound, Handlers
  <1> HIDE DEF expired
  <1>5. Spaced(expired, elapsed)
    BY <1>3, <1>4 DEF Spaced, Has, MinimumInv
  <1>6. Spaced(h, After(h, elapsed)) /\ SentInTime(handler, h, elapsed)
    BY <1>2, <1>3, <1>4, <1>5, ExpirySpaces DEF After, SentInTime
  <1> QED
    BY <1>1, <1>6, ReportsSpaces

\* The count stops at HORIZON, which no minimum reaches.
LEMMA TickSpaces ==
    ASSUME MinimumInv, Tick
    PROVE  Spaced(handler', elapsed') /\ handler'.sent = "none"
  <1> DEFINE Left(timer) == IF timer = OFF THEN OFF ELSE timer - 1
             pmin_left == Left(Now.pmin_timer)
             pmax_left == Left(Now.pmax_timer)
             h == [Now EXCEPT !.pmin_timer = pmin_left, !.pmax_timer = pmax_left]
  <1>1. /\ handler' = h /\ Now.pmin_timer # 0
        /\ elapsed' = IF elapsed < HORIZON THEN elapsed + 1 ELSE elapsed
    BY NowSpaced DEF Tick
  <1>2. Now.pmin_timer \in Timers /\ Now.pmin \in Nat
    BY NowSpaced DEF Sound, Handlers
  <1>3. /\ Now.pmin_timer = OFF => pmin_left = OFF
        /\ Now.pmin_timer # OFF => pmin_left = Now.pmin_timer - 1 /\ pmin_left \in Nat
        /\ Now.pmax_timer = OFF => pmax_left = OFF
    BY <1>1, <1>2, OptionsAssumption DEF Timers, OFF
  <1> HIDE DEF pmin_left, pmax_left
  <1>4. /\ h.observed = Now.observed /\ h.attributes = Now.attributes /\ h.pmin = Now.pmin
        /\ h.pmin_exceeded = Now.pmin_exceeded /\ h.sent = "none"
        /\ h.pmin_timer = pmin_left /\ h.pmax_timer = pmax_left
    BY NowSpaced DEF Sound, Handlers
  <1> HIDE DEF h
  <1>5. elapsed' \in Nat /\ (Has(Now, "pmin") => \/ elapsed' = elapsed + 1
                                                 \/ elapsed' = elapsed /\ elapsed >= Now.pmin)
    <2>1. Has(Now, "pmin") => Now.pmin \in 0 .. HORIZON
      BY NowSpaced, PeriodsFit
    <2> QED
      BY <1>1, <2>1, NowSpaced, OptionsAssumption
  <1>6. Spaced(h, elapsed')
    <2>1. Spaced(Now, elapsed) /\ elapsed \in Nat
      BY NowSpaced
    <2>2. CASE ~Now.observed
      BY <1>3, <1>4, <2>1, <2>2 DEF Spaced
    <2>3. CASE Now.observed /\ Has(Now, "pmin") /\ Now.pmin_exceeded
      BY <1>2, <1>4, <1>5, <2>1, <2>3 DEF Spaced
    <2>4. CASE Now.observed /\ Has(Now, "pmin") /\ ~Now.pmin_exceeded
      <3>1. Now.pmin_timer # OFF /\ elapsed + Now.pmin_timer >= Now.pmin
        BY <2>1, <2>4 DEF Spaced
      <3>2. pmin_left \in Nat /\ Now.pmin_timer = pmin_left + 1
        BY <1>2, <1>3, <3>1, OptionsAssumption DEF Timers, OFF
      <3>3. elapsed' + pmin_left >= Now.pmin
        BY <1>2, <1>5, <2>1, <2>4, <3>1, <3>2
      <3> QED
        BY <1>4, <2>4, <3>2, <3>3 DEF Spaced, OFF
    <2>5. CASE Now.observed /\ ~Has(Now, "pmin")
      BY <1>4, <2>5 DEF Spaced, Has
    <2> QED
      BY <2>2, <2>3, <2>4, <2>5
  <1> QED
    BY <1>1, <1>4, <1>6

LEMMA MinimumInvKept ==
    ASSUME DistinctPeriods, MinimumInv, Next
    PROVE  MinimumInv' /\ SentInTime(handler, handler', elapsed)
  <1> DEFINE Kept == Spaced(handler', elapsed') /\ SentInTime(handler, handler', elapsed)
  <1>1. HandlerInv'
    BY HandlerInvKept DEF MinimumInv
  <1>2. SUFFICES Kept
    BY <1>1 DEF MinimumInv, Spaced, Has
  <1>3. ASSUME NEW v \in Values, SetValue(v) PROVE Kept
    <2>1. v \in Int
      BY OptionsAssumption
    <2>2. CASE handler.observed
      <3>1. LET s == HandlerSetValue(Now, v)
            IN Spaced(s, After(s, elapsed)) /\ SentInTime(handler, s, elapsed)
        BY <2>1, <2>2, NowSpaced, SetValueSpaces DEF SentInTime, Has
      <3> QED
        BY <1>3, <2>2, <3>1, ReportsSpaces DEF SetValue
    <2>3. CASE ~handler.observed
      BY <1>3, <2>3, NowSpaced, ReportsSpaces DEF SetValue, After, SentInTime
    <2> QED
      BY <2>2, <2>3
  <1>4. ASSUME NEW id \in Ids, Change(id) PROVE Kept
    <2>1. LET s == SetNotificationTrigger(Now, id)
          IN Spaced(s, After(s, elapsed)) /\ SentInTime(handler, s, elapsed)
      BY <1>4, NowSpaced, TriggerSpaces DEF Change, SentInTime, Has
    <2> QED
      BY <1>4, <2>1, ReportsSpaces DEF Change
  <1>5. CASE Observe
    BY <1>5, NowSpaced, SetUnderObservationSpaces DEF Observe, SentInTime
  <1>6. CASE Cancel
    BY <1>6 DEF Cancel, Spaced, Has, NewHandler, SentInTime
  <1>7. CASE Reset
    BY <1>7, NowSpaced, SetUnderObservationSpaces DEF Reset, SentInTime
  <1>8. ASSUME NEW q \in Queries, WriteAttributes(q) PROVE Kept
    BY <1>8, NowSpaced, WriteSpaces DEF WriteAttributes, SentInTime
  <1>9. CASE WriteMalformed
    BY <1>9, NowSpaced, SetDefaultValuesSpaces DEF WriteMalformed, SentInTime, MinimumInv, Spaced
  <1>10. CASE PminExpired
    BY <1>10, PminExpiredSpaces
  <1>11. CASE PmaxExpired
    BY <1>11, PmaxExpiredSpaces
  <1>12. CASE Tick
    BY <1>12, TickSpaces DEF SentInTime
  <1> QED
    BY <1>3, <1>4, <1>5, <1>6, <1>7, <1>8, <1>9, <1>10, <1>11, <1>12 DEF Next

\* A change inside the minimum period waits for its end in spite of renewals, resets
\* and writes, as long as no pair of periods is equal and no threshold ends the
\* minimum early (m2mreporthandler.cpp:294-302, 341, 88-96).
THEOREM MinimumPeriodIsKept ==
    ASSUME DistinctPeriods
    PROVE  Spec => MinimumPeriod
  <1>1. Init => MinimumInv
    BY InitSound DEF Init, MinimumInv, Spaced, Has, NewHandler
  <1>2. MinimumInv /\ [Next]_vars => MinimumInv'
    <2>1. MinimumInv /\ UNCHANGED vars => MinimumInv'
      BY HandlerInvKept DEF MinimumInv, Spaced, Has, vars
    <2> QED
      BY <2>1, MinimumInvKept
  <1>3. MinimumInv /\ [Next]_vars
        => [handler'.sent # "none" /\ Has(handler, "pmin") => elapsed >= handler.pmin]_vars
    BY MinimumInvKept DEF SentInTime
  <1> QED
    BY <1>1, <1>2, <1>3, PTL DEF Spec, MinimumPeriod
=============================================================================
