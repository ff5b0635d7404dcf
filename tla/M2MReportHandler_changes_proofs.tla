-------------------- MODULE M2MReportHandler_changes_proofs --------------------
(***************************************************************************)
(* Theorems about M2MReportHandler and what it notifies: no change is      *)
(* forgotten, and the thresholds decide.                                   *)
(***************************************************************************)
EXTENDS M2MReportHandler_proofs

-----------------------------------------------------------------------------
(* The methods, member by member.                                          *)

\* Until a minimum period is exceeded its timer runs.
Guarded(h) ==
    h.observed /\ Has(h, "pmin") /\ ~h.pmin_exceeded => h.pmin_timer # OFF

Ticking(h) == h.pmin_timer # OFF \/ h.pmax_timer # OFF

\* What report() leaves alone.
Alike(g, h) ==
    /\ g.observed = h.observed /\ g.attributes = h.attributes
    /\ g.pmin = h.pmin /\ g.pmax = h.pmax
    /\ g.gt = h.gt /\ g.lt = h.lt /\ g.st = h.st
    /\ g.high_step = h.high_step /\ g.low_step = h.low_step
    /\ g.current = h.current

LEMMA HandleTimersMembers ==
    ASSUME NEW h, Sound(h)
    PROVE  LET g == HandleTimers(h)
           IN /\ Alike(g, h)
              /\ g.last = h.last /\ g.notify = h.notify /\ g.changed = h.changed
              /\ g.sent = h.sent /\ g.carried = h.carried
              /\ g.pmax_exceeded = h.pmax_exceeded
              /\ Guarded(g)
              /\ Ticking(h) => Ticking(g)
              /\ Has(h, "pmin") /\ h.pmin # h.pmax => Ticking(g)
              /\ Has(h, "pmax") /\ h.pmax > 0 => Ticking(g)
  <1> DEFINE g == HandleTimers(h)
  <1>1. /\ Alike(g, h)
        /\ g.last = h.last /\ g.notify = h.notify /\ g.changed = h.changed
        /\ g.sent = h.sent /\ g.carried = h.carried
        /\ g.pmax_exceeded = h.pmax_exceeded
    BY DEF Sound, Handlers, HandleTimers, Alike
  <1>2. /\ Has(h, "pmin") => (g.pmin_exceeded <=> h.pmin = h.pmax)
        /\ Has(h, "pmin") /\ h.pmin # h.pmax => g.pmin_timer = h.pmin
        /\ Has(h, "pmax") /\ h.pmax > 0 => g.pmax_timer = h.pmax
        /\ ~(Has(h, "pmin") /\ h.pmin # h.pmax) => g.pmin_timer = h.pmin_timer
        /\ ~(Has(h, "pmax") /\ h.pmax > 0) => g.pmax_timer = h.pmax_timer
    BY DEF Sound, Handlers, HandleTimers
  <1>3. h.pmin \in Nat /\ h.pmax \in Int /\ OFF = -1
    BY DEF Sound, Handlers, OFF
  <1> HIDE DEF g
  <1>4. Guarded(g)
    BY <1>1, <1>2, <1>3 DEF Guarded, Alike, Has
  <1>5. /\ Ticking(h) => Ticking(g)
        /\ Has(h, "pmin") /\ h.pmin # h.pmax => Ticking(g)
        /\ Has(h, "pmax") /\ h.pmax > 0 => Ticking(g)
    BY <1>2, <1>3 DEF Ticking
  <1> QED
    BY <1>1, <1>4, <1>5 DEF g

\* A change that is told and pending is sent with what it carries; else what the
\* maximum period asks; else nothing.
Told(h) == h.current # h.last /\ h.notify

LEMMA ReportMembers ==
    ASSUME NEW h, Sound(h)
    PROVE  LET r == Report(h)
           IN /\ Alike(r, h)
              /\ r.last = h.current
              /\ Guarded(r)
              /\ Told(h) => /\ r.sent = "change" /\ r.carried = h.changed
                            /\ r.changed = {} /\ ~r.notify
              /\ ~Told(h) /\ h.pmax_exceeded =>
                     /\ r.sent = "period" /\ r.carried = h.changed
                     /\ r.changed = {} /\ r.notify = h.notify
              /\ ~Told(h) /\ ~h.pmax_exceeded =>
                     /\ r.sent = h.sent /\ r.changed = h.changed /\ r.notify = h.notify
  <1> DEFINE reported == IF h.current # h.last /\ h.notify THEN SendChange(h)
                         ELSE IF h.pmax_exceeded THEN SendPeriod(h)
                         ELSE h
             t == HandleTimers(reported)
             r == [t EXCEPT !.last = h.current]
  <1>1. Sound(reported)
    BY ReportedSound
  <1>2. Alike(reported, h)
    BY DEF Sound, Handlers, SendChange, SendPeriod, Alike
  <1>3. /\ Told(h) => /\ reported.sent = "change" /\ reported.carried = h.changed
                      /\ reported.changed = {} /\ ~reported.notify
        /\ ~Told(h) /\ h.pmax_exceeded =>
               /\ reported.sent = "period" /\ reported.carried = h.changed
               /\ reported.changed = {} /\ reported.notify = h.notify
        /\ ~Told(h) /\ ~h.pmax_exceeded => reported = h
    BY DEF Sound, Handlers, SendChange, SendPeriod, Told
  <1> HIDE DEF reported
  <1>4. /\ Sound(t) /\ Guarded(t) /\ Alike(t, reported)
        /\ t.notify = reported.notify /\ t.changed = reported.changed
        /\ t.sent = reported.sent /\ t.carried = reported.carried
    BY <1>1, HandleTimersSound, HandleTimersMembers
  <1> HIDE DEF t
  <1>5. /\ Alike(r, t) /\ r.last = h.current
        /\ r.notify = t.notify /\ r.changed = t.changed
        /\ r.sent = t.sent /\ r.carried = t.carried
        /\ (r.pmin_exceeded <=> t.pmin_exceeded) /\ r.pmin_timer = t.pmin_timer
    BY <1>4 DEF Sound, Handlers, Alike
  <1>6. Report(h) = r
    BY DEF Report, reported, t
  <1> HIDE DEF r
  <1>7. Alike(r, h)
    BY <1>2, <1>4, <1>5 DEF Alike
  <1>8. Guarded(r)
    BY <1>4, <1>5 DEF Guarded, Alike, Has
  <1> QED
    BY <1>3, <1>4, <1>5, <1>6, <1>7, <1>8

\* A value that differs from the last one is sent unless a minimum period runs; then
\* it stays pending, and the timer of that period runs.
LEMMA ScheduleReportMembers ==
    ASSUME NEW h, Sound(h), h.current # h.last
    PROVE  LET g == ScheduleReport(h)
               due == ~Has(h, "pmin") \/ h.pmin_exceeded
           IN /\ Alike(g, h)
              /\ due => /\ g.last = h.current /\ ~g.notify /\ Guarded(g)
                        /\ g.sent = "change" /\ g.carried = h.changed /\ g.changed = {}
              /\ ~due => /\ g.last = h.last /\ g.notify /\ g.changed = h.changed
                         /\ g.sent = h.sent
                         /\ Guarded(h) /\ h.observed => Guarded(g) /\ Ticking(g)
  <1> DEFINE pending == [h EXCEPT !.notify = TRUE]
             due == ~Has(h, "pmin") \/ h.pmin_exceeded
  <1>1. Sound(pending)
    BY DEF Sound, PeriodsWritten, Handlers, Has, CheckAttributeValidity
  <1>2. /\ Alike(pending, h) /\ pending.notify
        /\ pending.last = h.last /\ pending.changed = h.changed /\ pending.sent = h.sent
        /\ (pending.pmin_exceeded <=> h.pmin_exceeded)
        /\ pending.pmin_timer = h.pmin_timer
    BY DEF Sound, Handlers, Alike
  <1>3. ScheduleReport(h) = IF due THEN Report(pending) ELSE pending
    BY DEF ScheduleReport
  <1> HIDE DEF pending
  <1>4. Told(pending)
    BY <1>2 DEF Told, Alike
  <1>5. CASE due
    <2>1. /\ Alike(Report(pending), pending) /\ Guarded(Report(pending))
          /\ Report(pending).last = pending.current /\ ~Report(pending).notify
          /\ Report(pending).sent = "change" /\ Report(pending).carried = pending.changed
          /\ Report(pending).changed = {}
      BY <1>1, <1>4, ReportMembers
    <2>2. Alike(Report(pending), h)
      BY <1>2, <2>1 DEF Alike
    <2> QED
      BY <1>2, <1>3, <1>5, <2>1, <2>2 DEF Alike
  <1>6. CASE ~due
    <2>1. Guarded(h) /\ h.observed => Guarded(pending) /\ Ticking(pending)
      BY <1>2, <1>6 DEF Guarded, Ticking, Alike, Has
    <2> QED
      BY <1>2, <1>3, <1>6, <2>1
  <1> QED
    BY <1>5, <1>6

\* The change that is pending, if there is one.
Pending(g, h) ==
    g.current = h.current /\ g.last = h.last /\ g.notify = h.notify /\ g.changed = h.changed

LEMMA NowMembers ==
    ASSUME HandlerInv
    PROVE  /\ Alike(Now, handler) /\ Pending(Now, handler)
           /\ (Now.pmin_exceeded <=> handler.pmin_exceeded)
           /\ Now.pmin_timer = handler.pmin_timer /\ Now.pmax_timer = handler.pmax_timer
           /\ Now.sent = "none"
  BY DEF HandlerInv, Sound, Handlers, Now, Alike, Pending

LEMMA StopTimersMembers ==
    ASSUME NEW h, Sound(h), NEW observed \in BOOLEAN
    PROVE  LET g == [StopTimers(h) EXCEPT !.observed = observed]
           IN /\ Sound(g)
              /\ g.observed = observed /\ g.attributes = h.attributes
              /\ g.pmin = h.pmin /\ g.pmax = h.pmax /\ g.st = h.st
              /\ g.high_step = h.high_step /\ g.low_step = h.low_step
              /\ Pending(g, h)
              /\ ~Ticking(g)
              /\ g.sent = h.sent
  <1> DEFINE s == StopTimers(h)
             g == [s EXCEPT !.observed = observed]
  <1>1. /\ Sound(s)
        /\ Alike(s, h) /\ Pending(s, h) /\ ~Ticking(s) /\ s.sent = h.sent
    <2>1. Alike(s, h) /\ Pending(s, h) /\ s.sent = h.sent
      BY DEF Sound, Handlers, StopTimers, Alike, Pending
    <2>2. ~Ticking(s)
      BY DEF Sound, Handlers, StopTimers, Ticking
    <2> QED
      BY <2>1, <2>2, StopTimersSound
  <1> HIDE DEF s
  <1>2. Sound(g)
    BY <1>1 DEF Sound, PeriodsWritten, Handlers, Has, CheckAttributeValidity
  <1>3. /\ g.observed = observed /\ g.attributes = h.attributes
        /\ g.pmin = h.pmin /\ g.pmax = h.pmax /\ g.st = h.st
        /\ g.high_step = h.high_step /\ g.low_step = h.low_step
        /\ Pending(g, h)
        /\ g.sent = h.sent
    BY <1>1 DEF Sound, Handlers, Alike, Pending
  <1>4. ~Ticking(g)
    BY <1>1 DEF Sound, Handlers, Ticking
  <1> QED
    BY <1>2, <1>3, <1>4 DEF s

\* An observation that starts, or starts again after a write: what is pending stays.
LEMMA ObservedMembers ==
    ASSUME NEW h, Sound(h)
    PROVE  LET g == SetUnderObservation(h, TRUE)
           IN /\ g.observed /\ g.attributes = h.attributes
              /\ g.pmin = h.pmin /\ g.pmax = h.pmax /\ g.st = h.st
              /\ g.high_step = h.high_step /\ g.low_step = h.low_step
              /\ Pending(g, h)
              /\ Guarded(g)
              /\ Has(h, "pmin") /\ h.pmin # h.pmax => Ticking(g)
              /\ Has(h, "pmax") /\ h.pmax > 0 => Ticking(g)
              /\ g.sent = h.sent
  <1> DEFINE s == [StopTimers(h) EXCEPT !.observed = TRUE]
  <1>1. /\ Sound(s)
        /\ s.observed = TRUE /\ s.attributes = h.attributes
        /\ s.pmin = h.pmin /\ s.pmax = h.pmax /\ s.st = h.st
        /\ s.high_step = h.high_step /\ s.low_step = h.low_step
        /\ Pending(s, h) /\ s.sent = h.sent
    BY StopTimersMembers
  <1>2. SetUnderObservation(h, TRUE) = HandleTimers(s)
    BY DEF SetUnderObservation
  <1> HIDE DEF s
  <1>3. LET g == HandleTimers(s)
        IN /\ Alike(g, s) /\ g.last = s.last /\ g.notify = s.notify /\ g.changed = s.changed
           /\ g.sent = s.sent /\ Guarded(g)
           /\ Has(s, "pmin") /\ s.pmin # s.pmax => Ticking(g)
           /\ Has(s, "pmax") /\ s.pmax > 0 => Ticking(g)
    BY <1>1, HandleTimersMembers
  <1> QED
    BY <1>1, <1>2, <1>3 DEF Alike, Pending, Has

LEMMA DefaultMembers ==
    ASSUME NEW h \in Handlers
    PROVE  LET g == SetDefaultValues(h)
           IN /\ g.observed = h.observed /\ g.attributes = {} /\ g.pmin = 1
              /\ g.current = h.current /\ g.last = -1
              /\ g.notify = h.notify /\ g.changed = {}
              /\ g.pmin_timer = h.pmin_timer /\ g.pmax_timer = h.pmax_timer
              /\ g.sent = h.sent
  BY DEF Handlers, SetDefaultValues, NewHandler

\* What a query sets, and that it moves the limits with the step.
LEMMA WrittenMembers ==
    ASSUME NEW h, Sound(h), NEW q \in Queries
    PROVE  LET g == Written(h, q)
           IN /\ g.observed = h.observed /\ g.attributes = h.attributes \cup DOMAIN q
              /\ g.pmin = IF "pmin" \in DOMAIN q THEN q["pmin"] ELSE h.pmin
              /\ g.pmax = IF "pmax" \in DOMAIN q THEN q["pmax"] ELSE h.pmax
              /\ "st" \in DOMAIN q => /\ g.st = q["st"]
                                      /\ g.high_step = h.current + g.st
                                      /\ g.low_step = h.current - g.st
              /\ "st" \notin DOMAIN q => /\ g.st = h.st
                                         /\ g.high_step = h.high_step
                                         /\ g.low_step = h.low_step
              /\ Pending(g, h)
              /\ g.pmin_timer = h.pmin_timer /\ g.pmax_timer = h.pmax_timer
              /\ g.sent = h.sent
  <1> DEFINE In(a, old) == IF a \in DOMAIN q THEN q[a] ELSE old
             attributes == h.attributes \cup DOMAIN q
             pmin == In("pmin", h.pmin)
             pmax == In("pmax", h.pmax)
             gt == In("gt", h.gt)
             lt == In("lt", h.lt)
             st == In("st", h.st)
             set == [h EXCEPT !.attributes = attributes, !.pmin = pmin, !.pmax = pmax,
                              !.gt = gt, !.lt = lt, !.st = st]
             high == h.current + q["st"]
             low == h.current - q["st"]
             stepped == [set EXCEPT !.high_step = high, !.low_step = low]
  <1>1. Written(h, q) = IF "st" \in DOMAIN q THEN stepped ELSE set
    BY DEF Written
  <1>2. "st" \in DOMAIN q => st = q["st"]
    OBVIOUS
  <1>3. "st" \notin DOMAIN q => st = h.st
    OBVIOUS
  <1> HIDE DEF attributes, pmin, pmax, gt, lt, st, high, low
  <1>4. /\ set.observed = h.observed /\ set.attributes = attributes
        /\ set.pmin = pmin /\ set.pmax = pmax /\ set.st = st
        /\ set.high_step = h.high_step /\ set.low_step = h.low_step
        /\ Pending(set, h)
        /\ set.pmin_timer = h.pmin_timer /\ set.pmax_timer = h.pmax_timer
        /\ set.sent = h.sent
    BY DEF Sound, Handlers, Pending
  <1>5. /\ stepped.observed = h.observed /\ stepped.attributes = attributes
        /\ stepped.pmin = pmin /\ stepped.pmax = pmax /\ stepped.st = st
        /\ stepped.high_step = high /\ stepped.low_step = low
        /\ Pending(stepped, h)
        /\ stepped.pmin_timer = h.pmin_timer /\ stepped.pmax_timer = h.pmax_timer
        /\ stepped.sent = h.sent
    BY DEF Sound, Handlers, Pending
  <1> HIDE DEF set, stepped
  <1>6. CASE "st" \in DOMAIN q
    BY <1>1, <1>2, <1>5, <1>6 DEF attributes, pmin, pmax, high, low
  <1>7. CASE "st" \notin DOMAIN q
    BY <1>1, <1>3, <1>4, <1>7 DEF attributes, pmin, pmax
  <1> QED
    BY <1>6, <1>7

\* A value that is the last one decides nothing; another one is judged, and its
\* limits are those of the next.
LEMMA SetValueMembers ==
    ASSUME NEW h, Sound(h), NEW v \in Int
    PROVE  LET g == HandlerSetValue(h, v)
               new == [h EXCEPT !.current = v]
               due == ~Has(h, "pmin") \/ h.pmin_exceeded
           IN /\ g.observed = h.observed /\ g.attributes = h.attributes
              /\ g.pmin = h.pmin /\ g.pmax = h.pmax /\ g.st = h.st
              /\ g.current = v
              /\ v = h.last => /\ g.high_step = h.high_step /\ g.low_step = h.low_step
                               /\ g.last = h.last /\ g.notify = h.notify /\ g.sent = h.sent
                               /\ Guarded(h) => Guarded(g)
                               /\ Ticking(h) => Ticking(g)
              /\ v # h.last =>
                   /\ g.high_step = v + h.st /\ g.low_step = v - h.st
                   /\ Guarded(h) => Guarded(g)
                   /\ CheckThresholdValues(new) /\ due => /\ g.last = v /\ ~g.notify
                                                          /\ g.sent = "change"
                   /\ CheckThresholdValues(new) /\ ~due =>
                          /\ g.last = h.last /\ g.notify /\ g.sent = h.sent
                          /\ Guarded(h) /\ h.observed => Ticking(g)
                   /\ ~CheckThresholdValues(new) => g.last = v /\ ~g.notify /\ g.sent = h.sent
  <1> DEFINE g == HandlerSetValue(h, v)
             new == [h EXCEPT !.current = v]
             due == ~Has(h, "pmin") \/ h.pmin_exceeded
             decided == IF CheckThresholdValues(new) THEN ScheduleReport(new) ELSE OutOfRange(new)
             high == v + h.st
             low == v - h.st
             stepped == [decided EXCEPT !.high_step = high, !.low_step = low]
  <1>1. Sound(new)
    BY DEF Sound, PeriodsWritten, Handlers, Has, CheckAttributeValidity
  <1>2. /\ new.observed = h.observed /\ new.attributes = h.attributes
        /\ new.pmin = h.pmin /\ new.pmax = h.pmax /\ new.st = h.st /\ new.current = v
        /\ new.high_step = h.high_step /\ new.low_step = h.low_step
        /\ new.last = h.last /\ new.notify = h.notify /\ new.sent = h.sent
        /\ (new.pmin_exceeded <=> h.pmin_exceeded)
        /\ new.pmin_timer = h.pmin_timer /\ new.pmax_timer = h.pmax_timer
    BY DEF Sound, Handlers
  <1>3. g = IF v = h.last THEN new ELSE stepped
    BY DEF HandlerSetValue
  <1> HIDE DEF g, new, high, low
  <1>4. /\ Guarded(h) <=> Guarded(new)
        /\ Ticking(h) <=> Ticking(new)
        /\ due <=> ~Has(new, "pmin") \/ new.pmin_exceeded
    BY <1>2 DEF Guarded, Ticking, Has
  <1>5. CASE v = h.last
    BY <1>2, <1>3, <1>4, <1>5 DEF g, new
  <1>6. CASE v # h.last
    <2>1. CASE CheckThresholdValues(new)
      <3> DEFINE d == ScheduleReport(new)
      <3>1. /\ Alike(d, new) /\ (Guarded(new) => Guarded(d))
            /\ due => d.last = v /\ ~d.notify /\ d.sent = "change"
            /\ ~due => /\ d.last = h.last /\ d.notify /\ d.sent = h.sent
                       /\ Guarded(new) /\ h.observed => Ticking(d)
            /\ d \in Handlers
        <4>1. new.current # new.last
          BY <1>2, <1>6
        <4>2. /\ Alike(d, new)
              /\ due => d.last = new.current /\ ~d.notify /\ Guarded(d) /\ d.sent = "change"
              /\ ~due => /\ d.last = new.last /\ d.notify /\ d.sent = new.sent
                         /\ Guarded(new) /\ new.observed => Guarded(d) /\ Ticking(d)
          BY <1>1, <1>4, <4>1, ScheduleReportMembers
        <4>3. Guarded(new) => Guarded(d)
          BY <4>2 DEF Guarded, Alike
        <4>4. d \in Handlers
          <5>1. CASE due
            <6> DEFINE pending == [new EXCEPT !.notify = TRUE]
            <6>1. Sound(pending)
              BY <1>1 DEF Sound, PeriodsWritten, Handlers, Has, CheckAttributeValidity
            <6>2. d = Report(pending)
              BY <1>4, <5>1 DEF ScheduleReport
            <6> QED
              BY <6>1, <6>2, ReportSound DEF Sound
          <5>2. CASE ~due
            BY <1>1, <1>4, <5>2 DEF Sound, Handlers, ScheduleReport
          <5> QED
            BY <5>1, <5>2
        <4> QED
          BY <1>2, <4>2, <4>3, <4>4
      <3>2. decided = d
        BY <2>1
      <3> HIDE DEF d
      <3>3. stepped = [d EXCEPT !.high_step = high, !.low_step = low]
        BY <3>2
      <3> HIDE DEF decided, stepped
      <3>4. /\ stepped.observed = d.observed /\ stepped.attributes = d.attributes
            /\ stepped.pmin = d.pmin /\ stepped.pmax = d.pmax /\ stepped.st = d.st
            /\ stepped.current = d.current /\ stepped.last = d.last
            /\ stepped.high_step = high /\ stepped.low_step = low
            /\ stepped.notify = d.notify /\ stepped.sent = d.sent
            /\ stepped.pmin_exceeded = d.pmin_exceeded
            /\ stepped.pmin_timer = d.pmin_timer /\ stepped.pmax_timer = d.pmax_timer
        BY <3>1, <3>3 DEF Handlers
      <3>5. /\ Guarded(d) => Guarded(stepped)
            /\ Ticking(d) => Ticking(stepped)
        BY <3>4 DEF Guarded, Ticking, Has
      <3> QED
        BY <1>2, <1>3, <1>4, <1>6, <2>1, <3>1, <3>4, <3>5 DEF Alike, g, new, high, low
    <2>2. CASE ~CheckThresholdValues(new)
      <3> DEFINE o == OutOfRange(new)
      <3>1. /\ o.observed = new.observed /\ o.attributes = new.attributes
            /\ o.pmin = new.pmin /\ o.pmax = new.pmax /\ o.st = new.st
            /\ o.current = new.current /\ o.last = new.current
            /\ ~o.notify /\ o.sent = new.sent
            /\ o \in Handlers
        <4>1. Sound(new)
          BY <1>1
        <4>2. o \in Handlers
          BY <4>1, NoTimer DEF Sound, Handlers, OutOfRange
        <4> QED
          BY <4>1, <4>2 DEF Sound, Handlers, OutOfRange
      <3>2. Guarded(new) => Guarded(o)
        BY <1>1 DEF Sound, Handlers, Guarded, OutOfRange, Has
      <3>3. decided = o
        BY <2>2
      <3> HIDE DEF o
      <3>4. stepped = [o EXCEPT !.high_step = high, !.low_step = low]
        BY <3>3
      <3> HIDE DEF decided, stepped
      <3>5. /\ stepped.observed = o.observed /\ stepped.attributes = o.attributes
            /\ stepped.pmin = o.pmin /\ stepped.pmax = o.pmax /\ stepped.st = o.st
            /\ stepped.current = o.current /\ stepped.last = o.last
            /\ stepped.high_step = high /\ stepped.low_step = low
            /\ stepped.notify = o.notify /\ stepped.sent = o.sent
            /\ stepped.pmin_exceeded = o.pmin_exceeded /\ stepped.pmin_timer = o.pmin_timer
        BY <3>1, <3>4 DEF Handlers
      <3>6. Guarded(o) => Guarded(stepped)
        BY <3>5 DEF Guarded, Has
      <3> QED
        BY <1>2, <1>3, <1>4, <1>6, <2>2, <3>1, <3>2, <3>5, <3>6 DEF g, new, high, low
    <2> QED
      BY <2>1, <2>2
  <1> QED
    BY <1>5, <1>6

LEMMA TriggerMembers ==
    ASSUME NEW h, Sound(h), NEW id \in Ids
    PROVE  LET g == SetNotificationTrigger(h, id)
               due == ~Has(h, "pmin") \/ h.pmin_exceeded
           IN /\ g.observed = h.observed /\ g.attributes = h.attributes
              /\ g.pmin = h.pmin /\ g.pmax = h.pmax /\ g.st = h.st
              /\ g.current = 0
              /\ Guarded(h) => Guarded(g)
              /\ due => /\ g.last = 0 /\ g.sent = "change"
                        /\ g.carried = h.changed \cup {id} /\ g.changed = {}
              /\ ~due => /\ g.last = 1 /\ g.notify /\ g.sent = h.sent
                         /\ g.changed = h.changed \cup {id}
                         /\ Guarded(h) /\ h.observed => Ticking(g)
  <1> DEFINE g == SetNotificationTrigger(h, id)
             due == ~Has(h, "pmin") \/ h.pmin_exceeded
             ids == h.changed \cup {id}
             t == [h EXCEPT !.changed = ids, !.current = 0, !.last = 1]
  <1>1. Sound([h EXCEPT !.changed = @ \cup {id}, !.current = 0, !.last = 1])
    BY TriggeredSound
  <1>2. Sound(t) /\ g = ScheduleReport(t)
    BY <1>1 DEF SetNotificationTrigger
  <1> HIDE DEF ids, g
  <1>3. /\ t.observed = h.observed /\ t.attributes = h.attributes
        /\ t.pmin = h.pmin /\ t.pmax = h.pmax /\ t.st = h.st
        /\ t.current = 0 /\ t.last = 1 /\ t.changed = ids /\ t.sent = h.sent
        /\ (t.pmin_exceeded <=> h.pmin_exceeded)
        /\ t.pmin_timer = h.pmin_timer
    BY DEF Sound, Handlers
  <1> HIDE DEF t
  <1>4. /\ Guarded(h) <=> Guarded(t)
        /\ due <=> ~Has(t, "pmin") \/ t.pmin_exceeded
        /\ t.current # t.last
    BY <1>3 DEF Guarded, Has
  <1>5. /\ Alike(g, t)
        /\ due => /\ g.last = t.current /\ Guarded(g)
                  /\ g.sent = "change" /\ g.carried = t.changed /\ g.changed = {}
        /\ ~due => /\ g.last = t.last /\ g.notify /\ g.changed = t.changed /\ g.sent = t.sent
                   /\ Guarded(t) /\ t.observed => Guarded(g) /\ Ticking(g)
    BY <1>2, <1>4, ScheduleReportMembers
  <1>6. Guarded(h) => Guarded(g)
    BY <1>3, <1>4, <1>5 DEF Guarded, Alike
  <1> QED
    BY <1>3, <1>4, <1>5, <1>6 DEF Alike, g, ids

\* What a timer that expires does to the handler: it reports, or it is silent.
Reported(g, h) ==
    /\ Alike(g, h) /\ Guarded(g)
    /\ g.last = h.current
    /\ Told(h) => g.sent = "change" /\ g.carried = h.changed /\ g.changed = {} /\ ~g.notify
    /\ ~Told(h) => /\ g.notify = h.notify
                   /\ \/ g.sent = "period" /\ g.carried = h.changed /\ g.changed = {}
                      \/ g.sent = "none" /\ g.changed = h.changed

Silent(g, h) == Alike(g, h) /\ Pending(g, h) /\ Guarded(g) /\ g.sent = "none"

LEMMA ReportIsReported ==
    ASSUME NEW h, Sound(h), NEW g, Alike(g, h), Pending(g, h), g.sent = "none", Sound(g)
    PROVE  Reported(Report(g), h)
  <1>1. Told(g) <=> Told(h)
    BY DEF Told, Pending
  <1>2. LET r == Report(g)
        IN /\ Alike(r, g)
           /\ r.last = g.current
           /\ Guarded(r)
           /\ Told(g) => r.sent = "change" /\ r.carried = g.changed /\ r.changed = {} /\ ~r.notify
           /\ ~Told(g) /\ g.pmax_exceeded =>
                  /\ r.sent = "period" /\ r.carried = g.changed
                  /\ r.changed = {} /\ r.notify = g.notify
           /\ ~Told(g) /\ ~g.pmax_exceeded =>
                  /\ r.sent = g.sent /\ r.changed = g.changed /\ r.notify = g.notify
    BY ReportMembers
  <1>3. Alike(Report(g), h)
    BY <1>2 DEF Alike
  <1>4. g.current = h.current /\ g.changed = h.changed /\ g.notify = h.notify
    BY DEF Pending
  <1> QED
    BY <1>1, <1>2, <1>3, <1>4 DEF Reported

\* The minimum timer reports whenever a change is pending.
LEMMA PminExpiredMembers ==
    ASSUME HandlerInv, PminExpired
    PROVE  /\ value' = value
           /\ Reports(handler', owed)
           /\ Reported(handler', handler) \/ (Silent(handler', handler) /\ ~handler.notify)
  <1> DEFINE expired == [Now EXCEPT !.pmin_timer = OFF, !.pmin_exceeded = TRUE]
             reports == handler.notify \/ (handler.pmin > 0 /\ ~Has(handler, "pmax"))
             h == IF reports THEN Report(expired) ELSE expired
  <1>1. handler.pmin_timer = 0 /\ value' = value /\ Reports(h, owed)
    BY DEF PminExpired
  <1>2. Sound(expired) /\ Sound(Now) /\ Sound(handler)
    BY <1>1, PminExpiredSound, NowSound DEF HandlerInv
  <1>3. /\ expired.sent = Now.sent /\ expired.pmin_exceeded
        /\ Alike(expired, Now) /\ Pending(expired, Now)
    BY <1>2 DEF Sound, Handlers, Alike, Pending
  <1> HIDE DEF expired
  <1>4. Alike(expired, handler) /\ Pending(expired, handler) /\ expired.sent = "none"
    BY <1>3, NowMembers DEF Alike, Pending
  <1>5. Silent(expired, handler)
    BY <1>3, <1>4 DEF Silent, Guarded
  <1>6. Reported(Report(expired), handler)
    BY <1>2, <1>4, ReportIsReported
  <1>7. handler' = h /\ Reports(handler', owed)
    BY <1>1 DEF Reports
  <1> QED
    BY <1>1, <1>5, <1>6, <1>7

\* The maximum timer reports unless a minimum timer will.
LEMMA PmaxExpiredMembers ==
    ASSUME HandlerInv, Guarded(handler), PmaxExpired
    PROVE  /\ value' = value
           /\ Reports(handler', owed)
           /\ \/ Reported(handler', handler)
              \/ Silent(handler', handler) /\ (handler.observed => Ticking(handler'))
  <1> DEFINE expired == [Now EXCEPT !.pmax_timer = OFF, !.pmax_exceeded = TRUE]
             reports == handler.pmin_exceeded \/ ~Has(handler, "pmin")
             h == IF reports THEN Report(expired) ELSE expired
  <1>1. handler.pmax_timer = 0 /\ value' = value /\ Reports(h, owed)
    BY DEF PmaxExpired
  <1>2. Sound(expired) /\ Sound(Now) /\ Sound(handler)
    BY <1>1, PmaxExpiredSound, NowSound DEF HandlerInv
  <1>3. /\ expired.sent = Now.sent
        /\ Alike(expired, Now) /\ Pending(expired, Now)
        /\ (expired.pmin_exceeded <=> Now.pmin_exceeded)
        /\ expired.pmin_timer = Now.pmin_timer
    BY <1>2 DEF Sound, Handlers, Alike, Pending
  <1> HIDE DEF expired
  <1>4. /\ Alike(expired, handler) /\ Pending(expired, handler) /\ expired.sent = "none"
        /\ (expired.pmin_exceeded <=> handler.pmin_exceeded)
        /\ expired.pmin_timer = handler.pmin_timer
    BY <1>3, NowMembers DEF Alike, Pending
  <1>5. /\ Silent(expired, handler)
        /\ ~reports /\ handler.observed => Ticking(expired)
    BY <1>4 DEF Silent, Guarded, Ticking, Alike, Has
  <1>6. Reported(Report(expired), handler)
    BY <1>2, <1>4, ReportIsReported
  <1>7. handler' = h /\ Reports(handler', owed)
    BY <1>1 DEF Reports
  <1> QED
    BY <1>1, <1>5, <1>6, <1>7

LEMMA TickMembers ==
    ASSUME HandlerInv, Guarded(handler), Tick
    PROVE  /\ Silent(handler', handler)
           /\ Ticking(handler) => Ticking(handler')
           /\ ~Ticking(handler) => ~Ticking(handler')
           /\ UNCHANGED <<value, server, owed>>
  <1> DEFINE Left(timer) == IF timer = OFF THEN OFF ELSE timer - 1
             pmin_left == Left(Now.pmin_timer)
             pmax_left == Left(Now.pmax_timer)
             h == [Now EXCEPT !.pmin_timer = pmin_left, !.pmax_timer = pmax_left]
  <1>1. handler' = h /\ UNCHANGED <<value, server, owed>>
    BY DEF Tick
  <1>2. /\ Now.pmin_timer \in Timers \ {0} /\ Now.pmax_timer \in Timers \ {0}
        /\ Now.pmin_timer = handler.pmin_timer /\ Now.pmax_timer = handler.pmax_timer
    BY NowMembers DEF Tick, HandlerInv, Sound, Handlers
  <1>3. /\ Now.pmin_timer # OFF <=> pmin_left # OFF
        /\ Now.pmax_timer # OFF <=> pmax_left # OFF
    BY <1>2, OptionsAssumption DEF Timers, OFF
  <1> HIDE DEF pmin_left, pmax_left
  <1>4. /\ h.sent = Now.sent
        /\ Alike(h, Now) /\ Pending(h, Now)
        /\ (h.pmin_exceeded <=> Now.pmin_exceeded)
        /\ h.pmin_timer = pmin_left /\ h.pmax_timer = pmax_left
    BY NowSound DEF Sound, Handlers, Alike, Pending
  <1> HIDE DEF h
  <1>5. Alike(h, handler) /\ Pending(h, handler) /\ h.sent = "none"
    BY <1>4, NowMembers DEF Alike, Pending
  <1>6. Guarded(h)
    BY <1>2, <1>3, <1>4, <1>5, NowMembers DEF Guarded, Alike, Has
  <1> QED
    BY <1>1, <1>2, <1>3, <1>4, <1>5, <1>6 DEF Silent, Ticking

LEMMA NewHandlerMembers ==
    /\ ~NewHandler.observed /\ NewHandler.attributes = {} /\ NewHandler.pmin = 1
    /\ NewHandler.current = 0 /\ NewHandler.last = -1 /\ ~NewHandler.notify
    /\ ~Ticking(NewHandler)
  BY DEF NewHandler, Ticking

\* A RESET ends the observation, and with it the timers, but not what was pending.
LEMMA ResetMembers ==
    ASSUME HandlerInv
    PROVE  LET g == SetUnderObservation(Now, FALSE)
           IN /\ ~g.observed /\ g.attributes = {} /\ g.pmin = 1 /\ g.last = -1
  <1> DEFINE s == [StopTimers(Now) EXCEPT !.observed = FALSE]
  <1>1. Sound(s) /\ s.observed = FALSE
    BY NowSound, StopTimersMembers
  <1>2. SetUnderObservation(Now, FALSE) = SetDefaultValues(s)
    BY DEF SetUnderObservation
  <1> HIDE DEF s
  <1> QED
    BY <1>1, <1>2, DefaultMembers DEF Sound

\* A query that is accepted adds its attributes and, while the node is observed,
\* starts the timers again; one that is refused leaves the defaults.
LEMMA WriteMembers ==
    ASSUME HandlerInv, Guarded(handler), NEW q \in Queries, WriteAttributes(q)
    PROVE  LET w == Written(Now, q)
               g == handler'
           IN /\ g.observed = handler.observed
              /\ g.current = handler.current /\ g.notify = handler.notify
              /\ Guarded(g)
              /\ CheckAttributeValidity(w) =>
                   /\ Pending(g, handler)
                   /\ g.attributes = handler.attributes \cup DOMAIN q
                   /\ g.pmin = IF "pmin" \in DOMAIN q THEN q["pmin"] ELSE handler.pmin
                   /\ g.pmax = IF "pmax" \in DOMAIN q THEN q["pmax"] ELSE handler.pmax
                   /\ "st" \in DOMAIN q => /\ g.st = q["st"]
                                           /\ g.high_step = g.current + g.st
                                           /\ g.low_step = g.current - g.st
                   /\ "st" \notin DOMAIN q => /\ g.st = handler.st
                                              /\ g.high_step = handler.high_step
                                              /\ g.low_step = handler.low_step
                   /\ handler.observed /\ Has(g, "pmin") /\ g.pmin # g.pmax => Ticking(g)
                   /\ handler.observed /\ Has(g, "pmax") /\ g.pmax > 0 => Ticking(g)
                   /\ ~handler.observed => (Ticking(g) <=> Ticking(handler))
              /\ ~CheckAttributeValidity(w) =>
                   /\ g.attributes = {} /\ g.pmin = 1 /\ g.last = -1
                   /\ Ticking(g) <=> Ticking(handler)
  <1> DEFINE w == Written(Now, q)
             g == handler'
  <1>1. Sound(Now) /\ w \in Handlers /\ PeriodsWritten(w)
    BY NowSound, WrittenTyped
  <1>2. /\ w.observed = Now.observed /\ w.attributes = Now.attributes \cup DOMAIN q
        /\ w.pmin = IF "pmin" \in DOMAIN q THEN q["pmin"] ELSE Now.pmin
        /\ w.pmax = IF "pmax" \in DOMAIN q THEN q["pmax"] ELSE Now.pmax
        /\ "st" \in DOMAIN q => /\ w.st = q["st"]
                                /\ w.high_step = Now.current + w.st
                                /\ w.low_step = Now.current - w.st
        /\ "st" \notin DOMAIN q => /\ w.st = Now.st
                                   /\ w.high_step = Now.high_step
                                   /\ w.low_step = Now.low_step
        /\ Pending(w, Now)
        /\ w.pmin_timer = Now.pmin_timer /\ w.pmax_timer = Now.pmax_timer
    BY <1>1, WrittenMembers
  <1>3. g = IF ~CheckAttributeValidity(w) THEN SetDefaultValues(w)
            ELSE IF Now.observed THEN SetUnderObservation(w, TRUE)
            ELSE w
    BY DEF WriteAttributes, HandleObservationAttribute
  <1> HIDE DEF w, g
  <1>4. /\ Pending(w, handler) /\ w.observed = handler.observed
        /\ w.attributes = handler.attributes \cup DOMAIN q
        /\ w.pmin = IF "pmin" \in DOMAIN q THEN q["pmin"] ELSE handler.pmin
        /\ w.pmax = IF "pmax" \in DOMAIN q THEN q["pmax"] ELSE handler.pmax
        /\ "st" \in DOMAIN q => /\ w.st = q["st"]
                                /\ w.high_step = w.current + w.st
                                /\ w.low_step = w.current - w.st
        /\ "st" \notin DOMAIN q => /\ w.st = handler.st
                                   /\ w.high_step = handler.high_step
                                   /\ w.low_step = handler.low_step
        /\ Ticking(w) <=> Ticking(handler)
    BY <1>2, NowMembers DEF Pending, Alike, Ticking
  <1>5. CASE ~CheckAttributeValidity(w)
    <2>1. /\ g.observed = w.observed /\ g.attributes = {} /\ g.pmin = 1
          /\ g.current = w.current /\ g.last = -1 /\ g.notify = w.notify
          /\ g.pmin_timer = w.pmin_timer /\ g.pmax_timer = w.pmax_timer
      BY <1>1, <1>3, <1>5, DefaultMembers
    <2> QED
      BY <1>4, <1>5, <2>1 DEF Pending, Ticking, Guarded, Has, w, g
  <1>6. CASE CheckAttributeValidity(w) /\ handler.observed
    <2>1. Sound(w)
      BY <1>1, <1>6 DEF Sound
    <2>2. g = SetUnderObservation(w, TRUE)
      BY <1>3, <1>6, NowSound
    <2>3. /\ g.observed /\ g.attributes = w.attributes
          /\ g.pmin = w.pmin /\ g.pmax = w.pmax /\ g.st = w.st
          /\ g.high_step = w.high_step /\ g.low_step = w.low_step
          /\ Pending(g, w) /\ Guarded(g)
          /\ Has(w, "pmin") /\ w.pmin # w.pmax => Ticking(g)
          /\ Has(w, "pmax") /\ w.pmax > 0 => Ticking(g)
      BY <2>1, <2>2, ObservedMembers
    <2>4. handler.observed = TRUE /\ g.observed = TRUE
      <3>1. g \in Handlers /\ handler \in Handlers
        BY <2>1, <2>2, SetUnderObservationSound DEF HandlerInv, Sound
      <3> QED
        BY <1>6, <2>3, <3>1 DEF Handlers
    <2> QED
      BY <1>4, <1>6, <2>3, <2>4 DEF Pending, Has, w, g
  <1>7. CASE CheckAttributeValidity(w) /\ ~handler.observed
    <2>1. g = w
      BY <1>3, <1>7, NowSound
    <2>2. Guarded(w)
      BY <1>4, <1>7 DEF Guarded
    <2> QED
      BY <1>4, <1>7, <2>1, <2>2 DEF Pending, w, g
  <1> QED
    BY <1>5, <1>6, <1>7

LEMMA MalformedMembers ==
    ASSUME HandlerInv, WriteMalformed
    PROVE  /\ handler'.observed = handler.observed /\ handler'.attributes = {}
           /\ handler'.pmin = 1
           /\ handler'.current = handler.current /\ handler'.last = -1
           /\ handler'.notify = handler.notify
           /\ Ticking(handler') <=> Ticking(handler)
           /\ Guarded(handler')
           /\ UNCHANGED <<value, server, owed>>
  <1> DEFINE g == SetDefaultValues(Now)
  <1>1. /\ g.observed = Now.observed /\ g.attributes = {} /\ g.pmin = 1
        /\ g.current = Now.current /\ g.last = -1 /\ g.notify = Now.notify
        /\ g.pmin_timer = Now.pmin_timer /\ g.pmax_timer = Now.pmax_timer
    BY NowSound, DefaultMembers DEF Sound
  <1>2. handler' = g /\ UNCHANGED <<value, server, owed>>
    BY DEF WriteMalformed
  <1> HIDE DEF g
  <1> QED
    BY <1>1, <1>2, NowMembers DEF Alike, Pending, Ticking, Guarded, Has

-----------------------------------------------------------------------------
(* A minimum period that is not over has its timer.                        *)

GuardedInv == HandlerInv /\ Guarded(handler)

LEMMA InitGuarded == Init => GuardedInv
  BY InitSound, NewHandlerMembers DEF Init, GuardedInv, Guarded

LEMMA GuardedKept == GuardedInv /\ [Next]_vars => GuardedInv'
  <1> SUFFICES ASSUME GuardedInv, [Next]_vars PROVE GuardedInv'
    OBVIOUS
  <1>1. HandlerInv /\ Guarded(handler) /\ HandlerInv'
    BY HandlerInvKept DEF GuardedInv
  <1>2. Sound(Now) /\ Guarded(Now)
    BY <1>1, NowSound, NowMembers DEF Guarded, Alike, Has
  <1>3. Guarded(handler')
    <2>1. ASSUME NEW v \in Values, SetValue(v) PROVE Guarded(handler')
      <3>1. v \in Int
        BY OptionsAssumption
      <3>2. Guarded(HandlerSetValue(Now, v))
        BY <1>2, <3>1, SetValueMembers
      <3>3. handler' = HandlerSetValue(Now, v) \/ handler' = Now
        BY <2>1 DEF SetValue, Reports
      <3> QED
        BY <1>2, <3>2, <3>3
    <2>2. ASSUME NEW id \in Ids, Change(id) PROVE Guarded(handler')
      BY <1>2, <2>2, TriggerMembers DEF Change, Reports
    <2>3. CASE Observe
      BY <1>2, <2>3, ObservedMembers DEF Observe
    <2>4. CASE Cancel
      BY <2>4, NewHandlerMembers DEF Cancel, Guarded
    <2>5. CASE Reset
      BY <1>1, <2>5, ResetMembers DEF Reset, Guarded
    <2>6. ASSUME NEW q \in Queries, WriteAttributes(q) PROVE Guarded(handler')
      BY <1>1, <2>6, WriteMembers
    <2>7. CASE WriteMalformed
      BY <1>1, <2>7, MalformedMembers
    <2>8. CASE PminExpired
      BY <1>1, <2>8, PminExpiredMembers DEF Reported, Silent
    <2>9. CASE PmaxExpired
      BY <1>1, <2>9, PmaxExpiredMembers DEF Reported, Silent
    <2>10. CASE Tick
      BY <1>1, <2>10, TickMembers DEF Silent
    <2>11. CASE UNCHANGED vars
      BY <1>1, <2>11 DEF vars
    <2> QED
      BY <2>1, <2>2, <2>3, <2>4, <2>5, <2>6, <2>7, <2>8, <2>9, <2>10, <2>11 DEF Next
  <1> QED
    BY <1>1, <1>3 DEF GuardedInv, Guarded, Has

-----------------------------------------------------------------------------
(* Objects and instances: the changes to be carried.                       *)

\* The server writes nothing that is refused: no query misspelled, and no maximum
\* period below a minimum or below the default minimum of one second.
NothingRefused ==
    /\ "misspells" \notin Server
    /\ "pmax" \in DOMAIN Options => \A max \in Options["pmax"] : max >= -1 =>
           /\ max >= 1
           /\ "pmin" \in DOMAIN Options => \A min \in Options["pmin"] : min <= max

\* Every change to be told is among those the next notification carries; one that
\* waits does so for a minimum period, whose timer runs, or the maximum's.
ObjectInv ==
    /\ GuardedInv
    /\ ~Has(handler, "pmin") => handler.pmin = 1
    /\ owed \subseteq handler.changed
    /\ ~handler.observed => owed = {}
    /\ owed # {} => /\ handler.notify
                    /\ handler.current # handler.last
                    /\ Ticking(handler)
                    /\ Has(handler, "pmin")

LEMMA NothingIsRefused ==
    ASSUME ~Numeric, NothingRefused, ObjectInv, NEW q \in Queries
    PROVE  CheckAttributeValidity(Written(Now, q))
  <1> DEFINE w == Written(Now, q)
  <1>1. HandlerInv
    BY DEF ObjectInv, GuardedInv
  <1>2. w \in Handlers /\ PeriodsWritten(w)
    BY <1>1, NowSound, WrittenTyped
  <1>3. /\ w.attributes = Now.attributes \cup DOMAIN q
        /\ w.pmin = IF "pmin" \in DOMAIN q THEN q["pmin"] ELSE Now.pmin
    BY <1>1, NowSound, WrittenMembers
  <1> HIDE DEF w
  <1>4. w.attributes \subseteq DOMAIN Options /\ w.pmin \in Nat /\ w.pmax \in Int
    BY <1>2 DEF Handlers
  <1>5. ~Has(w, "gt")
    BY <1>4, OptionsAssumption DEF Has, Periods
  <1>6. ~Has(w, "pmin") => w.pmin = 1
    BY <1>1, <1>3, NowMembers DEF Alike, Has, ObjectInv
  <1>7. ~(Has(w, "pmax") /\ w.pmax >= -1 /\ w.pmin > w.pmax)
    <2> SUFFICES ASSUME Has(w, "pmax"), w.pmax >= -1
                 PROVE  w.pmin <= w.pmax
      BY <1>4
    <2>1. "pmax" \in DOMAIN Options /\ w.pmax \in Options["pmax"]
      BY <1>2, <1>4 DEF PeriodsWritten, Has
    <2>2. CASE Has(w, "pmin")
      <3>1. "pmin" \in DOMAIN Options /\ w.pmin \in Options["pmin"]
        BY <1>2, <1>4, <2>2 DEF PeriodsWritten, Has
      <3> QED
        BY <2>1, <3>1 DEF NothingRefused
    <2>3. CASE ~Has(w, "pmin")
      BY <1>4, <1>6, <2>1, <2>3 DEF NothingRefused
    <2> QED
      BY <2>2, <2>3
  <1> QED
    BY <1>5, <1>7 DEF CheckAttributeValidity, w

\* A timer that reports tells all that is owed; one that is silent leaves it.
LEMMA ExpiryKeepsObjects ==
    ASSUME ObjectInv, ~Numeric, GuardedInv', Reports(handler', owed),
           \/ Reported(handler', handler)
           \/ /\ Silent(handler', handler)
              /\ handler.notify /\ handler.observed => Ticking(handler')
    PROVE  ObjectInv'
  <1>1. CASE Reported(handler', handler)
    <2>1. owed' = {}
      <3>1. CASE owed = {}
        BY <3>1 DEF Reports
      <3>2. CASE owed # {}
        BY <1>1, <3>2 DEF ObjectInv, Told, Reported, Reports
      <3> QED
        BY <3>1, <3>2
    <2> QED
      BY <1>1, <2>1 DEF ObjectInv, Reported, Alike, Has
  <1>2. CASE /\ Silent(handler', handler)
             /\ handler.notify /\ handler.observed => Ticking(handler')
    <2>1. owed' = owed
      BY <1>2 DEF Silent, Reports
    <2> QED
      BY <1>2, <2>1 DEF ObjectInv, Silent, Alike, Pending, Has, Ticking
  <1> QED
    BY <1>1, <1>2

LEMMA ObjectKept ==
    ASSUME ~Numeric, NothingRefused
    PROVE  ObjectInv /\ [Next]_vars => ObjectInv'
  <1> SUFFICES ASSUME ObjectInv, [Next]_vars PROVE ObjectInv'
    OBVIOUS
  <1>1. HandlerInv /\ Guarded(handler) /\ GuardedInv'
    BY GuardedKept DEF ObjectInv, GuardedInv
  <1>2. Sound(Now) /\ Guarded(Now) /\ Alike(Now, handler) /\ Pending(Now, handler)
        /\ Now.sent = "none"
    BY <1>1, NowSound, NowMembers DEF Guarded, Alike, Has
  <1>3. ASSUME NEW id \in Ids, Change(id) PROVE ObjectInv'
    <2> DEFINE g == SetNotificationTrigger(Now, id)
               due == ~Has(Now, "pmin") \/ Now.pmin_exceeded
    <2>1. /\ g.observed = Now.observed /\ g.attributes = Now.attributes /\ g.pmin = Now.pmin
          /\ g.current = 0
          /\ due => g.sent = "change" /\ g.carried = Now.changed \cup {id} /\ g.changed = {}
          /\ ~due => /\ g.last = 1 /\ g.notify /\ g.sent = Now.sent
                     /\ g.changed = Now.changed \cup {id}
                     /\ Guarded(Now) /\ Now.observed => Ticking(g)
      BY <1>2, TriggerMembers
    <2>2. handler.observed /\ handler' = g /\ Reports(handler', owed \cup {id})
      BY <1>3 DEF Change, Reports
    <2> HIDE DEF g
    <2>3. handler'.observed /\ (~Has(handler', "pmin") => handler'.pmin = 1)
      BY <1>2, <2>1, <2>2 DEF Alike, Has, ObjectInv
    <2>4. CASE due
      <3>1. owed' = {}
        BY <1>2, <2>1, <2>2, <2>4 DEF Reports, Pending, ObjectInv
      <3> QED
        BY <1>1, <2>3, <3>1 DEF ObjectInv
    <2>5. CASE ~due
      <3>1. owed' = owed \cup {id}
        BY <1>2, <2>1, <2>2, <2>5 DEF Reports
      <3>2. /\ owed' \subseteq handler'.changed
            /\ handler'.notify /\ handler'.current # handler'.last /\ Ticking(handler')
            /\ Has(handler', "pmin")
        BY <1>2, <2>1, <2>2, <2>5, <3>1 DEF Alike, Pending, Has, ObjectInv
      <3> QED
        BY <1>1, <2>3, <3>2 DEF ObjectInv, Ticking, Has
    <2> QED
      BY <2>4, <2>5
  <1>4. CASE Observe
    <2>1. handler'.attributes = handler.attributes /\ handler'.pmin = handler.pmin /\ owed' = {}
      BY <1>2, <1>4, ObservedMembers DEF Observe, Alike
    <2> QED
      BY <1>1, <2>1 DEF ObjectInv, Has
  <1>5. CASE Cancel
    BY <1>1, <1>5, NewHandlerMembers DEF Cancel, ObjectInv
  <1>6. CASE Reset
    BY <1>1, <1>6, ResetMembers DEF Reset, ObjectInv
  <1>7. ASSUME NEW q \in Queries, WriteAttributes(q) PROVE ObjectInv'
    <2>1. CheckAttributeValidity(Written(Now, q))
      BY NothingIsRefused
    <2>2. /\ handler'.observed = handler.observed
          /\ Pending(handler', handler)
          /\ handler'.attributes = handler.attributes \cup DOMAIN q
          /\ handler'.pmin = IF "pmin" \in DOMAIN q THEN q["pmin"] ELSE handler.pmin
          /\ handler.observed /\ Has(handler', "pmin") /\ handler'.pmin # handler'.pmax
               => Ticking(handler')
          /\ handler.observed /\ Has(handler', "pmax") /\ handler'.pmax > 0 => Ticking(handler')
      BY <1>1, <1>7, <2>1, WriteMembers
    <2>3. owed' = {} \/ owed' = owed
      BY <1>7 DEF WriteAttributes
    <2>4. CASE owed' = {}
      BY <1>1, <2>2, <2>4 DEF ObjectInv, Has
    <2>5. CASE owed' = owed /\ owed # {}
      <3>1. handler.observed /\ Has(handler', "pmin")
        BY <2>2, <2>5 DEF ObjectInv, Has
      <3>2. Ticking(handler')
        <4>1. CASE handler'.pmin # handler'.pmax
          BY <2>2, <3>1, <4>1
        <4>2. CASE handler'.pmin = handler'.pmax
          <5>1. /\ handler'.pmin \in Nat /\ handler'.attributes \subseteq DOMAIN Options
                /\ PeriodsWritten(handler')
            BY <1>1 DEF GuardedInv, HandlerInv, Sound, Handlers
          <5>2. Has(handler', "pmax") /\ handler'.pmax \in Options["pmax"]
            BY <4>2, <5>1 DEF PeriodsWritten
          <5>3. handler'.pmax >= 1
            BY <4>2, <5>1, <5>2 DEF NothingRefused, Has
          <5> QED
            BY <2>2, <3>1, <4>2, <5>1, <5>2, <5>3
        <4> QED
          BY <4>1, <4>2
      <3> QED
        BY <1>1, <2>2, <2>5, <3>1, <3>2 DEF ObjectInv, Pending, Has, Ticking
    <2> QED
      BY <2>3, <2>4, <2>5
  <1>8. CASE WriteMalformed
    BY <1>8 DEF WriteMalformed, NothingRefused
  <1>9. CASE PminExpired
    BY <1>1, <1>9, PminExpiredMembers, ExpiryKeepsObjects
  <1>10. CASE PmaxExpired
    BY <1>1, <1>10, PmaxExpiredMembers, ExpiryKeepsObjects
  <1>11. CASE Tick
    <2>1. /\ Silent(handler', handler) /\ owed' = owed
          /\ Ticking(handler) => Ticking(handler')
      BY <1>1, <1>11, TickMembers
    <2> QED
      BY <1>1, <2>1 DEF ObjectInv, Silent, Alike, Pending, Has, Ticking
  <1>12. CASE UNCHANGED vars
    BY <1>12, <1>1 DEF vars, ObjectInv, Has, Ticking
  <1> QED
    BY <1>3, <1>4, <1>5, <1>6, <1>7, <1>8, <1>9, <1>10, <1>11, <1>12 DEF Next, SetValue

LEMMA InitObject == Init => ObjectInv
  BY InitGuarded, NewHandlerMembers DEF Init, ObjectInv

\* The list of changed instances, which a notification of an object empties and a
\* refused write would, holds every instance to be told
\* (m2mreporthandler.cpp:405, set_notification_trigger()).
THEOREM ChangesAreCarried ==
    ASSUME NothingRefused
    PROVE  Spec => []ChangedAreCarried
  <1>1. CASE Numeric
    <2>1. HandlerInv => ChangedAreCarried
      BY <1>1 DEF ChangedAreCarried
    <2> QED
      BY <2>1, HandlerInvHolds, PTL
  <1>2. CASE ~Numeric
    <2>1. ObjectInv => ChangedAreCarried
      BY DEF ObjectInv, ChangedAreCarried
    <2>2. ObjectInv /\ [Next]_vars => ObjectInv'
      BY <1>2, ObjectKept
    <2> QED
      BY <2>1, <2>2, InitObject, PTL DEF Spec
  <1> QED
    BY <1>1, <1>2

\* A change of an object or an instance that was not told stays pending, whatever is
\* renewed, reset or written meanwhile, and a timer will tell it (schedule_report()).
THEOREM ObjectChangeStaysPending ==
    ASSUME ~Numeric, NothingRefused
    PROVE  Spec => []ChangeIsPending
  <1>1. ObjectInv => ChangeIsPending
    BY DEF ObjectInv, ChangeIsPending, Ticking
  <1>2. ObjectInv /\ [Next]_vars => ObjectInv'
    BY ObjectKept
  <1> QED
    BY <1>1, <1>2, InitObject, PTL DEF Spec

-----------------------------------------------------------------------------
(* Numeric resources without thresholds: a new value is pending.           *)

\* The server renews no observation and answers no notification with a RESET, writes
\* periods only, no maximum of zero or below, and the resource takes neither of the
\* values the handler uses for "nothing yet".
PlainChanges ==
    /\ Server \cap {"renews", "resets"} = {}
    /\ DOMAIN Options \subseteq Periods
    /\ "pmax" \in DOMAIN Options => \A max \in Options["pmax"] : max > 0
    /\ Values \cap {0, -1} = {}

\* The server is owed the value exactly when it has another one; then the handler
\* has the value, differs from the last one and waits for a timer.
ValueInv ==
    /\ GuardedInv
    /\ value \in Values
    /\ ~handler.observed => /\ owed = {}
                            /\ handler.current = 0 /\ handler.last = -1
                            /\ ~handler.notify
                            /\ ~Ticking(handler)
    /\ handler.observed => /\ owed = {} <=> value = server
                           /\ handler.current \in {0, value}
                           /\ handler.last \in {server, 0, -1}
                           /\ owed # {} => /\ handler.current = value
                                           /\ handler.notify
                                           /\ Ticking(handler)

\* What is owed is told by the timer that reports.
LEMMA ExpiryKeepsValue ==
    ASSUME ValueInv, Numeric, PlainChanges, GuardedInv', value' = value, handler.observed,
           Reports(handler', owed),
           \/ Reported(handler', handler)
           \/ /\ Silent(handler', handler)
              /\ handler.notify => Ticking(handler')
    PROVE  ValueInv'
  <1>1. CASE Reported(handler', handler)
    <2>1. handler'.observed = handler.observed /\ handler'.current = handler.current
          /\ handler'.last = handler.current
      BY <1>1 DEF Reported, Alike
    <2>2. CASE handler'.sent = "none"
      <3>1. owed' = owed /\ server' = server
        BY <2>2 DEF Reports
      <3>2. ~Told(handler)
        BY <1>1, <2>2 DEF Reported
      <3>3. owed = {}
        <4> SUFFICES ASSUME owed # {} PROVE FALSE
          OBVIOUS
        <4>1. handler.current = value /\ handler.notify /\ value # server
              /\ handler.last \in {server, 0, -1} /\ value \in Values
          BY DEF ValueInv
        <4> QED
          BY <3>2, <4>1 DEF Told, PlainChanges
      <3> QED
        BY <2>1, <3>1, <3>3 DEF ValueInv
    <2>3. CASE handler'.sent # "none"
      <3>1. owed' = {} /\ server' = value
        BY <2>3 DEF Reports
      <3> QED
        BY <2>1, <3>1 DEF ValueInv
    <2> QED
      BY <2>2, <2>3
  <1>2. CASE /\ Silent(handler', handler)
             /\ handler.notify => Ticking(handler')
    <2>1. /\ owed' = owed /\ server' = server
          /\ handler'.observed = handler.observed
          /\ handler'.current = handler.current /\ handler'.last = handler.last
          /\ handler'.notify = handler.notify
      BY <1>2 DEF Silent, Reports, Alike, Pending
    <2> QED
      BY <1>2, <2>1 DEF ValueInv, Ticking
  <1> QED
    BY <1>1, <1>2

LEMMA SetValueKeepsValue ==
    ASSUME ValueInv, PlainChanges, GuardedInv', NEW v \in Values, SetValue(v)
    PROVE  ValueInv'
  <1>1. HandlerInv /\ Guarded(handler) /\ v \in Int /\ Numeric
    BY OptionsAssumption DEF ValueInv, GuardedInv, SetValue
  <1>2. /\ Sound(Now) /\ Guarded(Now) /\ Alike(Now, handler) /\ Pending(Now, handler)
        /\ Now.sent = "none"
        /\ Now.pmin_timer = handler.pmin_timer /\ Now.pmax_timer = handler.pmax_timer
    BY <1>1, NowSound, NowMembers DEF Guarded, Alike, Has
  <1>3. /\ handler.attributes \cap Thresholds = {}
        /\ ~Has(Now, "st") /\ Now.attributes \cap {"lt", "gt"} = {}
    <2>1. handler.attributes \subseteq Periods
      BY <1>1 DEF HandlerInv, Sound, Handlers, PlainChanges
    <2> QED
      BY <1>2, <2>1 DEF Periods, Thresholds, Alike, Has
  <1>4. v # value /\ value' = v /\ v # 0 /\ v # -1
    BY DEF SetValue, PlainChanges
  <1>5. CASE ~handler.observed
    <2>1. Reports(Now, owed)
      BY <1>5 DEF SetValue
    <2>2. handler' = Now /\ owed' = owed
      BY <1>2, <2>1 DEF Reports
    <2> QED
      BY <1>2, <1>4, <1>5, <2>2 DEF ValueInv, Alike, Pending, Ticking
  <1>6. CASE handler.observed
    <2> DEFINE due == IF v = server THEN {} ELSE {0}
               new == [Now EXCEPT !.current = v]
               over == ~Has(Now, "pmin") \/ Now.pmin_exceeded
               g == HandlerSetValue(Now, v)
    <2>1. handler' = g /\ Reports(g, due)
      BY <1>3, <1>6 DEF SetValue, Reports
    <2>2. new.attributes = Now.attributes
      BY <1>2 DEF Sound, Handlers
    <2>3. CheckThresholdValues(new)
      BY <1>3, <2>2 DEF CheckThresholdValues, CheckGtLtParams, Has
    <2>4. /\ g.observed = Now.observed /\ g.current = v
          /\ v = Now.last => /\ g.last = Now.last /\ g.notify = Now.notify /\ g.sent = Now.sent
          /\ v # Now.last =>
               /\ over => g.last = v /\ g.sent = "change"
               /\ ~over => /\ g.last = Now.last /\ g.notify /\ g.sent = Now.sent
                           /\ Guarded(Now) /\ Now.observed => Ticking(g)
      BY <1>1, <1>2, <2>3, SetValueMembers
    <2> HIDE DEF g, new
    <2>5. handler'.observed /\ handler'.current = value' /\ value' \in Values
      BY <1>2, <1>4, <1>6, <2>1, <2>4 DEF Alike
    <2>6. CASE v = Now.last
      <3>1. owed' = due /\ server' = server /\ handler'.last = handler.last
        BY <1>2, <2>1, <2>4, <2>6 DEF Reports, Pending
      <3>2. v = server
        BY <1>2, <1>4, <1>6, <2>6 DEF ValueInv, Pending
      <3> QED
        BY <1>4, <1>6, <2>5, <3>1, <3>2 DEF ValueInv
    <2>7. CASE v # Now.last /\ over
      <3>1. owed' = {} /\ server' = value' /\ handler'.last = value'
        BY <1>1, <1>4, <2>1, <2>4, <2>7 DEF Reports
      <3> QED
        BY <2>5, <3>1 DEF ValueInv
    <2>8. CASE v # Now.last /\ ~over
      <3>1. /\ owed' = due /\ server' = server /\ handler'.last = handler.last
            /\ handler'.notify /\ Ticking(handler')
        BY <1>2, <1>6, <2>1, <2>4, <2>8 DEF Reports, Pending, Alike
      <3>2. /\ owed' = {} <=> value' = server'
            /\ handler'.last \in {server', 0, -1}
        BY <1>4, <1>6, <3>1 DEF ValueInv
      <3> QED
        BY <2>5, <3>1, <3>2 DEF ValueInv, Ticking
    <2> QED
      BY <2>6, <2>7, <2>8
  <1> QED
    BY <1>5, <1>6

LEMMA WriteKeepsValue ==
    ASSUME ValueInv, PlainChanges, GuardedInv', NEW q \in Queries, WriteAttributes(q)
    PROVE  ValueInv'
  <1>1. HandlerInv /\ Guarded(handler)
    BY DEF ValueInv, GuardedInv
  <1> DEFINE accepted == CheckAttributeValidity(Written(Now, q))
  <1>2. /\ handler'.observed = handler.observed
        /\ handler'.current = handler.current /\ handler'.notify = handler.notify
        /\ accepted =>
             /\ handler'.last = handler.last
             /\ handler'.attributes = handler.attributes \cup DOMAIN q
             /\ handler.observed /\ Has(handler', "pmin") /\ handler'.pmin # handler'.pmax
                  => Ticking(handler')
             /\ handler.observed /\ Has(handler', "pmax") /\ handler'.pmax > 0 => Ticking(handler')
             /\ ~handler.observed => (Ticking(handler') <=> Ticking(handler))
        /\ ~accepted => handler'.last = -1 /\ (Ticking(handler') <=> Ticking(handler))
    BY <1>1, WriteMembers DEF Pending
  <1>3. owed' = owed /\ value' = value /\ server' = server
    <2>1. DOMAIN q \cap Thresholds = {}
      BY QueryTyped DEF PlainChanges, Periods, Thresholds
    <2> QED
      BY <2>1 DEF WriteAttributes
  <1> HIDE DEF accepted
  <1>4. handler'.last \in {handler.last, -1}
    BY <1>2
  <1>5. handler.observed /\ Ticking(handler) => Ticking(handler')
    <2> SUFFICES ASSUME handler.observed, Ticking(handler), accepted PROVE Ticking(handler')
      BY <1>2
    <2>1. /\ handler'.pmin \in Nat /\ PeriodsWritten(handler')
          /\ handler'.attributes \subseteq DOMAIN Options
      BY DEF GuardedInv, HandlerInv, Sound, Handlers
    <2>2. Has(handler', "pmax") => handler'.pmax > 0
      BY <2>1 DEF PeriodsWritten, PlainChanges, Has
    <2>3. ~Has(handler', "pmax") => handler'.pmin # handler'.pmax
      BY <2>1 DEF PeriodsWritten
    <2>4. Has(handler', "pmin") \/ Has(handler', "pmax")
      <3>1. DOMAIN q # {} /\ DOMAIN q \subseteq {"pmin", "pmax"}
        BY QueryTyped DEF Queries, PlainChanges, Periods
      <3> QED
        BY <1>2, <3>1 DEF Has
    <2> QED
      BY <1>2, <2>2, <2>3, <2>4
  <1>6. ~handler.observed => (Ticking(handler') <=> Ticking(handler))
    BY <1>2
  <1>7. CASE handler.observed
    BY <1>2, <1>3, <1>4, <1>5, <1>7 DEF ValueInv, Ticking
  <1>8. CASE ~handler.observed
    BY <1>2, <1>3, <1>4, <1>6, <1>8 DEF ValueInv, Ticking
  <1> QED
    BY <1>7, <1>8

LEMMA ValueKept ==
    ASSUME Numeric, PlainChanges
    PROVE  ValueInv /\ [Next]_vars => ValueInv'
  <1> SUFFICES ASSUME ValueInv, [Next]_vars PROVE ValueInv'
    OBVIOUS
  <1>1. HandlerInv /\ Guarded(handler) /\ GuardedInv'
    BY GuardedKept DEF ValueInv, GuardedInv
  <1>2. Sound(Now) /\ Alike(Now, handler) /\ Pending(Now, handler)
    BY <1>1, NowSound, NowMembers
  <1>3. ASSUME NEW v \in Values, SetValue(v) PROVE ValueInv'
    BY <1>1, <1>3, SetValueKeepsValue
  <1>4. CASE Observe
    <2>1. ~handler.observed
      BY <1>4 DEF Observe, PlainChanges
    <2>2. handler'.observed /\ handler'.current = handler.current /\ handler'.last = handler.last
      BY <1>2, <1>4, ObservedMembers DEF Observe, Pending
    <2>3. owed' = {} /\ server' = value /\ value' = value
      BY <1>4 DEF Observe
    <2> QED
      BY <1>1, <2>1, <2>2, <2>3 DEF ValueInv
  <1>5. CASE Cancel
    BY <1>1, <1>5, NewHandlerMembers DEF Cancel, ValueInv, Ticking
  <1>6. CASE Reset
    BY <1>6 DEF Reset, PlainChanges
  <1>7. ASSUME NEW q \in Queries, WriteAttributes(q) PROVE ValueInv'
    BY <1>1, <1>7, WriteKeepsValue
  <1>8. CASE WriteMalformed
    BY <1>1, <1>8, MalformedMembers DEF ValueInv, Ticking
  <1>9. CASE PminExpired
    <2>1. handler.observed
      BY <1>9, NoTimer DEF PminExpired, ValueInv, Ticking
    <2> QED
      BY <1>1, <1>9, <2>1, PminExpiredMembers, ExpiryKeepsValue
  <1>10. CASE PmaxExpired
    <2>1. handler.observed
      BY <1>10, NoTimer DEF PmaxExpired, ValueInv, Ticking
    <2> QED
      BY <1>1, <1>10, <2>1, PmaxExpiredMembers, ExpiryKeepsValue
  <1>11. CASE Tick
    <2>1. /\ Silent(handler', handler) /\ UNCHANGED <<value, server, owed>>
          /\ Ticking(handler) <=> Ticking(handler')
      BY <1>1, <1>11, TickMembers
    <2> QED
      BY <1>1, <2>1 DEF ValueInv, Silent, Alike, Pending, Ticking
  <1>12. CASE UNCHANGED vars
    BY <1>1, <1>12 DEF vars, ValueInv, Ticking
  <1> QED
    BY <1>3, <1>4, <1>5, <1>6, <1>7, <1>8, <1>9, <1>10, <1>11, <1>12 DEF Next, Change

\* A new value of an observed resource that the server was not sent is in the handler,
\* pending, and a timer will send it, whatever periods are written, refused or
\* misspelled meanwhile and however the value changes back and forth (set_value()).
THEOREM ValueChangeStaysPending ==
    ASSUME Numeric, PlainChanges
    PROVE  Spec => []ChangeIsPending
  <1>1. Init => ValueInv
    BY InitGuarded, NewHandlerMembers DEF Init, ValueInv
  <1>2. ValueInv => ChangeIsPending
    <2> SUFFICES ASSUME ValueInv, owed # {}
                 PROVE  /\ handler.notify /\ handler.current # handler.last
                        /\ Ticking(handler)
      BY DEF ChangeIsPending, Ticking
    <2>1. /\ handler.observed /\ handler.current = value /\ handler.notify /\ Ticking(handler)
          /\ handler.last \in {server, 0, -1} /\ value # server /\ value \in Values
      BY DEF ValueInv
    <2> QED
      BY <2>1 DEF PlainChanges
  <1>3. ValueInv /\ [Next]_vars => ValueInv'
    BY ValueKept
  <1> QED
    BY <1>1, <1>2, <1>3, PTL DEF Spec

-----------------------------------------------------------------------------
(* Without a minimum period the thresholds decide.                         *)

\* The last value a change is told from is the current one, unless there is none;
\* and the limits of the next step lie around it.
LimitsInv ==
    /\ GuardedInv
    /\ ~Has(handler, "pmin") =>
           /\ handler.last \in {handler.current, -1}
           /\ Has(handler, "st") => /\ handler.high_step = handler.current + handler.st
                                    /\ handler.low_step = handler.current - handler.st

\* Where the limits lie around the value, comparing with them is what the step asks.
LEMMA LimitsAreThresholds ==
    ASSUME LimitsInv, ~Has(handler, "pmin"), handler.current \in Int, NEW v \in Int
    PROVE  CheckThresholdValues([Now EXCEPT !.current = v])
             <=> Meets(handler, handler.current, v)
  <1> DEFINE new == [Now EXCEPT !.current = v]
  <1>1. HandlerInv /\ Sound(handler)
    BY DEF LimitsInv, GuardedInv, HandlerInv
  <1>2. /\ new.attributes = handler.attributes /\ new.current = v
        /\ new.gt = handler.gt /\ new.lt = handler.lt
        /\ new.high_step = handler.high_step /\ new.low_step = handler.low_step
    BY <1>1, NowSound, NowMembers DEF Sound, Handlers, Alike
  <1>3. handler.st \in Nat /\ handler.gt \in Int /\ handler.lt \in Int
    BY <1>1 DEF Sound, Handlers
  <1> HIDE DEF new
  <1> DEFINE beyond == \/ Has(handler, "gt") /\ v > handler.gt
                       \/ Has(handler, "lt") /\ v < handler.lt
             bounded == Has(handler, "lt") \/ Has(handler, "gt")
  <1>4. /\ handler.attributes \cap {"lt", "gt"} # {} <=> bounded
        /\ handler.attributes \cap Thresholds = {} <=> ~bounded /\ ~Has(handler, "st")
    BY DEF Has, Thresholds
  <1>5. CheckGtLtParams(new) <=> ~bounded \/ beyond
    BY <1>2, <1>4 DEF CheckGtLtParams, Has
  <1>6. CASE Has(handler, "st")
    <2>1. handler.high_step = handler.current + handler.st
          /\ handler.low_step = handler.current - handler.st
      BY <1>6 DEF LimitsInv
    <2>2. /\ v >= handler.high_step <=> v - handler.current >= handler.st
          /\ v <= handler.low_step <=> handler.current - v >= handler.st
      BY <1>3, <2>1
    <2>3. CheckThresholdValues(new) <=> \/ v >= handler.high_step
                                        \/ v <= handler.low_step
                                        \/ bounded /\ (~bounded \/ beyond)
      BY <1>2, <1>4, <1>5, <1>6 DEF CheckThresholdValues, Has
    <2>4. Meets(handler, handler.current, v) <=> \/ v - handler.current >= handler.st
                                                 \/ handler.current - v >= handler.st
                                                 \/ beyond
      BY <1>4, <1>6 DEF Meets
    <2> QED
      BY <2>2, <2>3, <2>4 DEF new
  <1>7. CASE ~Has(handler, "st")
    <2>1. CheckThresholdValues(new) <=> ~bounded \/ beyond
      BY <1>2, <1>5, <1>7 DEF CheckThresholdValues, Has
    <2>2. Meets(handler, handler.current, v) <=> ~bounded \/ beyond
      BY <1>4, <1>7 DEF Meets
    <2> QED
      BY <2>1, <2>2 DEF new
  <1> QED
    BY <1>6, <1>7

\* Timers that report or do not, and reports, move no limit.
LEMMA ExpiryKeepsLimits ==
    ASSUME LimitsInv, GuardedInv', Reported(handler', handler) \/ Silent(handler', handler)
    PROVE  LimitsInv'
  <1>1. /\ handler'.attributes = handler.attributes /\ handler'.st = handler.st
        /\ handler'.current = handler.current
        /\ handler'.high_step = handler.high_step /\ handler'.low_step = handler.low_step
        /\ handler'.last \in {handler.current, handler.last}
    BY DEF Reported, Silent, Alike, Pending
  <1> QED
    BY <1>1 DEF LimitsInv, Has

LEMMA LimitsKept ==
    ASSUME -1 \notin Values
    PROVE  LimitsInv /\ [Next]_vars => LimitsInv'
  <1> SUFFICES ASSUME LimitsInv, [Next]_vars PROVE LimitsInv'
    OBVIOUS
  <1>1. HandlerInv /\ Guarded(handler) /\ GuardedInv'
    BY GuardedKept DEF LimitsInv, GuardedInv
  <1>2. Sound(Now) /\ Guarded(Now) /\ Alike(Now, handler) /\ Pending(Now, handler)
    BY <1>1, NowSound, NowMembers DEF Guarded, Alike, Has
  <1>3. LimitsInv' <=>
          /\ GuardedInv'
          /\ ~Has(handler', "pmin") =>
               /\ handler'.last \in {handler'.current, -1}
               /\ Has(handler', "st") => /\ handler'.high_step = handler'.current + handler'.st
                                         /\ handler'.low_step = handler'.current - handler'.st
    BY DEF LimitsInv, Has
  <1>4. ASSUME NEW v \in Values, SetValue(v) PROVE LimitsInv'
    <2>1. v \in Int /\ v # -1
      BY OptionsAssumption
    <2>2. CASE ~handler.observed
      <3>1. handler' = Now
        BY <1>4, <2>2 DEF SetValue, Reports
      <3> QED
        BY <1>1, <1>2, <1>3, <3>1 DEF LimitsInv, Alike, Pending, Has
    <2>3. CASE handler.observed
      <3> DEFINE g == HandlerSetValue(Now, v)
                 new == [Now EXCEPT !.current = v]
                 over == ~Has(Now, "pmin") \/ Now.pmin_exceeded
      <3>1. handler' = g
        BY <1>4, <2>3 DEF SetValue, Reports
      <3>2. /\ g.attributes = Now.attributes /\ g.st = Now.st /\ g.current = v
            /\ v = Now.last => /\ g.high_step = Now.high_step /\ g.low_step = Now.low_step
                               /\ g.last = Now.last
            /\ v # Now.last =>
                 /\ g.high_step = v + Now.st /\ g.low_step = v - Now.st
                 /\ CheckThresholdValues(new) /\ over => g.last = v
                 /\ ~CheckThresholdValues(new) => g.last = v
        BY <1>2, <2>1, SetValueMembers
      <3> HIDE DEF g, new
      <3> SUFFICES ASSUME ~Has(handler', "pmin") PROVE
               /\ handler'.last \in {handler'.current, -1}
               /\ Has(handler', "st") => /\ handler'.high_step = handler'.current + handler'.st
                                         /\ handler'.low_step = handler'.current - handler'.st
        BY <1>1, <1>3
      <3>3. over /\ ~Has(handler, "pmin")
        BY <1>2, <3>1, <3>2 DEF Has, Alike
      <3>4. CASE v = Now.last
        BY <1>2, <2>1, <3>1, <3>2, <3>3, <3>4 DEF LimitsInv, Alike, Pending, Has
      <3>5. CASE v # Now.last
        BY <3>1, <3>2, <3>3, <3>5
      <3> QED
        BY <3>4, <3>5
    <2> QED
      BY <2>2, <2>3
  <1>5. ASSUME NEW id \in Ids, Change(id) PROVE LimitsInv'
    <2>1. ~Has(handler', "st")
      <3>1. ~Numeric /\ handler'.attributes \subseteq DOMAIN Options
        BY <1>1, <1>5 DEF Change, GuardedInv, HandlerInv, Sound, Handlers
      <3> QED
        BY <3>1, OptionsAssumption DEF Has, Periods
    <2>2. ~Has(handler', "pmin") => handler'.last = handler'.current
      BY <1>2, <1>5, TriggerMembers DEF Change, Reports, Has
    <2> QED
      BY <1>1, <1>3, <2>1, <2>2
  <1>6. CASE Observe
    <2>1. /\ handler'.attributes = Now.attributes /\ handler'.st = Now.st
          /\ handler'.high_step = Now.high_step /\ handler'.low_step = Now.low_step
          /\ Pending(handler', Now)
      BY <1>2, <1>6, ObservedMembers DEF Observe
    <2> QED
      BY <1>1, <1>2, <1>3, <2>1 DEF LimitsInv, Alike, Pending, Has
  <1>7. CASE Cancel
    BY <1>1, <1>3, <1>7, NewHandlerMembers DEF Cancel, Has
  <1>8. CASE Reset
    BY <1>1, <1>3, <1>8, ResetMembers DEF Reset, Has
  <1>9. ASSUME NEW q \in Queries, WriteAttributes(q) PROVE LimitsInv'
    <2>1. CASE CheckAttributeValidity(Written(Now, q))
      <3>1. /\ Pending(handler', handler)
            /\ handler'.attributes = handler.attributes \cup DOMAIN q
            /\ "st" \in DOMAIN q => /\ handler'.high_step = handler'.current + handler'.st
                                    /\ handler'.low_step = handler'.current - handler'.st
            /\ "st" \notin DOMAIN q => /\ handler'.st = handler.st
                                       /\ handler'.high_step = handler.high_step
                                       /\ handler'.low_step = handler.low_step
        BY <1>1, <1>9, <2>1, WriteMembers
      <3> QED
        BY <1>1, <1>3, <3>1 DEF LimitsInv, Pending, Has
    <2>2. CASE ~CheckAttributeValidity(Written(Now, q))
      <3>1. handler'.attributes = {} /\ handler'.last = -1
        BY <1>1, <1>9, <2>2, WriteMembers
      <3> QED
        BY <1>1, <1>3, <3>1 DEF Has
    <2> QED
      BY <2>1, <2>2
  <1>10. CASE WriteMalformed
    BY <1>1, <1>3, <1>10, MalformedMembers DEF Has
  <1>11. CASE PminExpired
    BY <1>1, <1>11, PminExpiredMembers, ExpiryKeepsLimits
  <1>12. CASE PmaxExpired
    BY <1>1, <1>12, PmaxExpiredMembers, ExpiryKeepsLimits
  <1>13. CASE Tick
    BY <1>1, <1>13, TickMembers, ExpiryKeepsLimits
  <1>14. CASE UNCHANGED vars
    BY <1>1, <1>3, <1>14 DEF vars, LimitsInv, Has
  <1> QED
    BY <1>4, <1>5, <1>6, <1>7, <1>8, <1>9, <1>10, <1>11, <1>12, <1>13, <1>14 DEF Next

\* A new value is sent at once if and only if it meets the thresholds in force, though
\* the limits were computed when the one before it was set or the step was written
\* and queries were accepted, refused and misspelled since (check_threshold_values()).
THEOREM ThresholdsAlwaysDecide ==
    ASSUME -1 \notin Values
    PROVE  Spec => ThresholdsDecide
  <1>1. Init => LimitsInv
    BY InitGuarded, NewHandlerMembers DEF Init, LimitsInv, Has
  <1>2. LimitsInv /\ [Next]_vars => LimitsInv'
    BY LimitsKept
  <1>3. LimitsInv /\ [Next]_vars =>
          [value' # value /\ handler.observed /\ ~Has(handler, "pmin") /\ handler.current = value
             => (handler'.sent = "change" <=> Meets(handler, value, value'))]_vars
    <2> SUFFICES ASSUME LimitsInv, [Next]_vars, value' # value, handler.observed,
                        ~Has(handler, "pmin"), handler.current = value
                 PROVE  handler'.sent = "change" <=> Meets(handler, value, value')
      OBVIOUS
    <2>1. HandlerInv /\ Guarded(handler)
      BY DEF LimitsInv, GuardedInv
    <2>2. PICK v \in Values : SetValue(v)
      <3>1. value' = value \/ \E v \in Values : SetValue(v)
        BY <2>1, PminExpiredMembers, PmaxExpiredMembers
        DEF Next, vars, Change, Observe, Cancel, Reset, WriteAttributes, WriteMalformed, Tick
      <3> QED
        BY <3>1
    <2>3. v \in Int /\ v # -1 /\ value' = v /\ value \in Int
      BY <2>1, <2>2, OptionsAssumption DEF SetValue, HandlerInv, TypeOK
    <2> DEFINE g == HandlerSetValue(Now, v)
               new == [Now EXCEPT !.current = v]
               over == ~Has(Now, "pmin") \/ Now.pmin_exceeded
    <2>4. /\ Sound(Now) /\ Alike(Now, handler) /\ Pending(Now, handler) /\ Now.sent = "none"
      BY <2>1, NowSound, NowMembers
    <2>5. handler' = g
      BY <2>2 DEF SetValue, Reports
    <2>6. v # Now.last
      BY <2>3, <2>4 DEF LimitsInv, Pending
    <2>7. over
      BY <2>4 DEF Alike, Has
    <2>8. /\ CheckThresholdValues(new) /\ over => g.sent = "change"
          /\ ~CheckThresholdValues(new) => g.sent = Now.sent
      BY <2>3, <2>4, <2>6, SetValueMembers
    <2>9. CheckThresholdValues(new) <=> Meets(handler, value, v)
      BY <2>3, LimitsAreThresholds
    <2> HIDE DEF g, new
    <2> QED
      BY <2>3, <2>4, <2>5, <2>7, <2>8, <2>9
  <1> QED
    BY <1>1, <1>2, <1>3, PTL DEF Spec, ThresholdsDecide
================================================================================
