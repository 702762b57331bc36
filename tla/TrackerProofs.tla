--------------------------- MODULE TrackerProofs ----------------------------
(***************************************************************************)
(* Tracking.  First the invariants of Tracker, for every start mode and    *)
(* all times that satisfy TrackerAssumption; then those of TracerBuffer,   *)
(* the ring of track points, for every size of the ring: what the halving  *)
(* search of tracer_buf_init() computes, and what it makes of a ring that  *)
(* is in order.                                                            *)
(***************************************************************************)
EXTENDS Tracker, TracerBuffer, WellFoundedInduction, TLAPS

-----------------------------------------------------------------------------
(* What the functions of gps.c do to the power of the chip. *)

\* gps_wakeup() and gps_suspend().
LEMMA WakeupFact ==
  ASSUME NEW g \in Gps
  PROVE  /\ Wakeup(g) \in Gps /\ Wakeup(g).on
         /\ ~Wakeup(g).pin => g.on /\ ~g.pin
         /\ Wakeup(g).sleep_mode = g.sleep_mode
         /\ Wakeup(g).sleep_tmr = g.sleep_tmr
<1>1. CASE g.on
  BY <1>1 DEF Wakeup, Gps
<1>2. CASE ~g.on
  <2> DEFINE h == [g EXCEPT !.on = TRUE, !.pin = TRUE]
  <2>1. h \in Gps
    BY Zenon DEF Gps
  <2>2. h.on = TRUE /\ h.pin = TRUE /\ h.sleep_mode = g.sleep_mode
        /\ h.sleep_tmr = g.sleep_tmr
    BY DEF Gps
  <2>3. Wakeup(g) = h
    BY <1>2 DEF Wakeup
  <2> HIDE DEF h
  <2> QED BY <1>2, <2>1, <2>2, <2>3, Zenon
<1> QED BY <1>1, <1>2

\* gps_sleep_enable(true).
LEMMA SleepOnFact ==
  ASSUME NEW g \in Gps
  PROVE  /\ SleepOn(g) \in Gps
         /\ SleepOn(g).on => g.on
         /\ ~SleepOn(g).pin => ~g.pin
<1>1. SLEEP_TIMEOUT - SLEEP_DELAY \in 0 .. SLEEP_WAKEUP
  BY TrackerAssumption
<1>2. SleepOn(g) \in Gps
  BY <1>1, Zenon DEF SleepOn, Gps
<1> QED BY <1>2 DEF SleepOn, Gps

\* gps_sleep_enable(false).
LEMMA SleepOffFact ==
  ASSUME NEW g \in Gps
  PROVE  /\ SleepOff(g) \in Gps
         /\ SleepOff(g).on /\ SleepOff(g).sleep_tmr = 0
         /\ ~SleepOff(g).pin => g.on /\ ~g.pin
<1> DEFINE h == [g EXCEPT !.sleep_tmr = 0, !.sleep_postpone = 0]
<1>1. 0 \in 0 .. SLEEP_WAKEUP /\ 0 \in 0 .. Postpone
  BY TrackerAssumption
<1>2. h \in Gps
  BY <1>1, Zenon DEF Gps
<1>3. h.on = g.on /\ h.pin = g.pin /\ h.sleep_tmr = 0
  BY DEF Gps
<1>4. SleepOff(g) = Wakeup(h)
  BY DEF SleepOff
<1> HIDE DEF h
<1>5. /\ Wakeup(h) \in Gps /\ Wakeup(h).on /\ Wakeup(h).sleep_tmr = h.sleep_tmr
      /\ ~Wakeup(h).pin => h.on /\ ~h.pin
  BY <1>2, WakeupFact, Zenon
<1> QED BY <1>3, <1>4, <1>5, Zenon

\* gps_temporary_start_tmout().
LEMMA TemporaryFact ==
  ASSUME NEW g \in Gps
  PROVE  /\ Temporary(g) \in Gps
         /\ Temporary(g).sleep_mode = g.sleep_mode
         /\ g.on => Temporary(g).on
         /\ Temporary(g).on /\ ~Temporary(g).pin => g.on /\ ~g.pin
         /\ Temporary(g).sleep_tmr \in {g.sleep_tmr, 0}
<1> DEFINE h == [g EXCEPT !.sleep_postpone = Postpone]
           k == [h EXCEPT !.sleep_tmr = 0]
<1>1. 0 \in 0 .. SLEEP_WAKEUP /\ Postpone \in 0 .. Postpone
  BY TrackerAssumption
<1>2. h \in Gps /\ h.on = g.on /\ h.pin = g.pin
      /\ h.sleep_mode = g.sleep_mode /\ h.sleep_tmr = g.sleep_tmr
  BY <1>1 DEF Gps
<1> HIDE DEF h
<1>3. k \in Gps /\ k.on = h.on /\ k.pin = h.pin
      /\ k.sleep_mode = h.sleep_mode /\ k.sleep_tmr = 0
  BY <1>1, <1>2 DEF Gps
<1>4. Temporary(g) = IF g.sleep_mode THEN Wakeup(k) ELSE h
  BY DEF Temporary, h
<1> HIDE DEF k
<1>5. /\ Wakeup(k) \in Gps /\ Wakeup(k).on
      /\ Wakeup(k).sleep_mode = k.sleep_mode
      /\ Wakeup(k).sleep_tmr = k.sleep_tmr
      /\ ~Wakeup(k).pin => k.on /\ ~k.pin
  BY <1>3, WakeupFact, Zenon
<1>6. CASE g.sleep_mode
  BY <1>2, <1>3, <1>4, <1>5, <1>6, Zenon
<1>7. CASE ~g.sleep_mode
  BY <1>2, <1>4, <1>7, Zenon
<1> QED BY <1>6, <1>7

\* gps_tick() switches the chip off only when its time has come.
LEMMA TickFact ==
  ASSUME gps \in Gps, Tick
  PROVE  /\ gps' \in Gps
         /\ gps'.on /\ ~gps'.pin => gps.on /\ ~gps.pin
         /\ gps.sleep_tmr < SLEEP_TIMEOUT - 1 /\ gps.on => gps'.on
<1> DEFINE wait == gps.sleep_postpone > 0
           tmr  == IF wait THEN gps.sleep_tmr ELSE gps.sleep_tmr + 1
           post == IF wait THEN gps.sleep_postpone - 1 ELSE gps.sleep_postpone
           next == IF tmr > SLEEP_WAKEUP THEN 0 ELSE tmr
           g    == [gps EXCEPT !.sleep_postpone = post, !.sleep_tmr = next]
<1>1. gps' = CASE tmr > SLEEP_WAKEUP  -> Wakeup(g)
               [] tmr = SLEEP_TIMEOUT -> Suspend(g)
               [] OTHER               -> g
  BY Zenon DEF Tick
<1>2. post \in 0 .. Postpone /\ next \in 0 .. SLEEP_WAKEUP
      /\ tmr \in Nat /\ tmr <= gps.sleep_tmr + 1
  BY TrackerAssumption DEF Gps
<1> HIDE DEF tmr, post, next
<1>3. g \in Gps
  BY <1>2, Zenon DEF Gps
<1>4. g.on = gps.on /\ g.pin = gps.pin
  BY DEF Gps
<1>5. Suspend(g) \in Gps /\ Suspend(g).on = FALSE
  BY <1>3 DEF Suspend, Gps
<1>6. /\ Wakeup(g) \in Gps /\ Wakeup(g).on
      /\ ~Wakeup(g).pin => g.on /\ ~g.pin
  BY <1>3, WakeupFact, Zenon
<1> HIDE DEF g
<1>7. CASE tmr > SLEEP_WAKEUP
  <2>1. gps' = Wakeup(g)
    BY <1>1, <1>7, <1>2, TrackerAssumption
  <2> QED BY <1>4, <1>6, <2>1, Zenon
<1>8. CASE ~(tmr > SLEEP_WAKEUP) /\ tmr = SLEEP_TIMEOUT
  <2>1. gps' = Suspend(g)
    BY <1>1, <1>8, Zenon
  <2>2. ~(gps.sleep_tmr < SLEEP_TIMEOUT - 1)
    BY <1>2, <1>8, TrackerAssumption DEF Gps
  <2> QED BY <1>5, <2>1, <2>2, Zenon
<1>9. CASE ~(tmr > SLEEP_WAKEUP) /\ tmr # SLEEP_TIMEOUT
  <2>1. gps' = g
    BY <1>1, <1>9, Zenon
  <2> QED BY <1>3, <1>4, <2>1, Zenon
<1> QED BY <1>7, <1>8, <1>9

-----------------------------------------------------------------------------
(* What the functions of tracer.c do to the track. *)

\* _tracer_start_now() begins no track that is there already, and changes
\* neither tracing_active nor the points.
LEMMA StartFact ==
  ASSUME NEW t \in Tracer, NEW g \in Gps, NEW c, NEW pc,
         StartNow(t, g, c, pc)
  PROVE  /\ tr' \in Tracer /\ gps' \in Gps
         /\ tr'.active <=> t.active
         /\ tr'.point = t.point
         /\ \/ ~t.active /\ slow' = "wake" /\ caller' = c /\ gps' = SleepOff(g)
            \/ slow' = pc /\ gps' = g /\ caller' = caller
<1> DEFINE u == [t EXCEPT !.stop_rq = FALSE]
           go == t.stop_tmr = "off" /\ CanStart(t) /\ server = "ip"
           b == u.pending \/ server = "name"
           t1 == [t EXCEPT !.stop_tmr = "off"]
           t2 == [u EXCEPT !.pending = FALSE]
           t3 == [u EXCEPT !.pending = b]
<1>1. u \in Tracer /\ u.active = t.active /\ u.point = t.point
  BY DEF Tracer
<1>2. t1 \in Tracer /\ t1.active = t.active /\ t1.point = t.point
  BY DEF Tracer
<1>3. b \in BOOLEAN
  OBVIOUS
<1>4. tr' = IF t.stop_tmr # "off" THEN t1
            ELSE IF ~CanStart(t) THEN u
            ELSE IF go THEN t2
            ELSE t3
  BY Zenon DEF StartNow
<1> HIDE DEF u, b
<1>5. t2 \in Tracer /\ t2.active = u.active /\ t2.point = u.point
  BY <1>1 DEF Tracer
<1>6. t3 \in Tracer
  BY <1>1, <1>3, Zenon DEF Tracer
<1>7. t3.active = u.active /\ t3.point = u.point
  BY <1>1 DEF Tracer
<1> HIDE DEF t1, t2, t3
<1>8. tr' \in {t1, u, t2, t3}
  BY <1>4, Zenon
<1>9. tr' \in Tracer /\ tr'.active = t.active /\ tr'.point = t.point
  BY <1>1, <1>2, <1>5, <1>6, <1>7, <1>8, Zenon
<1>10. \/ ~t.active /\ slow' = "wake" /\ caller' = c /\ gps' = SleepOff(g)
       \/ slow' = pc /\ gps' = g /\ caller' = caller
  BY Zenon DEF StartNow, CanStart
<1> QED BY <1>9, <1>10, SleepOffFact, Zenon

\* _tracer_stop_now() leaves a track with points to its last point, and lets
\* the GPS sleep otherwise.
LEMMA StopFact ==
  ASSUME NEW t \in Tracer, gps \in Gps, StopNow(t)
  PROVE  /\ tr' \in Tracer /\ gps' \in Gps
         /\ \/ t.active /\ tr'.active /\ tr'.point = t.point /\ gps' = gps
            \/ /\ ~(t.active /\ t.point = 1) /\ ~tr'.active
               /\ gps' = SleepOn(gps)
<1>1. CASE t.active /\ t.point > 0
  <2>1. tr' = [t EXCEPT !.stop_tmr = "runs"] /\ gps' = gps
    BY <1>1, Zenon DEF StopNow
  <2>2. tr' \in Tracer /\ tr'.active = t.active /\ tr'.point = t.point
    BY <2>1 DEF Tracer
  <2> QED BY <1>1, <2>1, <2>2, Zenon
<1>2. CASE ~(t.active /\ t.point > 0)
  <2>1. tr' = (IF t.active THEN Deactivated(t) ELSE t) /\ gps' = SleepOn(gps)
    BY <1>2, Zenon DEF StopNow
  <2>2. Deactivated(t) \in Tracer /\ Deactivated(t).active = FALSE
    BY DEF Deactivated, Tracer
  <2>3. tr' \in Tracer /\ ~tr'.active
    BY <2>1, <2>2, Zenon
  <2>4. ~(t.active /\ t.point = 1)
    BY <1>2
  <2> QED BY <2>1, <2>3, <2>4, SleepOnFact, Zenon
<1> QED BY <1>1, <1>2

\* The end of a stop's wait only asks for the last point.
LEMMA AskedFact ==
  ASSUME NEW t \in Tracer
  PROVE  /\ Asked(t) \in Tracer
         /\ Asked(t).active = t.active /\ Asked(t).point = t.point
BY DEF Asked, Tracer

-----------------------------------------------------------------------------
\* The two invariants are proved together: a track begins with the GPS awake
\* because nothing can suspend it between gps_wakeup() and the assignment of
\* sleep_mode (WakeInv), and a chip that is on is powered but for a reset
\* (PowerInv).
PowerInv == gps.on => gps.pin \/ slow = "reset" \/ comm = "reset"

WakeInv ==
  /\ slow \in {"wake", "ticked"} => gps.on /\ ~tr.active /\ caller # "none"
  /\ slow = "wake" => gps.sleep_tmr < SLEEP_TIMEOUT - 1

TrackInv ==
  /\ tr.active => gps.on /\ ~gps.sleep_mode
  /\ TracksClosed

Inv == TypeOK /\ PowerInv /\ WakeInv /\ TrackInv

\* The unit after gps_init().
LEMMA InitInv == Init => Inv
<1> SUFFICES ASSUME Init PROVE Inv
  OBVIOUS
<1>1. tr \in Tracer /\ tr.active = FALSE
  BY DEF Init, Tracer
<1>2. gps \in Gps /\ gps.pin = TRUE
  BY TrackerAssumption DEF Init, Gps
<1>3. TypeOK
  BY <1>1, <1>2, Zenon DEF Init, TypeOK
<1> QED BY <1>1, <1>2, <1>3, Zenon
        DEF Init, Inv, PowerInv, WakeInv, TrackInv, TracksClosed

\* The steps that leave the tracer alone.
LEMMA GpsStep ==
  ASSUME Inv, \/ Tick \/ Nmea \/ Maintenance \/ MaintenanceDone \/ GpsCommand
              \/ ResetDone
  PROVE  Inv'
<1>1. TypeOK /\ PowerInv /\ WakeInv /\ TrackInv /\ tr \in Tracer /\ gps \in Gps
  BY DEF Inv, TypeOK
<1>2. CASE Tick
  <2>1. ~tr.active
    BY <1>1, <1>2, Zenon DEF Tick, TrackInv
  <2>2. slow' = IF slow = "wake" THEN "ticked" ELSE slow
    BY <1>2, Zenon DEF Tick
  <2>3. /\ slow # "ticked"
        /\ UNCHANGED <<inputs, power, server, tr, caller, comm, open>>
    BY <1>2, Zenon DEF Tick
  <2>4. TypeOK'
    BY <1>1, <1>2, <2>2, <2>3, TickFact, Zenon DEF TypeOK, inputs
  <2>5. PowerInv'
    BY <1>1, <1>2, <2>2, <2>3, TickFact, Zenon DEF PowerInv
  <2>6. WakeInv'
    BY <1>1, <1>2, <2>2, <2>3, TickFact, Zenon DEF WakeInv
  <2> QED BY <1>1, <2>1, <2>3, <2>4, <2>5, <2>6, Zenon
          DEF Inv, TrackInv, TracksClosed
<1>3. CASE Nmea
  <2>1. gps' = [gps EXCEPT !.sleep_tmr = Fix(gps.sleep_tmr)]
    BY <1>3 DEF Nmea
  <2>2. Fix(gps.sleep_tmr) \in 0 .. SLEEP_WAKEUP
        /\ (gps.sleep_tmr < SLEEP_TIMEOUT - 1
              => Fix(gps.sleep_tmr) < SLEEP_TIMEOUT - 1)
    BY <1>1, TrackerAssumption DEF Fix, Gps
  <2>3. gps' \in Gps
    BY <1>1, <2>1, <2>2, Zenon DEF Gps
  <2>4. gps'.on = gps.on /\ gps'.pin = gps.pin
        /\ gps'.sleep_mode = gps.sleep_mode
        /\ gps'.sleep_tmr = Fix(gps.sleep_tmr)
    BY <1>1, <2>1 DEF Gps
  <2>5. UNCHANGED <<inputs, power, server, tr, slow, caller, comm, open>>
    BY <1>3 DEF Nmea
  <2>6. TypeOK' /\ PowerInv'
    BY <1>1, <2>3, <2>4, <2>5, Zenon DEF TypeOK, inputs, PowerInv
  <2>7. WakeInv' /\ TrackInv'
    BY <1>1, <2>2, <2>4, <2>5, Zenon DEF WakeInv, TrackInv, TracksClosed
  <2> QED BY <2>6, <2>7 DEF Inv
<1>4. CASE Maintenance \/ MaintenanceDone \/ ResetDone
  <2>1. PICK b \in BOOLEAN : gps' = [gps EXCEPT !.pin = b]
    BY <1>4 DEF Maintenance, MaintenanceDone, ResetDone
  <2>2. gps' \in Gps
    BY <1>1, <2>1, Zenon DEF Gps
  <2>3. gps'.on = gps.on /\ gps'.sleep_mode = gps.sleep_mode
        /\ gps'.sleep_tmr = gps.sleep_tmr
    BY <1>1, <2>1 DEF Gps
  <2>4. gps'.pin \/ comm' = "reset"
    BY <1>1, <1>4 DEF Maintenance, MaintenanceDone, ResetDone, Gps
  <2>5. /\ UNCHANGED <<inputs, power, server, tr, caller, open>>
        /\ slow' = slow \/ slow' = "task"
        /\ comm' \in {comm, "idle", "reset"}
    BY <1>4, Zenon DEF Maintenance, MaintenanceDone, ResetDone
  <2>6. TypeOK'
    BY <1>1, <2>2, <2>5 DEF TypeOK, inputs
  <2> QED BY <1>1, <2>3, <2>4, <2>5, <2>6, Zenon
          DEF Inv, PowerInv, WakeInv, TrackInv, TracksClosed
<1>5. CASE GpsCommand
  <2>1. gps' = Temporary(gps)
        /\ UNCHANGED <<inputs, power, server, tr, slow, caller, comm, open>>
    BY <1>5 DEF GpsCommand
  <2>2. 0 < SLEEP_TIMEOUT - 1
    BY TrackerAssumption
  <2>3. /\ gps' \in Gps
        /\ gps'.sleep_mode = gps.sleep_mode
        /\ gps.on => gps'.on
        /\ gps'.on /\ ~gps'.pin => gps.on /\ ~gps.pin
        /\ gps'.sleep_tmr \in {gps.sleep_tmr, 0}
    BY <1>1, <2>1, TemporaryFact, Zenon
  <2>4. TypeOK' /\ PowerInv'
    BY <1>1, <2>1, <2>3, Zenon DEF TypeOK, inputs, PowerInv
  <2>5. WakeInv'
    BY <1>1, <2>1, <2>2, <2>3, Zenon DEF WakeInv
  <2>6. TrackInv'
    BY <1>1, <2>1, <2>3, Zenon DEF TrackInv, TracksClosed
  <2> QED BY <2>4, <2>5, <2>6 DEF Inv
<1> QED BY <1>2, <1>3, <1>4, <1>5

\* A step that keeps the track and the GPS, whoever takes it.
LEMMA KeepStep ==
  ASSUME Inv, TypeOK', UNCHANGED <<gps, slow, caller, comm, open>>,
         tr'.active <=> tr.active, tr'.point = tr.point
  PROVE  Inv'
BY Zenon DEF Inv, PowerInv, WakeInv, TrackInv, TracksClosed

\* A step of the slow task outside a reset of the GPS and the middle of a
\* start: it keeps the track, begins a start, or ends a track without points.
LEMMA TaskStep ==
  ASSUME Inv, TypeOK', slow \notin {"reset", "wake", "ticked"},
         UNCHANGED <<comm, open>>, NEW g \in {gps, Temporary(gps)},
         \/ /\ tr'.active <=> tr.active
            /\ tr'.point = tr.point
            /\ \/ gps' = g /\ slow' \notin {"wake", "ticked"}
               \/ /\ ~tr.active /\ gps' = SleepOff(g) /\ slow' = "wake"
                  /\ caller' # "none"
         \/ /\ ~(tr.active /\ tr.point = 1) /\ ~tr'.active
            /\ gps' = SleepOn(gps) /\ slow' \notin {"wake", "ticked"}
  PROVE  Inv'
<1>1. PowerInv /\ WakeInv /\ TrackInv /\ gps \in Gps
  BY DEF Inv, TypeOK
<1>2. /\ g \in Gps /\ g.sleep_mode = gps.sleep_mode
      /\ gps.on => g.on
      /\ g.on /\ ~g.pin => gps.on /\ ~gps.pin
  <2>1. CASE g = gps
    BY <1>1, <2>1, Zenon
  <2>2. CASE g = Temporary(gps)
    BY <1>1, <2>2, TemporaryFact, Zenon
  <2> QED BY <2>1, <2>2
<1>3. gps.on => gps.pin \/ comm = "reset"
  BY <1>1, Zenon DEF PowerInv
<1>4. /\ SleepOff(g).on /\ SleepOff(g).sleep_tmr = 0
      /\ ~SleepOff(g).pin => g.on /\ ~g.pin
  BY <1>2, SleepOffFact, Zenon
<1>5. /\ SleepOn(gps).on => gps.on
      /\ ~SleepOn(gps).pin => ~gps.pin
  BY <1>1, SleepOnFact, Zenon
<1>6. 0 < SLEEP_TIMEOUT - 1
  BY TrackerAssumption
<1>7. CASE /\ tr'.active <=> tr.active
           /\ tr'.point = tr.point
           /\ gps' = g /\ slow' \notin {"wake", "ticked"}
  BY <1>1, <1>2, <1>3, <1>7, Zenon
  DEF Inv, PowerInv, WakeInv, TrackInv, TracksClosed
<1>8. CASE /\ tr'.active <=> tr.active
           /\ tr'.point = tr.point
           /\ ~tr.active /\ gps' = SleepOff(g) /\ slow' = "wake"
           /\ caller' # "none"
  BY <1>1, <1>2, <1>3, <1>4, <1>6, <1>8, Zenon
  DEF Inv, PowerInv, WakeInv, TrackInv, TracksClosed
<1>9. CASE /\ ~(tr.active /\ tr.point = 1) /\ ~tr'.active
           /\ gps' = SleepOn(gps) /\ slow' \notin {"wake", "ticked"}
  BY <1>1, <1>3, <1>5, <1>9, Zenon
  DEF Inv, PowerInv, WakeInv, TrackInv, TracksClosed
<1> QED BY <1>7, <1>8, <1>9, Zenon

\* The comm task, the timers of the tracer and the inputs.
LEMMA OtherStep ==
  ASSUME Inv, \/ Reinit \/ Resolve \/ Elapse \/ ShockElapse \/ PowerTask
              \/ Get \/ Shock \/ NoPoint
  PROVE  Inv'
<1>1. TypeOK /\ tr \in Tracer
  BY DEF Inv, TypeOK
<1>2. CASE Reinit \/ Resolve \/ PowerTask
  <2>1. /\ UNCHANGED <<inputs, tr, gps, slow, caller, comm, open>>
        /\ server' \in {"bad", "name", "ip"} /\ power' \in BOOLEAN
    BY <1>1, <1>2, Zenon DEF Reinit, Resolve, PowerTask, TypeOK
  <2>2. TypeOK'
    BY <1>1, <2>1, Zenon DEF TypeOK, inputs
  <2> QED BY <2>1, <2>2, KeepStep, Zenon
<1>3. CASE Elapse \/ ShockElapse
  <2>1. UNCHANGED <<inputs, power, server, gps, slow, caller, comm, open>>
    BY <1>3, Zenon DEF Elapse, ShockElapse
  <2>2. tr' \in Tracer /\ tr'.active = tr.active /\ tr'.point = tr.point
    BY <1>1, <1>3 DEF Elapse, ShockElapse, Tracer
  <2>3. TypeOK'
    BY <1>1, <2>1, <2>2, Zenon DEF TypeOK, inputs
  <2> QED BY <2>1, <2>2, <2>3, KeepStep, Zenon
<1>4. CASE Get \/ Shock \/ NoPoint
  <2>1. UNCHANGED <<power, server, gps, caller, comm, open>>
    BY <1>4, Zenon DEF Get, Shock, NoPoint
  <2>2. /\ slow \notin {"reset", "wake", "ticked"}
        /\ slow' \in {"get", "shock", "KEY", "SHOCK"}
    BY <1>4, Zenon DEF Get, Shock, NoPoint
  <2>3. inp' \subseteq Inputs /\ seen' \subseteq Inputs
    BY <1>1, <1>4 DEF Get, Registered, Shock, NoPoint, inputs, TypeOK
  <2>4. \A b \in BOOLEAN : /\ ShockStart(tr, b) \in Tracer
                           /\ ShockStart(tr, b).active = tr.active
                           /\ ShockStart(tr, b).point = tr.point
    BY <1>1 DEF ShockStart, Tracer
  <2>5. tr' \in Tracer /\ tr'.active = tr.active /\ tr'.point = tr.point
    BY <1>1, <1>4, <2>4, AskedFact, Zenon DEF Get, Shock, NoPoint
  <2>6. TypeOK'
    BY <1>1, <2>1, <2>2, <2>3, <2>5, Zenon DEF TypeOK
  <2> QED BY <2>1, <2>2, <2>5, <2>6, TaskStep, Zenon
<1> QED BY <1>2, <1>3, <1>4

\* The starts and stops of a track by the slow task.
LEMMA SlowStep ==
  ASSUME Inv, Test \/ Key \/ ShockTask \/ Pend
  PROVE  Inv'
<1>1. TypeOK /\ tr \in Tracer /\ gps \in Gps
  BY DEF Inv, TypeOK
<1>2. \A t : Onward(t) \in {"pend", "task", "get"}
  BY Zenon DEF Onward
<1>3. \A f \in Tracer : /\ [f EXCEPT !.pending = FALSE] \in Tracer
                        /\ [f EXCEPT !.pending = FALSE].active = f.active
                        /\ [f EXCEPT !.pending = FALSE].point = f.point
  BY DEF Tracer
<1>4. ASSUME NEW t \in Tracer, t.active = tr.active, t.point = tr.point,
             NEW g \in {gps, Temporary(gps)},
             NEW c \in {"KEY", "shock", "pend", "test"},
             NEW pc \in {"get", "SHOCK", "pend", "task"},
             StartNow(t, g, c, pc), slow \notin {"reset", "wake", "ticked"},
             UNCHANGED <<inputs, power, server, comm, open>>
      PROVE  Inv'
  <2>1. g \in Gps
    BY <1>1, TemporaryFact, Zenon
  <2>2. /\ tr' \in Tracer /\ gps' \in Gps
        /\ tr'.active <=> t.active
        /\ tr'.point = t.point
        /\ \/ ~t.active /\ slow' = "wake" /\ caller' = c /\ gps' = SleepOff(g)
           \/ slow' = pc /\ gps' = g /\ caller' = caller
    BY <1>4, <2>1, StartFact, Zenon
  <2>3. TypeOK'
    BY <1>1, <1>4, <2>2 DEF TypeOK, inputs
  <2>4. \/ ~tr.active /\ gps' = SleepOff(g) /\ slow' = "wake"
           /\ caller' # "none"
        \/ gps' = g /\ slow' \notin {"wake", "ticked"}
    BY <1>4, <2>2
  <2> QED BY <1>4, <2>2, <2>3, <2>4, TaskStep, Zenon
<1>5. ASSUME NEW t \in Tracer, t.active = tr.active, t.point = tr.point,
             StopNow(t), slow' \in {"SHOCK", "pend", "task", "get"},
             slow \notin {"reset", "wake", "ticked"},
             UNCHANGED <<inputs, power, server, caller, comm, open>>
      PROVE  Inv'
  <2>1. /\ tr' \in Tracer /\ gps' \in Gps
        /\ \/ t.active /\ tr'.active /\ tr'.point = t.point /\ gps' = gps
           \/ /\ ~(t.active /\ t.point = 1) /\ ~tr'.active
              /\ gps' = SleepOn(gps)
    BY <1>1, <1>5, StopFact, Zenon
  <2>2. TypeOK'
    BY <1>1, <1>5, <2>1 DEF TypeOK, inputs
  <2>3. slow' \notin {"wake", "ticked"}
    BY <1>5
  <2> QED BY <1>5, <2>1, <2>2, <2>3, TaskStep, Zenon
<1>6. ASSUME tr' \in Tracer, tr'.active = tr.active, tr'.point = tr.point,
             NEW g \in {gps, Temporary(gps)}, gps' = g,
             slow' \in {"get", "SHOCK", "pend", "task"},
             slow \notin {"reset", "wake", "ticked"},
             UNCHANGED <<inputs, power, server, caller, comm, open>>
      PROVE  Inv'
  <2>1. gps' \in Gps
    BY <1>1, <1>6, TemporaryFact, Zenon
  <2>2. TypeOK'
    BY <1>1, <1>6, <2>1 DEF TypeOK, inputs
  <2>3. slow' \notin {"wake", "ticked"}
    BY <1>6
  <2> QED BY <1>6, <2>2, <2>3, TaskStep, Zenon
<1>7. CASE Test
  <2>1. slow = "get" /\ UNCHANGED <<inputs, power, server, comm, open>>
    BY <1>7, Zenon DEF Test
  <2>2. CASE tr.stop_tmr = "off"
    BY <1>1, <1>4, <1>7, <2>1, <2>2, Zenon DEF Test
  <2>3. CASE tr.stop_tmr # "off"
    <3>1. /\ tr' = [tr EXCEPT !.stop_tmr = "runs"]
          /\ UNCHANGED <<slow, caller, gps>>
      BY <1>7, <2>3, Zenon DEF Test
    <3>2. tr' \in Tracer /\ tr'.active = tr.active /\ tr'.point = tr.point
      BY <1>1, <3>1 DEF Tracer
    <3> QED BY <1>6, <2>1, <3>1, <3>2
  <2> QED BY <2>2, <2>3
<1>8. CASE Key
  <2>1. slow = "KEY" /\ UNCHANGED <<inputs, power, server, comm, open>>
    BY <1>8, Zenon DEF Key
  <2> DEFINE t == [tr EXCEPT !.pending = FALSE, !.external = FALSE]
  <2>2. t \in Tracer /\ t.active = tr.active /\ t.point = tr.point
    BY <1>1 DEF Tracer
  <2>3. \/ StartNow(tr, gps, "KEY", "SHOCK")
        \/ StopNow(t) /\ slow' = "SHOCK" /\ UNCHANGED caller
        \/ slow' = "SHOCK" /\ UNCHANGED <<tr, gps, caller>>
    BY <1>8, Zenon DEF Key
  <2> HIDE DEF t
  <2>4. CASE StartNow(tr, gps, "KEY", "SHOCK")
    BY <1>1, <1>4, <2>1, <2>4, Zenon
  <2>5. CASE StopNow(t) /\ slow' = "SHOCK" /\ UNCHANGED caller
    BY <1>5, <2>1, <2>2, <2>5, Zenon
  <2>6. CASE slow' = "SHOCK" /\ UNCHANGED <<tr, gps, caller>>
    BY <1>1, <1>6, <2>1, <2>6
  <2> QED BY <2>3, <2>4, <2>5, <2>6
<1>9. CASE ShockTask
  <2>1. slow = "shock" /\ UNCHANGED <<inputs, power, server, comm, open>>
    BY <1>9, Zenon DEF ShockTask
  <2> DEFINE ended == [tr EXCEPT !.shock_active = FALSE]
             over  == [ended EXCEPT !.shock_stop_rq = FALSE]
             begun == [tr EXCEPT !.shock_active = TRUE, !.shock_tmr = FALSE]
  <2>2. ended \in Tracer /\ ended.active = tr.active /\ ended.point = tr.point
    BY <1>1 DEF Tracer
  <2>3. over \in Tracer /\ over.active = tr.active /\ over.point = tr.point
    BY <1>1 DEF Tracer
  <2>4. begun \in Tracer /\ begun.active = tr.active /\ begun.point = tr.point
    BY <1>1 DEF Tracer
  <2>5. \/ slow' = Onward(tr) /\ UNCHANGED <<tr, gps, caller>>
        \/ StopNow(ended) /\ slow' = Onward(tr') /\ UNCHANGED caller
        \/ StopNow(over) /\ slow' = Onward(tr') /\ UNCHANGED caller
        \/ /\ gps' = Temporary(gps) /\ slow' = Onward(tr)
           /\ UNCHANGED <<tr, caller>>
        \/ StartNow(begun, Temporary(gps), "shock", Onward(tr'))
    BY <1>9, Zenon DEF ShockTask
  <2> HIDE DEF ended, over, begun
  <2>6. Onward(tr) \in {"pend", "task", "get"}
        /\ Onward(tr') \in {"pend", "task", "get"}
    BY <1>2, Zenon
  <2>7. CASE slow' = Onward(tr) /\ UNCHANGED <<tr, gps, caller>>
    BY <1>1, <1>6, <2>1, <2>6, <2>7
  <2>8. CASE (StopNow(ended) \/ StopNow(over)) /\ slow' = Onward(tr')
             /\ UNCHANGED caller
    BY <1>5, <2>1, <2>2, <2>3, <2>6, <2>8
  <2>9. CASE gps' = Temporary(gps) /\ slow' = Onward(tr)
             /\ UNCHANGED <<tr, caller>>
    BY <1>1, <1>6, <2>1, <2>6, <2>9
  <2>10. CASE StartNow(begun, Temporary(gps), "shock", Onward(tr'))
    BY <1>4, <2>1, <2>4, <2>6, <2>10
  <2> QED BY <2>5, <2>7, <2>8, <2>9, <2>10
<1>10. CASE Pend
  <2>1. slow = "pend" /\ UNCHANGED <<inputs, power, server, comm, open>>
    BY <1>10, Zenon DEF Pend
  <2>2. CASE tr.pending /\ server = "ip"
    <3>1. StartNow([tr EXCEPT !.pending = FALSE], gps, "pend", "task")
      BY <1>10, <2>2, Zenon DEF Pend
    <3> QED BY <1>1, <1>3, <1>4, <2>1, <3>1
  <2>3. CASE ~(tr.pending /\ server = "ip")
    <3> DEFINE b == tr.pending /\ server # "bad"
    <3>1. /\ tr' = [tr EXCEPT !.pending = b]
          /\ slow' = "task" /\ UNCHANGED <<gps, caller>>
      BY <1>10, <2>3, Zenon DEF Pend
    <3>2. b \in BOOLEAN
      OBVIOUS
    <3> HIDE DEF b
    <3>3. tr' \in Tracer
      BY <1>1, <3>1, <3>2, Zenon DEF Tracer
    <3>4. tr'.active = tr.active /\ tr'.point = tr.point
      BY <1>1, <3>1 DEF Tracer
    <3> QED BY <1>6, <2>1, <3>1, <3>3, <3>4
  <2> QED BY <2>2, <2>3
<1> QED BY <1>7, <1>8, <1>9, <1>10

\* The end of a start, a point, a reset within a track.
LEMMA TrackStep ==
  ASSUME Inv, Started \/ NewPoint \/ Reset
  PROVE  Inv'
<1>1. /\ TypeOK /\ tr \in Tracer /\ gps \in Gps
      /\ PowerInv /\ WakeInv /\ TrackInv
  BY DEF Inv, TypeOK
<1>2. CASE Started
  <2>1. /\ slow \in {"wake", "ticked"} /\ gps.on /\ ~tr.active
        /\ caller # "none"
        /\ UNCHANGED <<inputs, power, server, comm, open>>
    BY <1>1, <1>2, Zenon DEF Started, WakeInv
  <2>2. gps' \in Gps /\ gps'.on = gps.on /\ gps'.pin = gps.pin
        /\ gps'.sleep_mode = FALSE
    BY <1>1, <1>2 DEF Started, Gps
  <2> DEFINE ext == tr.external \/ caller # "shock"
             stop == IF caller = "test" THEN "runs" ELSE tr.stop_tmr
  <2>3. ext \in BOOLEAN /\ stop \in {"off", "runs", "due"}
    BY <1>1 DEF Tracer
  <2>4. tr' = [tr EXCEPT !.active = TRUE, !.point = 0,
                         !.no_fix_reset_enable = TRUE,
                         !.external = ext, !.stop_tmr = stop]
    BY <1>2, Zenon DEF Started
  <2> HIDE DEF ext, stop
  <2>5. 0 \in 0 .. 1
    OBVIOUS
  <2>6. tr' \in Tracer
    BY <1>1, <2>3, <2>4, <2>5, Zenon DEF Tracer
  <2>7. caller \in {"KEY", "shock", "pend", "test"}
    BY <1>1, <2>1 DEF TypeOK
  <2>8. slow' \in {"SHOCK", "task", "get"} /\ caller' = "none"
    BY <1>2, <2>7 DEF Started
  <2>9. TypeOK'
    BY <1>1, <2>1, <2>2, <2>6, <2>8, Zenon DEF TypeOK, inputs
  <2>10. PowerInv' /\ WakeInv'
    BY <1>1, <2>1, <2>2, <2>8 DEF PowerInv, WakeInv
  <2>11. TrackInv'
    BY <1>1, <2>1, <2>2, Zenon DEF TrackInv, TracksClosed
  <2> QED BY <2>9, <2>10, <2>11 DEF Inv
<1>3. CASE NewPoint
  <2> DEFINE t == [Asked(tr) EXCEPT !.point = 1]
  <2>1. /\ slow = "task" /\ tr.active /\ slow' = "get" /\ open' = ~t.stop_rq
        /\ UNCHANGED <<inputs, power, server, caller, comm>>
        /\ IF t.stop_rq THEN tr' = Deactivated(t) /\ gps' = SleepOn(gps)
           ELSE tr' = t /\ UNCHANGED gps
    BY <1>3, Zenon DEF NewPoint
  <2>2. t \in Tracer /\ t.active = tr.active /\ t.point = 1
    BY <1>1, AskedFact DEF Tracer
  <2>3. Deactivated(t) \in Tracer /\ Deactivated(t).active = FALSE
    BY <2>2 DEF Deactivated, Tracer
  <2> HIDE DEF t
  <2>4. open' \in BOOLEAN
    BY <2>1, Zenon
  <2>5. /\ SleepOn(gps) \in Gps
        /\ SleepOn(gps).on => gps.on
        /\ ~SleepOn(gps).pin => ~gps.pin
    BY <1>1, SleepOnFact, Zenon
  <2>6. TypeOK'
    BY <1>1, <2>1, <2>2, <2>3, <2>4, <2>5, Zenon DEF TypeOK, inputs
  <2>7. PowerInv'
    BY <1>1, <2>1, <2>5, Zenon DEF PowerInv
  <2>8. WakeInv'
    BY <2>1 DEF WakeInv
  <2>9. TrackInv'
    BY <1>1, <2>1, <2>2, <2>3, Zenon DEF TrackInv, TracksClosed
  <2> QED BY <2>6, <2>7, <2>8, <2>9 DEF Inv
<1>4. CASE Reset
  <2>1. /\ slow = "task" /\ slow' = "reset"
        /\ UNCHANGED <<inputs, power, server, caller, comm, open>>
    BY <1>4 DEF Reset
  <2>2. gps' \in Gps /\ gps'.on = gps.on /\ gps'.sleep_mode = gps.sleep_mode
    BY <1>1, <1>4 DEF Reset, Gps
  <2>3. tr' \in Tracer /\ tr'.active = tr.active /\ tr'.point = tr.point
    <3> DEFINE t == Asked(tr)
    <3>1. t \in Tracer /\ t.active = tr.active /\ t.point = tr.point
      BY <1>1, AskedFact
    <3>2. tr' = [t EXCEPT !.no_fix_reset_enable = FALSE]
      BY <1>4 DEF Reset
    <3> HIDE DEF t
    <3> QED BY <3>1, <3>2 DEF Tracer
  <2>4. TypeOK'
    BY <1>1, <2>1, <2>2, <2>3, Zenon DEF TypeOK, inputs
  <2>5. PowerInv' /\ WakeInv'
    BY <2>1 DEF PowerInv, WakeInv
  <2>6. TrackInv'
    BY <1>1, <2>1, <2>2, <2>3, Zenon DEF TrackInv, TracksClosed
  <2> QED BY <2>4, <2>5, <2>6 DEF Inv
<1> QED BY <1>2, <1>3, <1>4

\* Every step of the tasks and the timers keeps the invariant.
LEMMA NextInv == Inv /\ [Next]_vars => Inv'
<1> SUFFICES ASSUME Inv, [Next]_vars PROVE Inv'
  OBVIOUS
<1>1. CASE UNCHANGED vars
  <2>1. TypeOK'
    BY <1>1, Zenon DEF Inv, TypeOK, vars, inputs
  <2> QED BY <1>1, <2>1, KeepStep, Zenon DEF vars
<1> QED
  BY <1>1, GpsStep, OtherStep, SlowStep, TrackStep, Zenon DEF Next, Goes

-----------------------------------------------------------------------------
\* Type correctness, for every start mode and all times: the counters of
\* gps_tick() stay within their limits, and the start that waits in
\* gps_sleep_enable() always has a caller to return to.
THEOREM TypeCorrect == Spec => []TypeOK
<1>1. Inv => TypeOK
  BY DEF Inv
<1> QED BY <1>1, InitInv, NextInv, PTL DEF Spec

\* While a track is recorded the GPS is awake and powered but for a reset,
\* wherever gps_tick() and the comm task's gps_reset() fall into
\* _tracer_start_now() (tracer.c, gps.c).
THEOREM GpsSafety == Spec => []GpsOnWhileTracking
<1>1. Inv => GpsOnWhileTracking
  BY DEF Inv, PowerInv, TrackInv, GpsOnWhileTracking
<1> QED BY <1>1, InitInv, NextInv, PTL DEF Spec

\* A track with points stays active until a point with TRACER_FLAG_LAST ends
\* it, and no other begins before (tracer.c _tracer_start_now(),
\* _tracer_stop_now(), tracer_task()).
THEOREM TrackSafety == Spec => []TracksClosed
<1>1. Inv => TracksClosed
  BY DEF Inv, TrackInv
<1> QED BY <1>1, InitInv, NextInv, PTL DEF Spec

-----------------------------------------------------------------------------
(* Halving *)

\* A set of natural numbers that is not empty has a least element.
LEMMA LeastNat ==
  ASSUME NEW S, S \subseteq Nat, S # {}
  PROVE  \E m \in S : \A k \in S : m <= k
<1>1. PICK x \in S : \A y \in S : ~(<<y, x>> \in OpToRel(<, Nat))
  BY WFMin, NatLessThanWellFounded
<1>2. \A y \in S : ~(y < x)
  BY <1>1, Zenon DEF OpToRel
<1> QED BY <1>2

\* A set that holds 0 and with a number the next one, up to N, holds them all.
LEMMA Climb ==
  ASSUME NEW N \in Nat, NEW S, 0 \in S,
         \A k \in 1 .. N : k - 1 \in S => k \in S
  PROVE  0 .. N \subseteq S
<1> SUFFICES ASSUME (0 .. N) \ S # {} PROVE FALSE
  OBVIOUS
<1>1. (0 .. N) \ S \subseteq Nat
  OBVIOUS
<1>2. PICK m \in (0 .. N) \ S : \A k \in (0 .. N) \ S : m <= k
  BY <1>1, LeastNat, Zenon
<1>3. m \in 1 .. N
  BY <1>2
<1>4. m - 1 \in S
  BY <1>2, <1>3
<1> QED BY <1>2, <1>3, <1>4

\* The states of a loop of N turns that begins with s.
IsRun(g, N, s, step) ==
  g = [k \in 0 .. N |-> IF k = 0 THEN s ELSE step[k][g[k - 1]]]

\* A loop of N turns over the states S runs to its end.
LEMMA LoopRuns ==
  ASSUME NEW N \in Nat, NEW S, NEW s \in S, NEW step \in [1 .. N -> [S -> S]]
  PROVE  \E g \in [0 .. N -> S] : IsRun(g, N, s, step)
<1> DEFINE Ok == {m \in 0 .. N : \E g \in [0 .. m -> S] : IsRun(g, m, s, step)}
<1>1. 0 \in Ok
  <2> DEFINE g == [k \in 0 .. 0 |-> s]
  <2>1. g \in [0 .. 0 -> S] /\ IsRun(g, 0, s, step)
    BY DEF IsRun
  <2> HIDE DEF g
  <2> QED BY <2>1
<1>2. ASSUME NEW m \in 1 .. N, m - 1 \in Ok PROVE m \in Ok
  <2>1. PICK f \in [0 .. m - 1 -> S] : IsRun(f, m - 1, s, step)
    BY <1>2
  <2> DEFINE g == [k \in 0 .. m |-> IF k = m THEN step[m][f[m - 1]] ELSE f[k]]
  <2>2. f[m - 1] \in S /\ step[m] \in [S -> S]
    OBVIOUS
  <2>3. g \in [0 .. m -> S]
    BY <2>2
  <2>4. \A k \in 0 .. m - 1 : f[k] = IF k = 0 THEN s ELSE step[k][f[k - 1]]
    BY <2>1 DEF IsRun
  <2>5. ASSUME NEW k \in 0 .. m
        PROVE  g[k] = IF k = 0 THEN s ELSE step[k][g[k - 1]]
    BY <2>4
  <2>6. IsRun(g, m, s, step)
    BY <2>3, <2>5 DEF IsRun
  <2> HIDE DEF g
  <2> QED BY <2>3, <2>6
<1>3. 0 .. N \subseteq Ok
  <2> HIDE DEF Ok
  <2> QED BY <1>1, <1>2, Climb
<1> QED BY <1>3

\* The powers of two, up to the size of the ring.
LEMMA PowFact ==
  /\ Pow2[0] = 1
  /\ \A k \in 1 .. Bits : Pow2[k] = 2 * Pow2[k - 1]
  /\ \A k \in 0 .. Bits : Pow2[k] \in Nat \ {0}
<1> DEFINE step == [k \in 1 .. Bits |-> [x \in Nat \ {0} |-> 2 * x]]
           IsPow(g) == g = [k \in 0 .. Bits |-> IF k = 0 THEN 1
                                                ELSE 2 * g[k - 1]]
<1>1. step \in [1 .. Bits -> [Nat \ {0} -> Nat \ {0}]] /\ Bits \in Nat
      /\ 1 \in Nat \ {0}
  BY BitsAssumption
<1>2. PICK g \in [0 .. Bits -> Nat \ {0}] : IsRun(g, Bits, 1, step)
  <2> HIDE DEF step
  <2> QED BY <1>1, LoopRuns
<1>3. IsPow(g)
  <2>1. \A k \in 1 .. Bits, x \in Nat \ {0} : step[k][x] = 2 * x
    OBVIOUS
  <2>2. \A k \in 1 .. Bits : g[k - 1] \in Nat \ {0}
    BY <1>1
  <2> HIDE DEF step
  <2>3. \A k \in 0 .. Bits : g[k] = IF k = 0 THEN 1 ELSE step[k][g[k - 1]]
    BY <1>2 DEF IsRun
  <2>4. ASSUME NEW k \in 0 .. Bits
        PROVE  g[k] = IF k = 0 THEN 1 ELSE 2 * g[k - 1]
    <3>1. CASE k \in 1 .. Bits
      <4>1. step[k][g[k - 1]] = 2 * g[k - 1]
        BY <2>1, <2>2, <3>1, Zenon
      <4> QED BY <2>3, <3>1, <4>1
    <3> QED BY <1>1, <2>3, <3>1
  <2> QED BY <2>4
<1>4. Pow2 = CHOOSE h : IsPow(h)
  BY DEF Pow2
<1> HIDE DEF IsPow
<1>5. IsPow(Pow2)
  BY <1>3, <1>4, Zenon
<1>6. /\ Pow2[0] = 1
      /\ \A k \in 1 .. Bits : Pow2[k] = 2 * Pow2[k - 1]
  BY <1>1, <1>5 DEF IsPow
<1> DEFINE Ok == {k \in 0 .. Bits : Pow2[k] \in Nat \ {0}}
<1>7. 0 .. Bits \subseteq Ok
  <2>1. 0 \in Ok
    BY <1>1, <1>6
  <2>2. ASSUME NEW k \in 1 .. Bits, k - 1 \in Ok PROVE k \in Ok
    BY <1>6, <2>2
  <2> HIDE DEF Ok
  <2> QED BY <1>1, <2>1, <2>2, Climb
<1> QED BY <1>6, <1>7

\* The ring and the step of each turn.
LEMMA SizeFact ==
  /\ Bits \in Nat \ {0} /\ Size \in Nat /\ Size >= 2 /\ Size = Pow2[Bits]
  /\ Slots = 0 .. Size - 1
  /\ Size \div 2 = Pow2[Bits - 1] /\ Size = 2 * Pow2[Bits - 1]
  /\ \A k \in 1 .. Bits :
       /\ Pow2[Bits - k] \in Nat \ {0}
       /\ Pow2[Bits - (k - 1)] = 2 * Pow2[Bits - k]
       /\ k < Bits => /\ Half(k) = Pow2[Bits - k - 1]
                      /\ Pow2[Bits - k] = 2 * Half(k)
       /\ k = Bits => Half(k) = 0 /\ Pow2[Bits - k] = 1
       /\ Half(k) \in 0 .. Size - 1 /\ Half(k) < Pow2[Bits - k]
<1>1. Bits \in Nat \ {0}
  BY BitsAssumption
<1>2. \A x \in Nat : (2 * x) \div 2 = x
  OBVIOUS
<1>3. 1 \div 2 = 0
  OBVIOUS
<1>4. Size = 2 * Pow2[Bits - 1] /\ Pow2[Bits - 1] \in Nat \ {0}
  BY <1>1, PowFact DEF Size
<1>5. ASSUME NEW k \in 1 .. Bits
      PROVE  /\ Pow2[Bits - k] \in Nat \ {0}
             /\ Pow2[Bits - (k - 1)] = 2 * Pow2[Bits - k]
             /\ k < Bits => /\ Half(k) = Pow2[Bits - k - 1]
                            /\ Pow2[Bits - k] = 2 * Half(k)
                            /\ Half(k) \in Nat \ {0}
             /\ k = Bits => Half(k) = 0 /\ Pow2[Bits - k] = 1
  <2>1. Bits - k \in 0 .. Bits /\ Bits - (k - 1) \in 1 .. Bits
        /\ Bits - (k - 1) - 1 = Bits - k
    BY <1>1
  <2>2. /\ Pow2[Bits - k] \in Nat \ {0}
        /\ Pow2[Bits - (k - 1)] = 2 * Pow2[Bits - k]
    BY <2>1, PowFact
  <2>3. CASE k < Bits
    <3>1. Bits - k \in 1 .. Bits /\ Bits - k - 1 \in 0 .. Bits
      BY <1>1, <2>3
    <3>2. Pow2[Bits - k] = 2 * Pow2[Bits - k - 1]
          /\ Pow2[Bits - k - 1] \in Nat \ {0}
      BY <3>1, PowFact
    <3> QED BY <1>2, <2>2, <2>3, <3>2 DEF Half
  <2>4. CASE k = Bits
    <3>1. Bits - k = 0
      BY <1>1, <2>4
    <3> QED BY <1>3, <2>2, <2>4, <3>1, PowFact DEF Half
  <2> QED BY <2>3, <2>4, <1>1
<1> DEFINE Ok == {k \in 0 .. Bits : Pow2[Bits - k] <= Size}
<1>6. 0 .. Bits \subseteq Ok
  <2>1. 0 \in Ok
    BY <1>1, <1>4 DEF Size
  <2>2. ASSUME NEW k \in 1 .. Bits, k - 1 \in Ok PROVE k \in Ok
    BY <1>1, <1>4, <1>5, <2>2
  <2> HIDE DEF Ok
  <2> QED BY <1>1, <2>1, <2>2, Climb
<1>7. \A k \in 1 .. Bits : Half(k) \in 0 .. Size - 1 /\ Half(k) < Pow2[Bits - k]
  BY <1>1, <1>4, <1>5, <1>6
<1> QED BY <1>1, <1>2, <1>4, <1>5, <1>7 DEF Size, Slots

-----------------------------------------------------------------------------
(* The search for the newest record *)

\* The states of the search.
NewestStart(f) ==
  [ptr |-> Size \div 2, top |-> 0, track |-> f[0].track, und |-> {}]

IsNewestRun(f, s) ==
  s = [k \in 0 .. Bits |-> IF k = 0 THEN NewestStart(f)
                          ELSE NewestTurn(f, s[k - 1], k)]

\* The search runs to its end, turn by turn.
LEMMA NewestRuns ==
  ASSUME NEW f
  PROVE  \E s : /\ Newest(f) = s[Bits] /\ s[0] = NewestStart(f)
               /\ \A k \in 1 .. Bits : s[k] = NewestTurn(f, s[k - 1], k)
<1> DEFINE S == [ptr : Int, top : Int, track : {f[x].track : x \in Int},
                 und : SUBSET Int]
           step == [k \in 1 .. Bits |-> [p \in S |-> NewestTurn(f, p, k)]]
<1>1. NewestStart(f) \in S
  <2>1. f[0].track \in {f[x].track : x \in Int}
    OBVIOUS
  <2>2. Size \div 2 \in Int
    BY SizeFact
  <2> QED BY <2>1, <2>2 DEF NewestStart
<1>2. ASSUME NEW k \in 1 .. Bits, NEW p \in S PROVE NewestTurn(f, p, k) \in S
  <2>1. p.ptr + Half(k) \in Int /\ p.ptr - Half(k) \in Int /\ p.ptr \in Int
    <3>1. p.ptr \in Int
      OBVIOUS
    <3>2. Half(k) \in Int
      BY SizeFact
    <3> QED BY <3>1, <3>2
  <2>2. f[p.ptr].track \in {f[x].track : x \in Int}
    BY <2>1
  <2>3. [p EXCEPT !.ptr = @ - Half(k)] \in S
    BY <2>1
  <2>4. ASSUME NEW u \in SUBSET Int
        PROVE  [ptr |-> p.ptr + Half(k), top |-> p.ptr,
                track |-> f[p.ptr].track, und |-> u] \in S
    BY <2>1, <2>2
  <2>5. (IF f[p.ptr].sent THEN p.und ELSE {p.ptr}) \in SUBSET Int
    BY <2>1
  <2> HIDE DEF S
  <2> QED BY <2>3, <2>4, <2>5 DEF NewestTurn
<1>3. step \in [1 .. Bits -> [S -> S]]
  <2> HIDE DEF S
  <2> QED BY <1>2
<1>4. \A k \in 1 .. Bits, p \in S : step[k][p] = NewestTurn(f, p, k)
  OBVIOUS
<1> HIDE DEF S, step
<1>5. PICK g \in [0 .. Bits -> S] : IsRun(g, Bits, NewestStart(f), step)
  BY <1>1, <1>3, LoopRuns, SizeFact
<1>6. IsNewestRun(f, g)
  <2>1. \A k \in 0 .. Bits : g[k] = IF k = 0 THEN NewestStart(f)
                                    ELSE step[k][g[k - 1]]
    BY <1>5 DEF IsRun
  <2>2. \A k \in 1 .. Bits : g[k - 1] \in S
    BY SizeFact
  <2>3. ASSUME NEW k \in 0 .. Bits
        PROVE  g[k] = IF k = 0 THEN NewestStart(f)
                      ELSE NewestTurn(f, g[k - 1], k)
    <3>1. CASE k \in 1 .. Bits
      <4>1. step[k][g[k - 1]] = NewestTurn(f, g[k - 1], k)
        BY <1>4, <2>2, <3>1, Zenon
      <4> QED BY <2>1, <3>1, <4>1
    <3>2. k = 0 \/ k \in 1 .. Bits
      BY SizeFact
    <3> QED BY <2>1, <3>1, <3>2
  <2> QED BY <2>3 DEF IsNewestRun
<1> DEFINE s == CHOOSE s : IsNewestRun(f, s)
<1>7. Newest(f) = s[Bits]
  BY DEF Newest, IsNewestRun, NewestStart
<1>8. IsNewestRun(f, s)
  BY <1>6, Zenon
<1> HIDE DEF s
<1>9. \A k \in 0 .. Bits : s[k] = IF k = 0 THEN NewestStart(f)
                                  ELSE NewestTurn(f, s[k - 1], k)
  BY <1>8 DEF IsNewestRun
<1>10. 0 \in 0 .. Bits /\ \A k \in 1 .. Bits : k \in 0 .. Bits /\ k # 0
  BY SizeFact
<1> QED BY <1>7, <1>9, <1>10

\* What a turn of the search leaves, whatever the ring holds: the places that
\* are left to look at lie within Pow2[Bits - k] slots from top on.
NewestState(f, p, k) ==
  /\ p \in [ptr : Int, top : Slots, track : Nat, und : SUBSET Slots]
  /\ p.top + Pow2[Bits - k] <= Size
  /\ k < Bits => p.ptr = p.top + Pow2[Bits - k - 1]
  /\ p.track = f[p.top].track
  /\ \/ p.und = {}
     \/ \E x \in Slots : p.und = {x} /\ Valid(f[x]) /\ ~f[x].sent
  /\ p.top # 0 /\ ~f[p.top].sent => p.und = {p.top}

\* The search begins with the whole ring.
LEMMA NewestBegin ==
  ASSUME NEW f \in [Slots -> Record]
  PROVE  NewestState(f, NewestStart(f), 0)
<1>1. 0 \in Slots /\ f[0].track \in Nat /\ Size \div 2 \in Int
  BY SizeFact DEF Record
<1>2. NewestStart(f) \in [ptr : Int, top : Slots, track : Nat,
                         und : SUBSET Slots]
  BY <1>1 DEF NewestStart
<1> QED BY <1>1, <1>2, SizeFact DEF NewestState, NewestStart

\* A turn halves what is left, at the slot it looks at.
LEMMA NewestStep ==
  ASSUME NEW f \in [Slots -> Record], NEW k \in 1 .. Bits, NEW p,
         NewestState(f, p, k - 1)
  PROVE  /\ p.ptr \in Slots /\ p.ptr = p.top + Pow2[Bits - k]
         /\ NewestState(f, NewestTurn(f, p, k), k)
         /\ NewestTurn(f, p, k).top =
              IF Valid(f[p.ptr]) /\ f[p.ptr].track >= f[p.top].track
              THEN p.ptr ELSE p.top
<1> DEFINE h == Pow2[Bits - k]
           T == [ptr : Int, top : Slots, track : Nat, und : SUBSET Slots]
<1>1. /\ h \in Nat \ {0} /\ Pow2[Bits - (k - 1)] = 2 * h
      /\ k < Bits => Half(k) = Pow2[Bits - k - 1] /\ h = 2 * Half(k)
      /\ k = Bits => Half(k) = 0 /\ h = 1
      /\ Half(k) \in Nat /\ Size \in Nat /\ Slots = 0 .. Size - 1
  BY SizeFact
<1>2. /\ p \in T /\ p.top \in Slots /\ p.top + 2 * h <= Size
      /\ p.track = f[p.top].track
      /\ p.ptr = p.top + h
  <2>1. Bits - (k - 1) - 1 = Bits - k /\ k - 1 < Bits
    BY SizeFact
  <2> QED BY <1>1, <2>1 DEF NewestState
<1> HIDE DEF h
<1>3. p.ptr \in Slots /\ p.ptr > 0 /\ p.ptr + h <= Size
  BY <1>1, <1>2
<1>4. CASE Valid(f[p.ptr]) /\ f[p.ptr].track >= p.track
  <2> DEFINE u == IF f[p.ptr].sent THEN p.und ELSE {p.ptr}
             r == [ptr |-> p.ptr + Half(k), top |-> p.ptr,
                   track |-> f[p.ptr].track, und |-> u]
  <2>1. NewestTurn(f, p, k) = r
    BY <1>4 DEF NewestTurn
  <2>2. u \in SUBSET Slots /\ f[p.ptr].track \in Nat
    BY <1>2, <1>3 DEF Record
  <2>3. \/ u = {}
        \/ \E x \in Slots : u = {x} /\ Valid(f[x]) /\ ~f[x].sent
    BY <1>3, <1>4 DEF NewestState
  <2>4. ~f[p.ptr].sent => u = {p.ptr}
    OBVIOUS
  <2> HIDE DEF u
  <2>5. r \in T /\ r.top = p.ptr /\ r.ptr = p.ptr + Half(k)
        /\ r.und = u /\ r.track = f[p.ptr].track
    BY <1>1, <1>2, <1>3, <2>2
  <2> HIDE DEF r
  <2>6. NewestState(f, r, k)
    BY <1>1, <1>3, <2>3, <2>4, <2>5 DEF NewestState, h
  <2> QED BY <1>2, <1>3, <1>4, <2>1, <2>5, <2>6 DEF h
<1>5. CASE ~(Valid(f[p.ptr]) /\ f[p.ptr].track >= p.track)
  <2> DEFINE r == [p EXCEPT !.ptr = @ - Half(k)]
  <2>1. NewestTurn(f, p, k) = r
    BY <1>5 DEF NewestTurn
  <2>2. r \in T /\ r.top = p.top /\ r.ptr = p.ptr - Half(k)
        /\ r.und = p.und /\ r.track = p.track
    <3>1. p.ptr - Half(k) \in Int
      BY <1>1, <1>3
    <3>2. r \in T
      BY <1>2, <3>1, Zenon
    <3> QED BY <1>2, <3>2
  <2> HIDE DEF r
  <2>3. NewestState(f, r, k)
    <3>1. /\ r.top + h <= Size
          /\ k < Bits => r.ptr = r.top + Pow2[Bits - k - 1]
          /\ r.track = f[r.top].track
      <4>1. /\ p.top + h <= Size
            /\ k < Bits => p.ptr - Half(k) = p.top + Pow2[Bits - k - 1]
        <5> HIDE DEF T
        <5> QED BY <1>1, <1>2
      <4> QED BY <1>2, <2>2, <4>1, Zenon
    <3>2. /\ \/ p.und = {}
             \/ \E x \in Slots : p.und = {x} /\ Valid(f[x]) /\ ~f[x].sent
          /\ p.top # 0 /\ ~f[p.top].sent => p.und = {p.top}
      BY DEF NewestState
    <3> QED BY <2>2, <3>1, <3>2, Zenon DEF NewestState, h
  <2> QED BY <1>2, <1>3, <1>5, <2>1, <2>2, <2>3 DEF h
<1> QED BY <1>4, <1>5

\* The search ends inside the ring.
LEMMA NewestType ==
  ASSUME NEW f \in [Slots -> Record]
  PROVE  NewestState(f, Newest(f), Bits)
<1>1. PICK s : /\ Newest(f) = s[Bits] /\ s[0] = NewestStart(f)
               /\ \A k \in 1 .. Bits : s[k] = NewestTurn(f, s[k - 1], k)
  BY NewestRuns
<1> DEFINE Ok == {k \in 0 .. Bits : NewestState(f, s[k], k)}
<1>2. 0 \in 0 .. Bits /\ Bits \in 0 .. Bits
      /\ \A k \in 1 .. Bits : k \in 0 .. Bits
  BY SizeFact
<1>3. 0 \in Ok
  BY <1>1, <1>2, NewestBegin
<1>4. ASSUME NEW k \in 1 .. Bits, k - 1 \in Ok PROVE k \in Ok
  <2>1. NewestState(f, s[k - 1], k - 1)
    BY <1>4
  <2>2. NewestState(f, NewestTurn(f, s[k - 1], k), k)
    BY <2>1, NewestStep
  <2> QED BY <1>1, <1>2, <2>2
<1>5. 0 .. Bits \subseteq Ok
  <2> HIDE DEF Ok
  <2> QED BY <1>3, <1>4, Climb, SizeFact
<1> QED BY <1>1, <1>2, <1>5

-----------------------------------------------------------------------------
(* The order of the ring *)

\* The slot k + 1 records before slot p.
Back(p, k) == IF p > k THEN p - 1 - k ELSE p + Size - 1 - k

\* Records m were written up to slot p: all of them or those below p are
\* valid, and going back from p their points and tracks get older.  Records
\* TrackLimit slots apart belong to different tracks.
Ring(m, p) ==
  /\ \/ \A i \in Slots : Valid(m[i])
     \/ \A i \in Slots : Valid(m[i]) <=> i < p
  /\ \A i, j \in Slots :
       i < j /\ Valid(m[Back(p, j)]) =>
         /\ m[Back(p, j)].n < m[Back(p, i)].n
         /\ m[Back(p, j)].track <= m[Back(p, i)].track
         /\ j - i >= TrackLimit => m[Back(p, j)].track < m[Back(p, i)].track

\* The u records before slot p are those that wait to be delivered.
Waiting(m, p, u) ==
  \A j \in Slots :
    /\ j < u => Valid(m[Back(p, j)]) /\ ~m[Back(p, j)].sent
    /\ j >= u /\ Valid(m[Back(p, j)]) => m[Back(p, j)].sent

\* The ring is an interval of at least two slots.
LEMMA RingSize == Size \in Nat /\ Size >= 2 /\ Slots = 0 .. Size - 1
BY SizeFact

\* Going back from a slot visits every slot once, the slot itself last.
LEMMA BackFact ==
  ASSUME NEW p \in Slots
  PROVE  /\ \A k \in Slots : Back(p, k) \in Slots
         /\ \A k \in Slots : Back(p, Back(p, k)) = k
         /\ Back(p, Size - 1) = p
         /\ \A k \in Slots : Back(p, k) = p => k = Size - 1
BY RingSize DEF Back

\* One record more is one more to go back.
LEMMA BackInc ==
  ASSUME NEW p \in Slots
  PROVE  /\ BUF_INC_PTR(p) \in Slots
         /\ Back(BUF_INC_PTR(p), 0) = p
         /\ BUF_INC_PTR(Back(p, 0)) = p
         /\ \A k \in Slots : k > 0 => Back(BUF_INC_PTR(p), k) = Back(p, k - 1)
BY RingSize DEF Back, BUF_INC_PTR

\* ptr &= (BUF_STORE_LIMIT-1), for arguments below twice the size.
LEMMA ModFact ==
  ASSUME NEW x \in Nat, x < 2 * Size
  PROVE  x % Size = IF x < Size THEN x ELSE x - Size
<1>1. ASSUME NEW n \in Nat, n > 0, NEW y \in Nat, y < 2 * n
      PROVE  y % n = IF y < n THEN y ELSE y - n
  BY <1>1
<1> QED BY <1>1, RingSize

\* A masked pointer lies in the ring.
LEMMA ModType ==
  ASSUME NEW x \in Int
  PROVE  x % Size \in Slots
<1>1. ASSUME NEW n \in Nat, n > 0
      PROVE  x % n \in 0 .. n - 1
  BY <1>1
<1> QED BY <1>1, RingSize

\* The comparison of track numbers tells the slots up to the newest record
\* from those behind it, over at most half of the ring.
LEMMA NewestTest ==
  ASSUME NEW f \in [Slots -> Record], NEW q \in Slots, Ring(f, q),
         2 * TrackLimit <= Size, Valid(f[0]),
         NEW a \in Slots, a <= Back(q, 0), NEW b \in Slots, a < b,
         2 * (b - a) <= Size
  PROVE  Valid(f[b]) /\ f[b].track >= f[a].track <=> b <= Back(q, 0)
<1> DEFINE t == Back(q, 0)
           i == Back(q, a)
           j == Back(q, b)
<1>1. /\ i \in Slots /\ j \in Slots /\ t \in Slots
      /\ Back(q, i) = a /\ Back(q, j) = b
  BY BackFact, RingSize
<1>2. \A s \in Slots : f[s].track \in Nat
  BY DEF Record
<1>3. \A s \in Slots : s <= t => Valid(f[s]) /\ Back(q, s) = t - s
  BY RingSize DEF Ring, Back
<1>4. \A s \in Slots : s > t => Back(q, s) = t + Size - s
  BY RingSize DEF Back
<1>5. CASE b <= t
  <2>1. j < i /\ Valid(f[a]) /\ Valid(f[b])
    BY <1>1, <1>3, <1>5, RingSize
  <2>2. f[a].track <= f[b].track
    BY <1>1, <2>1 DEF Ring
  <2> QED BY <1>2, <1>5, <2>1, <2>2
<1>6. CASE b > t /\ Valid(f[b])
  <2>1. i < j /\ j - i >= TrackLimit
    <3>1. i = t - a /\ j = t + Size - b
      BY <1>3, <1>4, <1>6
    <3> HIDE DEF i, j, t
    <3> QED BY <1>1, <1>6, <3>1, RingSize, LimitsAssumption
  <2>2. f[b].track < f[a].track
    BY <1>1, <1>6, <2>1 DEF Ring
  <2> QED BY <1>2, <1>1, <1>6, <2>2, RingSize
<1> QED BY <1>1, <1>5, <1>6, RingSize

\* The search finds the newest record, and the track it belongs to.
LEMMA NewestFact ==
  ASSUME NEW f \in [Slots -> Record], NEW q \in Slots, Ring(f, q),
         2 * TrackLimit <= Size, Valid(f[0])
  PROVE  Newest(f).top = Back(q, 0)
<1>1. PICK s : /\ Newest(f) = s[Bits] /\ s[0] = NewestStart(f)
               /\ \A k \in 1 .. Bits : s[k] = NewestTurn(f, s[k - 1], k)
  BY NewestRuns
<1> DEFINE t == Back(q, 0)
           Near(k) == s[k].top <= t /\ t < s[k].top + Pow2[Bits - k]
           Ok == {k \in 0 .. Bits : NewestState(f, s[k], k) /\ Near(k)}
<1>2. 0 \in 0 .. Bits /\ Bits \in 0 .. Bits /\ Bits \in Nat
      /\ \A k \in 1 .. Bits : k \in 0 .. Bits
  BY SizeFact
<1>3. t \in Slots
  BY BackFact, RingSize
<1> HIDE DEF t
<1>4. 0 \in Ok
  <2>1. NewestState(f, s[0], 0)
    BY <1>1, NewestBegin
  <2>2. s[0].top = 0
    BY <1>1 DEF NewestStart
  <2>3. Bits - 0 = Bits /\ Pow2[Bits] = Size
    BY SizeFact
  <2>4. Near(0)
    BY <1>3, <2>2, <2>3, RingSize
  <2> QED BY <1>2, <2>1, <2>4
<1>5. ASSUME NEW k \in 1 .. Bits, k - 1 \in Ok PROVE k \in Ok
  <2> DEFINE p == s[k - 1]
             h == Pow2[Bits - k]
  <2>1. NewestState(f, p, k - 1) /\ Near(k - 1)
    BY <1>5
  <2>2. s[k] = NewestTurn(f, p, k)
    BY <1>1
  <2>3. h \in Nat \ {0} /\ Pow2[Bits - (k - 1)] = 2 * h
    BY SizeFact
  <2>4. p.top \in Slots /\ p.top + 2 * h <= Size
    BY <2>1, <2>3 DEF NewestState
  <2> HIDE DEF p
  <2>5. /\ p.ptr \in Slots /\ p.ptr = p.top + h
        /\ NewestState(f, s[k], k)
        /\ s[k].top = IF Valid(f[p.ptr]) /\ f[p.ptr].track >= f[p.top].track
                      THEN p.ptr ELSE p.top
    BY <2>1, <2>2, NewestStep
  <2>6. p.top <= t /\ t < p.top + 2 * h
    BY <2>1, <2>3 DEF p
  <2> HIDE DEF h
  <2>7. Valid(f[p.ptr]) /\ f[p.ptr].track >= f[p.top].track <=> p.ptr <= t
    <3>1. p.top < p.ptr /\ 2 * (p.ptr - p.top) <= Size
      BY <2>3, <2>4, <2>5, RingSize
    <3> QED BY <2>4, <2>5, <2>6, <3>1, NewestTest DEF t
  <2>8. s[k].top = IF p.ptr <= t THEN p.ptr ELSE p.top
    BY <2>5, <2>7, Zenon
  <2>9. Near(k)
    <3>1. s[k].top <= t /\ t < s[k].top + h
      BY <1>3, <2>3, <2>4, <2>5, <2>6, <2>8, RingSize
    <3> QED BY <3>1 DEF h
  <2> QED BY <1>2, <2>5, <2>9
<1>6. 0 .. Bits \subseteq Ok
  <2> HIDE DEF Ok
  <2> QED BY <1>2, <1>4, <1>5, Climb
<1>7. NewestState(f, s[Bits], Bits) /\ Near(Bits)
  BY <1>2, <1>6
<1>8. Pow2[Bits - Bits] = 1 /\ s[Bits].top \in Slots
  BY <1>2, <1>7, PowFact DEF NewestState
<1> QED BY <1>1, <1>3, <1>7, <1>8, RingSize DEF t

-----------------------------------------------------------------------------
(* The search for the oldest record that waits *)

\* The states of the search.
OldestStart(top, und) == [ptr |-> (top + Size \div 2) % Size, und |-> und]

IsOldestRun(f, top, und, s) ==
  s = [k \in 0 .. Bits |-> IF k = 0 THEN OldestStart(top, und)
                          ELSE OldestTurn(f, s[k - 1], k)]

\* The search runs to its end and stays inside the ring.
LEMMA OldestRuns ==
  ASSUME NEW f, NEW top \in Slots, NEW und \in Slots
  PROVE  \E s \in [0 .. Bits -> [ptr : Slots, und : Slots]] :
           /\ Oldest(f, top, und) = s[Bits].und
           /\ s[0] = OldestStart(top, und)
           /\ \A k \in 1 .. Bits : s[k] = OldestTurn(f, s[k - 1], k)
<1> DEFINE S == [ptr : Slots, und : Slots]
           step == [k \in 1 .. Bits |-> [p \in S |-> OldestTurn(f, p, k)]]
<1>0. top \in Int /\ Size \in Int
  BY RingSize
<1>1. OldestStart(top, und) \in S
  <2>1. top + Size \div 2 \in Int
    BY <1>0, SizeFact, PowFact
  <2> QED BY <2>1, ModType DEF OldestStart
<1>2. ASSUME NEW k \in 1 .. Bits, NEW p \in S PROVE OldestTurn(f, p, k) \in S
  <2>1. p.ptr \in Slots /\ p.ptr \in Int
    BY RingSize
  <2>2. Half(k) \in Int
    BY SizeFact
  <2>3. p.ptr + Size - Half(k) \in Int /\ p.ptr + Half(k) \in Int
    BY <1>0, <2>1, <2>2
  <2>4. /\ (p.ptr + Size - Half(k)) % Size \in Slots
        /\ (p.ptr + Half(k)) % Size \in Slots
    BY <2>3, ModType
  <2>5. [ptr |-> (p.ptr + Size - Half(k)) % Size, und |-> p.ptr] \in S
    BY <2>1, <2>4
  <2>6. [p EXCEPT !.ptr = (@ + Half(k)) % Size] \in S
    BY <2>4, Zenon
  <2> HIDE DEF S
  <2> QED BY <2>5, <2>6 DEF OldestTurn
<1>3. step \in [1 .. Bits -> [S -> S]]
  <2> HIDE DEF S
  <2> QED BY <1>2
<1>4. \A k \in 1 .. Bits, p \in S : step[k][p] = OldestTurn(f, p, k)
  OBVIOUS
<1> HIDE DEF step
<1>5. PICK g \in [0 .. Bits -> S] : IsRun(g, Bits, OldestStart(top, und), step)
  <2> HIDE DEF S
  <2> QED BY <1>1, <1>3, LoopRuns, SizeFact
<1>6. IsOldestRun(f, top, und, g)
  <2> HIDE DEF S
  <2>1. \A k \in 0 .. Bits : g[k] = IF k = 0 THEN OldestStart(top, und)
                                    ELSE step[k][g[k - 1]]
    BY <1>5 DEF IsRun
  <2>2. \A k \in 1 .. Bits : g[k - 1] \in S
    BY SizeFact
  <2>3. ASSUME NEW k \in 0 .. Bits
        PROVE  g[k] = IF k = 0 THEN OldestStart(top, und)
                      ELSE OldestTurn(f, g[k - 1], k)
    <3>1. CASE k \in 1 .. Bits
      <4>1. step[k][g[k - 1]] = OldestTurn(f, g[k - 1], k)
        BY <1>4, <2>2, <3>1, Zenon
      <4> QED BY <2>1, <3>1, <4>1
    <3>2. k = 0 \/ k \in 1 .. Bits
      BY SizeFact
    <3> QED BY <2>1, <3>1, <3>2
  <2> QED BY <2>3 DEF IsOldestRun
<1> DEFINE s == CHOOSE s : IsOldestRun(f, top, und, s)
<1>7. Oldest(f, top, und) = s[Bits].und
  BY DEF Oldest, IsOldestRun, OldestStart
<1>8. IsOldestRun(f, top, und, s)
  BY <1>6, Zenon
<1> HIDE DEF s
<1>9. \A k \in 0 .. Bits : s[k] = IF k = 0 THEN OldestStart(top, und)
                                  ELSE OldestTurn(f, s[k - 1], k)
  BY <1>8 DEF IsOldestRun
<1>10. Bits \in Nat /\ 0 \in 0 .. Bits
       /\ \A k \in 1 .. Bits : k \in 0 .. Bits /\ k # 0
  BY SizeFact
<1>11. \A k \in 0 .. Bits : s[k] \in S
  <2> DEFINE Ok == {k \in 0 .. Bits : s[k] \in S}
  <2> HIDE DEF S
  <2>1. 0 \in Ok
    BY <1>1, <1>9, <1>10
  <2>2. ASSUME NEW k \in 1 .. Bits, k - 1 \in Ok PROVE k \in Ok
    BY <1>2, <1>9, <1>10, <2>2
  <2>3. 0 .. Bits \subseteq Ok
    <3> HIDE DEF Ok
    <3> QED BY <1>10, <2>1, <2>2, Climb
  <2> QED BY <2>3
<1>12. s \in [0 .. Bits -> S]
  <2> HIDE DEF S
  <2>1. s = [k \in 0 .. Bits |-> s[k]]
    BY <1>8, <1>9 DEF IsOldestRun
  <2> QED BY <1>11, <2>1
<1> QED BY <1>7, <1>9, <1>10, <1>12

\* Steps back and forth in the ring.
LEMMA BackMod ==
  ASSUME NEW q \in Slots, NEW i \in Slots, NEW d \in Nat
  PROVE  /\ i + d < Size => (Back(q, i) + Size - d) % Size = Back(q, i + d)
         /\ d <= i => (Back(q, i) + d) % Size = Back(q, i - d)
<1>1. Back(q, i) \in Slots
  BY BackFact
<1>2. ASSUME i + d < Size
      PROVE  (Back(q, i) + Size - d) % Size = Back(q, i + d)
  <2> DEFINE x == Back(q, i) + Size - d
  <2>1. x \in Nat /\ x < 2 * Size
    BY <1>1, <1>2, RingSize
  <2>2. x % Size = IF x < Size THEN x ELSE x - Size
    <3> HIDE DEF x
    <3> QED BY <2>1, ModFact
  <2>3. Back(q, i + d) = IF x < Size THEN x ELSE x - Size
    BY <1>1, <1>2, RingSize DEF Back
  <2> QED BY <2>2, <2>3
<1>3. ASSUME d <= i
      PROVE  (Back(q, i) + d) % Size = Back(q, i - d)
  <2> DEFINE x == Back(q, i) + d
  <2>1. x \in Nat /\ x < 2 * Size
    BY <1>1, <1>3, RingSize
  <2>2. x % Size = IF x < Size THEN x ELSE x - Size
    <3> HIDE DEF x
    <3> QED BY <2>1, ModFact
  <2>3. Back(q, i - d) = IF x < Size THEN x ELSE x - Size
    BY <1>1, <1>3, RingSize DEF Back
  <2> QED BY <2>2, <2>3
<1> QED BY <1>2, <1>3

\* What a turn leaves: und is the record b + 1 before q, it waits, and the
\* oldest that waits, u before q, is less than Pow2[Bits - k] further back.
OldestState(q, u, p, k) ==
  \E b \in Slots :
    /\ p.und = Back(q, b)
    /\ b <= u - 1 /\ u - 1 < b + Pow2[Bits - k]
    /\ b + Pow2[Bits - k] <= Size
    /\ k < Bits => p.ptr = Back(q, b + Pow2[Bits - k - 1])

\* A turn halves what is left.
LEMMA OldestStep ==
  ASSUME NEW f \in [Slots -> Record], NEW q \in Slots, NEW u \in 1 .. Size,
         Waiting(f, q, u), NEW k \in 1 .. Bits,
         NEW p \in [ptr : Slots, und : Slots], OldestState(q, u, p, k - 1)
  PROVE  OldestState(q, u, OldestTurn(f, p, k), k)
<1> DEFINE h == Pow2[Bits - k]
           r == OldestTurn(f, p, k)
<1>1. /\ h \in Nat \ {0} /\ Pow2[Bits - (k - 1)] = 2 * h
      /\ k < Bits => Half(k) = Pow2[Bits - k - 1] /\ h = 2 * Half(k)
      /\ Half(k) \in Nat /\ Half(k) < h
  <2>1. /\ h \in Nat \ {0} /\ Pow2[Bits - (k - 1)] = 2 * h
        /\ k < Bits => Half(k) = Pow2[Bits - k - 1] /\ h = 2 * Half(k)
        /\ Half(k) \in 0 .. Size - 1 /\ Half(k) < h
    BY SizeFact, Zenon
  <2> QED BY <2>1, RingSize
<1>2. Bits - (k - 1) - 1 = Bits - k /\ k - 1 < Bits
  BY SizeFact
<1>3. PICK b \in Slots : /\ p.und = Back(q, b)
                         /\ b <= u - 1 /\ u - 1 < b + 2 * h
                         /\ b + 2 * h <= Size /\ p.ptr = Back(q, b + h)
  BY <1>1, <1>2 DEF OldestState
<1> HIDE DEF h
<1>4. b \in Nat /\ b + h \in Slots /\ b + h < Size /\ u \in Nat
  BY <1>1, <1>3, RingSize
<1>5. Valid(f[p.ptr]) /\ ~f[p.ptr].sent <=> b + h < u
  <2> DEFINE j == b + h
  <2>1. j \in Slots /\ p.ptr = Back(q, j) /\ (j < u \/ (j >= u /\ ~(j < u)))
    BY <1>3, <1>4, RingSize
  <2> HIDE DEF j
  <2>2. Valid(f[p.ptr]) /\ ~f[p.ptr].sent <=> j < u
    BY <2>1, Zenon DEF Waiting
  <2> QED BY <2>2 DEF j
<1>6. CASE b + h < u
  <2>1. r = [ptr |-> (p.ptr + Size - Half(k)) % Size, und |-> p.ptr]
    BY <1>5, <1>6, Zenon DEF OldestTurn
  <2>2. b + h + Half(k) < Size
    BY <1>1, <1>3, <1>4, RingSize
  <2>3. (p.ptr + Size - Half(k)) % Size = Back(q, b + h + Half(k))
    BY <1>1, <1>3, <1>4, <2>2, BackMod
  <2>4. r.und = Back(q, b + h) /\ r.ptr = Back(q, b + h + Half(k))
    BY <1>3, <2>1, <2>3
  <2> HIDE DEF r
  <2>5. b + h <= u - 1 /\ u - 1 < b + h + h /\ b + h + h <= Size
    BY <1>1, <1>3, <1>4, <1>6, RingSize
  <2> DEFINE c == b + h
  <2>6. k < Bits => c + Half(k) = c + Pow2[Bits - k - 1]
    BY <1>1
  <2>7. /\ c \in Slots /\ r.und = Back(q, c) /\ r.ptr = Back(q, c + Half(k))
        /\ c <= u - 1 /\ u - 1 < c + h /\ c + h <= Size
    BY <1>4, <2>4, <2>5
  <2> HIDE DEF c
  <2>8. OldestState(q, u, r, k)
    BY <2>6, <2>7, Zenon DEF OldestState, h
  <2> QED BY <2>8 DEF r
<1>7. CASE ~(b + h < u)
  <2>1. r = [p EXCEPT !.ptr = (@ + Half(k)) % Size]
    BY <1>5, <1>7, Zenon DEF OldestTurn
  <2>2. Half(k) <= b + h
    BY <1>1, <1>4
  <2>3. (p.ptr + Half(k)) % Size = Back(q, b + h - Half(k))
    BY <1>1, <1>3, <1>4, <2>2, BackMod
  <2>4. r.und = Back(q, b) /\ r.ptr = Back(q, b + h - Half(k))
    <3>1. r.und = p.und /\ r.ptr = (p.ptr + Half(k)) % Size
      BY <2>1, Zenon
    <3> QED BY <1>3, <2>3, <3>1
  <2> HIDE DEF r
  <2>5. b <= u - 1 /\ u - 1 < b + h /\ b + h <= Size
    BY <1>1, <1>3, <1>4, <1>7, RingSize
  <2>6. k < Bits => b + h - Half(k) = b + Pow2[Bits - k - 1]
    BY <1>1, <1>4
  <2>7. OldestState(q, u, r, k)
    BY <1>3, <2>4, <2>5, <2>6, Zenon DEF OldestState, h
  <2> QED BY <2>7 DEF r
<1> QED BY <1>6, <1>7

\* The search finds the oldest record that waits.
LEMMA OldestFact ==
  ASSUME NEW f \in [Slots -> Record], NEW q \in Slots, NEW u \in 1 .. Size,
         Waiting(f, q, u)
  PROVE  Oldest(f, Back(q, 0), Back(q, 0)) = Back(q, u - 1)
<1> DEFINE t == Back(q, 0)
<1>1. t \in Slots
  BY BackFact, RingSize
<1>2. PICK s \in [0 .. Bits -> [ptr : Slots, und : Slots]] :
             /\ Oldest(f, t, t) = s[Bits].und
             /\ s[0] = OldestStart(t, t)
             /\ \A k \in 1 .. Bits : s[k] = OldestTurn(f, s[k - 1], k)
  <2> HIDE DEF t
  <2> QED BY <1>1, OldestRuns
<1> DEFINE Ok == {k \in 0 .. Bits : OldestState(q, u, s[k], k)}
<1>3. Bits \in Nat /\ 0 \in 0 .. Bits /\ Bits \in 0 .. Bits /\ 0 < Bits
      /\ \A k \in 1 .. Bits : k \in 0 .. Bits /\ k - 1 \in 0 .. Bits
  BY SizeFact
<1>4. 0 \in Ok
  <2> DEFINE h == Pow2[Bits - 1]
  <2>1. Size \div 2 = h /\ Size = 2 * h /\ h \in Nat \ {0}
        /\ Pow2[Bits] = Size /\ Bits - 0 = Bits /\ Bits - 0 - 1 = Bits - 1
    BY SizeFact
  <2>2. s[0].und = t /\ s[0].ptr = (t + h) % Size
    BY <1>2, <2>1 DEF OldestStart
  <2> HIDE DEF h
  <2>3. (t + Size - h) % Size = Back(q, 0 + h)
    BY <2>1, BackMod, RingSize
  <2>4. t + Size - h = t + h /\ 0 \in Slots
    BY <1>1, <2>1, RingSize
  <2>5. s[0].ptr = Back(q, 0 + h)
    BY <2>2, <2>3, <2>4
  <2>6. 0 <= u - 1 /\ u - 1 < 0 + Size /\ 0 + Size <= Size
    BY RingSize
  <2>7. OldestState(q, u, s[0], 0)
    <3>1. Pow2[Bits - 0] = Size /\ Pow2[Bits - 0 - 1] = h
      BY <2>1 DEF h
    <3> QED BY <2>2, <2>4, <2>5, <2>6, <3>1 DEF OldestState
  <2> QED BY <1>3, <2>7
<1>5. ASSUME NEW k \in 1 .. Bits, k - 1 \in Ok PROVE k \in Ok
  <2>1. OldestState(q, u, s[k - 1], k - 1)
    BY <1>5
  <2>2. s[k - 1] \in [ptr : Slots, und : Slots]
    BY <1>3
  <2>3. OldestState(q, u, OldestTurn(f, s[k - 1], k), k)
    BY <2>1, <2>2, OldestStep
  <2> QED BY <1>2, <1>3, <2>3
<1>6. 0 .. Bits \subseteq Ok
  <2> HIDE DEF Ok
  <2> QED BY <1>3, <1>4, <1>5, Climb
<1>7. OldestState(q, u, s[Bits], Bits) /\ Pow2[Bits - Bits] = 1
  BY <1>3, <1>6, PowFact
<1>8. PICK b \in Slots : s[Bits].und = Back(q, b) /\ b <= u - 1 /\ u - 1 < b + 1
  BY <1>7 DEF OldestState
<1>9. b = u - 1
  BY <1>8, RingSize
<1> QED BY <1>2, <1>8, <1>9

-----------------------------------------------------------------------------
(* tracer_buf_init() *)

\* Whatever the ring holds, a restart takes up pointers inside it.
LEMMA InitPointers ==
  ASSUME NEW f \in [Slots -> Record]
  PROVE  /\ tracer_buf_init(f).save \in Slots
         /\ tracer_buf_init(f).undel \in Slots
         /\ tracer_buf_init(f).track \in Nat
<1>1. CASE ~Valid(f[0])
  BY <1>1, RingSize DEF tracer_buf_init
<1>2. CASE Valid(f[0])
  <2> DEFINE new == Newest(f)
             s == BUF_INC_PTR(new.top)
             u == IF new.und = {} THEN s
                  ELSE Oldest(f, new.top, CHOOSE p \in new.und : TRUE)
  <2>1. new.top \in Slots /\ new.track \in Nat /\ new.und \subseteq Slots
    BY NewestType DEF NewestState
  <2>2. tracer_buf_init(f) = [save |-> s, track |-> new.track, undel |-> u]
    BY <1>2 DEF tracer_buf_init
  <2> HIDE DEF new
  <2>3. s \in Slots
    BY <2>1, BackInc
  <2>4. ASSUME NEW p \in Slots PROVE Oldest(f, new.top, p) \in Slots
    <3>1. PICK r \in [0 .. Bits -> [ptr : Slots, und : Slots]] :
                 Oldest(f, new.top, p) = r[Bits].und
      BY <2>1, OldestRuns
    <3>2. Bits \in 0 .. Bits
      BY BitsAssumption
    <3> QED BY <3>1, <3>2
  <2>5. u \in Slots
    BY <2>1, <2>3, <2>4
  <2> HIDE DEF s, u
  <2> QED BY <2>1, <2>2, <2>3, <2>5
<1> QED BY <1>1, <1>2

\* The slot behind the newest record is found again, and its track.
LEMMA InitSave ==
  ASSUME NEW f \in [Slots -> Record], NEW q \in Slots, Ring(f, q),
         2 * TrackLimit <= Size
  PROVE  /\ tracer_buf_init(f).save = q
         /\ Valid(f[0]) => tracer_buf_init(f).track = f[Back(q, 0)].track
         /\ ~Valid(f[0]) => q = 0 /\ \A s \in Slots : f[s] = Erased
<1>1. CASE ~Valid(f[0])
  <2>1. 0 \in Slots /\ \A i \in Slots : Valid(f[i]) <=> i < q
    BY <1>1, RingSize DEF Ring
  <2>2. q = 0
    BY <1>1, <2>1, RingSize
  <2>3. \A i \in Slots : ~(i < q)
    BY <2>2, RingSize
  <2> QED BY <1>1, <2>1, <2>2, <2>3 DEF tracer_buf_init, Valid
<1>2. CASE Valid(f[0])
  <2> DEFINE new == Newest(f)
  <2>1. new.top = Back(q, 0)
    BY <1>2, NewestFact
  <2>2. new.track = f[new.top].track
    BY NewestType DEF NewestState
  <2>3. tracer_buf_init(f).save = BUF_INC_PTR(new.top)
        /\ tracer_buf_init(f).track = new.track
    BY <1>2 DEF tracer_buf_init
  <2> HIDE DEF new
  <2> QED BY <1>2, <2>1, <2>2, <2>3, BackInc
<1> QED BY <1>1, <1>2

\* The oldest record that waits is found again, unless the search Missed it.
LEMMA InitUndel ==
  ASSUME NEW f \in [Slots -> Record], NEW q \in Slots, Ring(f, q),
         2 * TrackLimit <= Size, NEW u \in 0 .. Size, Waiting(f, q, u)
  PROVE  /\ u = 0 => tracer_buf_init(f).undel = q
         /\ u > 0 /\ ~Missed(f) => tracer_buf_init(f).undel = Back(q, u - 1)
<1> DEFINE new == Newest(f)
           t == Back(q, 0)
<1>1. t \in Slots /\ 0 \in Slots
  BY BackFact, RingSize
<1>2. CASE ~Valid(f[0])
  <2>1. q = 0 /\ \A s \in Slots : f[s] = Erased
    BY <1>2, InitSave
  <2>2. ~(u > 0)
    BY <1>1, <2>1, RingSize DEF Waiting, Valid
  <2> QED BY <1>2, <2>1, <2>2 DEF tracer_buf_init
<1>3. CASE Valid(f[0])
  <2>1. new.top = t
    BY <1>3, NewestFact
  <2>2. /\ \/ new.und = {}
           \/ \E x \in Slots : new.und = {x} /\ Valid(f[x]) /\ ~f[x].sent
        /\ new.top # 0 /\ ~f[new.top].sent => new.und = {new.top}
    BY NewestType DEF NewestState
  <2>3. tracer_buf_init(f).undel =
          IF new.und = {} THEN BUF_INC_PTR(new.top)
          ELSE Oldest(f, new.top, CHOOSE p \in new.und : TRUE)
    BY <1>3 DEF tracer_buf_init
  <2>4. Missed(f) <=> new.top = 0 /\ ~f[0].sent
    BY <1>3 DEF Missed
  <2> HIDE DEF new
  <2>5. CASE u = 0
    <3>1. ASSUME NEW x \in Slots, Valid(f[x]) PROVE f[x].sent
      <4>1. Back(q, x) \in Slots /\ Back(q, Back(q, x)) = x
        BY BackFact
      <4> QED BY <2>5, <3>1, <4>1, RingSize DEF Waiting
    <3>2. new.und = {}
      BY <2>2, <3>1
    <3> QED BY <2>1, <2>3, <2>5, <3>2, BackInc
  <2>6. CASE u > 0 /\ ~Missed(f)
    <3>1. Valid(f[t]) /\ ~f[t].sent
      BY <1>1, <2>6 DEF Waiting
    <3>2. new.und = {t}
      BY <2>1, <2>2, <2>4, <2>6, <3>1
    <3>3. (CHOOSE p \in new.und : TRUE) = t /\ new.und # {}
      BY <3>2
    <3>4. u \in 1 .. Size
      BY <2>6, RingSize
    <3>5. Oldest(f, t, t) = Back(q, u - 1)
      BY <3>4, OldestFact
    <3> HIDE DEF t
    <3>6. tracer_buf_init(f).undel = Oldest(f, t, t)
      BY <2>1, <2>3, <3>3, Zenon
    <3> QED BY <2>6, <3>5, <3>6
  <2> QED BY <2>5, <2>6, RingSize
<1> QED BY <1>2, <1>3

-----------------------------------------------------------------------------
(* Types *)

\* The points in the ring, in the packet and at the server have been stored.
Numbered ==
  /\ packet <= serial
  /\ \A s \in Slots :
       /\ mem[s].n <= serial /\ (Valid(mem[s]) => mem[s].n > 0)
       /\ flash[s].n <= serial /\ (Valid(flash[s]) => flash[s].n > 0)

BufTypeInv == BufTypeOK /\ Numbered

\* At the start the ring is erased.
LEMMA BufInitType == ASSUME BufInit PROVE BufTypeInv
<1>1. Erased \in Record /\ Erased.n = 0
  BY DEF Erased, Record
<1>2. /\ mem \in [Slots -> Record] /\ flash = mem
      /\ \A s \in Slots : mem[s] = Erased
  BY <1>1 DEF BufInit
<1>3. 0 \in Slots
  BY RingSize
<1>4. Numbered
  BY <1>1, <1>2 DEF BufInit, Numbered, Valid
<1>5. /\ save \in Slots /\ read \in Slots /\ undel \in Slots
      /\ track \in Nat /\ point \in 0 .. TrackLimit
      /\ packet \in Nat /\ net \in Nat /\ late \in Nat
      /\ net + late <= MaxAnswers /\ doubt \subseteq Nat
      /\ serial \in Nat /\ restarts \in Nat /\ got \subseteq 1 .. serial
  BY <1>3, LimitsAssumption DEF BufInit
<1>6. /\ spc \in {"idle", "written"} /\ cpc \in {"idle", "wait", "deliver"}
      /\ ack \in BOOLEAN /\ lost \in BOOLEAN /\ other \in BOOLEAN
  BY Zenon DEF BufInit
<1> QED BY <1>2, <1>4, <1>5, <1>6, Zenon DEF BufTypeInv, BufTypeOK

\* Record i gets TRACER_FLAG_DELIVERED, nothing else changes.
Mark(m, i) == [m EXCEPT ![i].sent = TRUE]

\* A mark keeps the types, the points and their order.
LEMMA RecordMarked ==
  ASSUME NEW m \in [Slots -> Record], NEW i \in Slots, Valid(m[i])
  PROVE  /\ Mark(m, i) \in [Slots -> Record]
         /\ \A s \in Slots :
              /\ Mark(m, i)[s].n = m[s].n /\ Mark(m, i)[s].track = m[s].track
              /\ Mark(m, i)[s].sent <=> m[s].sent \/ s = i
              /\ Valid(Mark(m, i)[s]) <=> Valid(m[s])
<1> DEFINE w == Mark(m, i)
<1> DEFINE r == [m[i] EXCEPT !.sent = TRUE]
<1>1. \A s \in Slots : m[s] \in Record
  OBVIOUS
<1>2. r \in Record /\ r.n = m[i].n /\ r.track = m[i].track /\ r.sent = TRUE
  BY <1>1 DEF Record
<1>3. Valid(r)
  BY <1>2 DEF Valid, Erased
<1>4. w = [m EXCEPT ![i] = r]
  BY DEF Mark
<1> HIDE DEF r, w
<1>5. w \in [Slots -> Record]
  BY <1>1, <1>2, <1>4
<1>6. \A s \in Slots : w[s] = IF s = i THEN r ELSE m[s]
  BY <1>4
<1>7. \A s \in Slots : m[s].sent \in BOOLEAN
  BY <1>1 DEF Record
<1>8. ASSUME NEW s \in Slots
      PROVE  /\ w[s].n = m[s].n /\ w[s].track = m[s].track
             /\ w[s].sent <=> m[s].sent \/ s = i
             /\ Valid(w[s]) <=> Valid(m[s])
  BY <1>2, <1>3, <1>6, <1>7, Zenon
<1> QED BY <1>5, <1>8 DEF w

\* Every step keeps the types.
LEMMA BufNextType ==
  ASSUME BufTypeInv, [BufNext]_buf_vars
  PROVE  BufTypeInv'
<1> USE LimitsAssumption, RingSize
<1>1. ASSUME NEW first \in BOOLEAN, StoreWrite(first) PROVE BufTypeInv'
  <2> DEFINE r == [n |-> serial + 1, track |-> track', sent |-> FALSE]
  <2>1. /\ track' \in Nat /\ point' \in 0 .. TrackLimit
        /\ serial' = serial + 1 /\ serial' \in Nat
    BY <1>1 DEF StoreWrite, NextPoint, BufTypeInv, BufTypeOK
  <2>2. r \in Record /\ r.n = serial'
    BY <2>1 DEF Record
  <2>3. mem' = [mem EXCEPT ![save] = r] /\ flash' = flash
        /\ save' = save /\ undel' = undel /\ read' = read
        /\ cpc' = cpc /\ packet' = packet /\ ack' = ack /\ net' = net
        /\ late' = late /\ other' = other /\ doubt' = doubt
        /\ got' = got /\ restarts' = restarts /\ lost' = lost
        /\ spc' = "written"
    BY <1>1 DEF StoreWrite, NextPoint, sender, answers
  <2> HIDE DEF r
  <2>4. BufTypeOK'
    BY <2>1, <2>2, <2>3 DEF BufTypeInv, BufTypeOK
  <2>5. \A s \in Slots : /\ mem'[s] = IF s = save THEN r ELSE mem[s]
                         /\ mem[s].n \in Nat /\ flash[s].n \in Nat
    BY <2>3 DEF BufTypeInv, BufTypeOK, Record
  <2>6. Numbered'
    BY <2>1, <2>2, <2>3, <2>5 DEF BufTypeInv, BufTypeOK, Numbered, Valid
  <2> QED BY <2>4, <2>6 DEF BufTypeInv
<1>2. CASE StoreAdvance
  <2>1. save' \in Slots
    BY <1>2, BackInc DEF StoreAdvance, BufTypeInv, BufTypeOK
  <2>2. lost' \in BOOLEAN
    BY <1>2 DEF StoreAdvance, BufTypeInv, BufTypeOK
  <2> QED BY <1>2, <2>1, <2>2
          DEF StoreAdvance, BufTypeInv, BufTypeOK, Numbered, sender, answers
<1>3. CASE ReadNext
  <2>1. read' \in Slots
    BY <1>3, BackInc DEF ReadNext, BufTypeInv, BufTypeOK
  <2>2. packet' \in Nat /\ packet' <= serial
    BY <1>3 DEF ReadNext, BufTypeInv, BufTypeOK, Numbered, Record
  <2> QED BY <1>3, <2>1, <2>2
          DEF ReadNext, BufTypeInv, BufTypeOK, Numbered, answers, hist
<1>4. ASSUME NEW arrives \in BOOLEAN, NEW n \in 0 .. MaxAnswers,
             Send(arrives, n)
      PROVE  BufTypeInv'
  <2>1. net' \in Nat /\ late' \in Nat /\ net' + late' <= MaxAnswers
    BY <1>4 DEF Send, BufTypeInv, BufTypeOK
  <2>2. got' \subseteq 1 .. serial
    BY <1>4 DEF Send, BufTypeInv, BufTypeOK, Numbered
  <2> QED BY <1>4, <2>1, <2>2
          DEF Send, BufTypeInv, BufTypeOK, Numbered, ring, hist
<1>5. CASE TimedOut
  BY <1>5 DEF TimedOut, BufTypeInv, BufTypeOK, Numbered, ring, hist
<1>6. CASE Acked
  <2>1. packet' \in Nat /\ packet' <= serial
    BY <1>6 DEF Acked, Forget, BufTypeInv, BufTypeOK
  <2>2. /\ UNCHANGED <<mem, flash, save, undel, read, track, point, spc>>
        /\ UNCHANGED <<got, serial, restarts, lost>>
    BY <1>6 DEF Acked, ring, hist
  <2>3. /\ ack' \in BOOLEAN /\ cpc' \in {"idle", "wait", "deliver"}
        /\ other' \in BOOLEAN
    BY <1>6, Zenon DEF Acked, Forget
  <2>4. net' \in Nat /\ late' \in Nat /\ net' + late' <= MaxAnswers
    BY <1>6 DEF Acked, Forget, BufTypeInv, BufTypeOK
  <2>5. doubt' \subseteq Nat
    BY <1>6 DEF Acked, BufTypeInv, BufTypeOK
  <2> QED BY <2>1, <2>2, <2>3, <2>4, <2>5 DEF BufTypeInv, BufTypeOK, Numbered
<1>7. CASE Deliver
  <2>1. undel' \in Slots /\ cpc' \in {"idle", "wait", "deliver"}
    BY <1>7, BackInc DEF Deliver, BufTypeInv, BufTypeOK
  <2>2. \/ mem' = mem
        \/ Valid(mem[undel]) /\ mem' = Mark(mem, undel)
    BY <1>7 DEF Deliver, Mark
  <2>3. /\ mem' \in [Slots -> Record]
        /\ \A s \in Slots : /\ mem'[s].n = mem[s].n
                            /\ Valid(mem'[s]) <=> Valid(mem[s])
    <3>1. mem \in [Slots -> Record] /\ undel \in Slots
      BY DEF BufTypeInv, BufTypeOK
    <3>2. CASE Valid(mem[undel]) /\ mem' = Mark(mem, undel)
      BY <3>1, <3>2, RecordMarked
    <3> QED BY <2>2, <3>1, <3>2
  <2>4. /\ UNCHANGED <<flash, save, read, track, point, spc>>
        /\ UNCHANGED <<packet, ack, got, serial, restarts, lost>>
        /\ UNCHANGED <<net, late, other, doubt>>
    BY <1>7 DEF Deliver, answers, hist
  <2>5. BufTypeOK'
    BY <2>1, <2>3, <2>4 DEF BufTypeInv, BufTypeOK
  <2>6. Numbered'
    BY <2>3, <2>4 DEF BufTypeInv, Numbered
  <2> QED BY <2>5, <2>6 DEF BufTypeInv
<1>8. CASE tracer_reinit
  <2>1. packet' \in Nat /\ packet' <= serial
    BY <1>8 DEF tracer_reinit, Forget, BufTypeInv, BufTypeOK
  <2>2. ack' \in BOOLEAN /\ lost' \in BOOLEAN /\ other' \in BOOLEAN
    BY <1>8, Zenon DEF tracer_reinit, Forget, BufTypeInv, BufTypeOK
  <2>3. /\ UNCHANGED <<mem, flash, save, undel, read, track, point, spc>>
        /\ UNCHANGED <<cpc, got, doubt, serial, restarts>>
    BY <1>8 DEF tracer_reinit, ring
  <2>4. net' \in Nat /\ late' \in Nat /\ net' + late' <= MaxAnswers
    BY <1>8 DEF tracer_reinit, Forget, BufTypeInv, BufTypeOK
  <2> QED BY <2>1, <2>2, <2>3, <2>4 DEF BufTypeInv, BufTypeOK, Numbered
<1>9. CASE tracer_packet_rx
  <2>1. net' \in Nat /\ late' \in Nat /\ net' + late' <= MaxAnswers
    <3>1. CASE AnswerInTime
      BY <3>1 DEF AnswerInTime, BufTypeInv, BufTypeOK
    <3>2. CASE AnswerLate
      BY <3>2 DEF AnswerLate, BufTypeInv, BufTypeOK
    <3> QED BY <1>9, <3>1, <3>2 DEF tracer_packet_rx
  <2>2. ack' \in BOOLEAN /\ other' \in BOOLEAN
    <3>1. CASE AnswerInTime
      BY <1>9, <3>1, Zenon DEF AnswerInTime, tracer_packet_rx
    <3>2. CASE AnswerLate
      BY <1>9, <3>2, Zenon DEF AnswerLate, tracer_packet_rx
    <3> QED BY <1>9, <3>1, <3>2 DEF tracer_packet_rx
  <2>3. /\ UNCHANGED <<mem, flash, save, undel, read, track, point, spc>>
        /\ UNCHANGED <<cpc, packet, got, doubt, serial, restarts, lost>>
    BY <1>9 DEF tracer_packet_rx, ring, hist
  <2> QED BY <2>1, <2>2, <2>3 DEF BufTypeInv, BufTypeOK, Numbered
<1>10. CASE storage_maintenance
  BY <1>10
  DEF storage_maintenance, BufTypeInv, BufTypeOK, Numbered, sender, answers,
      hist
<1>11. CASE Restart
  <2>1. save' \in Slots /\ undel' \in Slots /\ read' \in Slots /\ track' \in Nat
    BY <1>11, InitPointers DEF Restart, BufTypeInv, BufTypeOK
  <2>2. restarts' \in Nat /\ lost' \in BOOLEAN
    BY <1>11 DEF Restart, Missed, Full, BufTypeInv, BufTypeOK
  <2>3. /\ mem' = flash /\ flash' = flash /\ got' = got /\ serial' = serial
        /\ point' = 0 /\ packet' = 0 /\ doubt' = doubt
    BY <1>11 DEF Restart, Forget
  <2>4. /\ spc' \in {"idle", "written"} /\ cpc' \in {"idle", "wait", "deliver"}
        /\ ack' \in BOOLEAN /\ other' \in BOOLEAN
    BY <1>11, Zenon DEF Restart, Forget
  <2>5. net' \in Nat /\ late' \in Nat /\ net' + late' <= MaxAnswers
    BY <1>11 DEF Restart, Forget, BufTypeInv, BufTypeOK
  <2>6. /\ mem' \in [Slots -> Record] /\ flash' \in [Slots -> Record]
        /\ point' \in 0 .. TrackLimit /\ packet' \in Nat /\ serial' \in Nat
        /\ got' \subseteq 1 .. serial' /\ doubt' \subseteq Nat
    BY <2>3 DEF BufTypeInv, BufTypeOK
  <2>7. BufTypeOK'
    BY <2>1, <2>2, <2>4, <2>5, <2>6, Zenon DEF BufTypeOK
  <2>8. Numbered'
    BY <2>3 DEF BufTypeInv, BufTypeOK, Numbered
  <2> QED BY <2>7, <2>8 DEF BufTypeInv
<1>12. CASE UNCHANGED buf_vars
  BY <1>12
  DEF buf_vars, ring, sender, answers, hist, BufTypeInv, BufTypeOK, Numbered
<1>13. ASSUME NEW first \in BOOLEAN, WriteFails(first) PROVE BufTypeInv'
  <2>1. /\ track' \in Nat /\ point' \in 0 .. TrackLimit
        /\ serial' = serial + 1 /\ serial \in Nat
    BY <1>13 DEF WriteFails, NextPoint, BufTypeInv, BufTypeOK
  <2>2. /\ UNCHANGED <<mem, flash, save, undel, read, restarts>>
        /\ UNCHANGED <<cpc, packet, ack, got, net, late, other, doubt>>
        /\ spc' = "written" /\ lost' = TRUE
    BY <1>13 DEF WriteFails, NextPoint, sender, answers
  <2>3. BufTypeOK'
    BY <2>1, <2>2 DEF BufTypeInv, BufTypeOK
  <2>4. \A s \in Slots : mem[s].n \in Nat /\ flash[s].n \in Nat
    BY DEF BufTypeInv, BufTypeOK, Record
  <2>5. Numbered'
    BY <2>1, <2>2, <2>4 DEF BufTypeInv, BufTypeOK, Numbered
  <2> QED BY <2>3, <2>5 DEF BufTypeInv
<1>14. CASE MarkFails
  <2>1. undel' \in Slots
    BY <1>14, BackInc DEF MarkFails, BufTypeInv, BufTypeOK
  <2>2. /\ UNCHANGED <<mem, flash, save, read, track, point, spc, serial>>
        /\ UNCHANGED <<cpc, packet, ack, got, net, late, other, doubt>>
        /\ restarts' = restarts /\ lost' = TRUE
    BY <1>14 DEF MarkFails, sender, answers
  <2> QED BY <2>1, <2>2 DEF BufTypeInv, BufTypeOK, Numbered
<1> QED
  BY <1>1, <1>2, <1>3, <1>4, <1>5, <1>6, <1>7, <1>8, <1>9, <1>10, <1>11, <1>12,
     <1>13, <1>14 DEF BufNext, tracer_comm_process

\* The pointers of the track buffer stay inside the ring, also those that a
\* search of tracer_buf_init() ends with, and only points that were stored are
\* received.
THEOREM BufTypeCorrect == BufSpec => []BufTypeOK
<1>1. BufInit => BufTypeInv
  BY BufInitType
<1>2. BufTypeInv /\ [BufNext]_buf_vars => BufTypeInv'
  BY BufNextType
<1>3. BufTypeInv => BufTypeOK
  BY DEF BufTypeInv
<1> QED BY <1>1, <1>2, <1>3, PTL DEF BufSpec

-----------------------------------------------------------------------------
(* Between buf_last_undelivered and buf_read_ptr *)

\* The slots from b up to a.
Dist(a, b) == IF a >= b THEN a - b ELSE a + Size - b

\* Distances when a pointer is advanced.
LEMMA DistFact ==
  ASSUME NEW a \in Slots, NEW b \in Slots
  PROVE  /\ Dist(a, b) \in Slots /\ (Dist(a, b) = 0 <=> a = b)
         /\ a # b => Dist(a, BUF_INC_PTR(b)) = Dist(a, b) - 1
         /\ Dist(b, BUF_INC_PTR(b)) = Size - 1
         /\ BUF_INC_PTR(a) # b => Dist(BUF_INC_PTR(a), b) = Dist(a, b) + 1
BY RingSize DEF Dist, BUF_INC_PTR

\* A distance is less than the size of the ring.
LEMMA DistType ==
  \A a, b \in Slots : Dist(a, b) \in Nat /\ Dist(a, b) < Size
BY RingSize DEF Dist

\* The reader is behind the writer.
ReadPos == ~lost => Dist(read, undel) <= Dist(save, undel)

\* Only a new point, a read and a mark move the pointers.
LEMMA ReadPosStep ==
  ASSUME BufTypeInv, ReadPos, [BufNext]_buf_vars
  PROVE  ReadPos'
<1>1. /\ save \in Slots /\ read \in Slots /\ undel \in Slots
      /\ lost \in BOOLEAN
  BY DEF BufTypeInv, BufTypeOK
<1>2. CASE StoreAdvance
  <2>1. CASE Overrun
    BY <1>2, <2>1 DEF StoreAdvance, ReadPos
  <2>2. CASE ~Overrun
    <3>1. Dist(save', undel) = Dist(save, undel) + 1
      BY <1>1, <1>2, <2>2, DistFact DEF StoreAdvance, Overrun
    <3>2. Dist(save, undel) \in Nat /\ Dist(read, undel) \in Nat
      BY <1>1, DistType
    <3>3. UNCHANGED <<undel, read>> /\ (lost' <=> lost)
      BY <1>2, <2>2 DEF StoreAdvance
    <3> QED BY <3>1, <3>2, <3>3 DEF ReadPos
  <2> QED BY <2>1, <2>2
<1>3. CASE ReadNext
  <2>1. read # save /\ read' = BUF_INC_PTR(read)
        /\ UNCHANGED <<save, undel, lost>>
    BY <1>3 DEF ReadNext, hist
  <2>2. Dist(read, undel) # Dist(save, undel)
    BY <1>1, <2>1, RingSize DEF Dist
  <2>3. Dist(read, undel) \in Nat /\ Dist(save, undel) \in Nat
    BY <1>1, DistType
  <2>4. \/ Dist(read', undel) = Dist(read, undel) + 1
        \/ Dist(read', undel) = 0
    BY <1>1, <2>1, BackInc, DistFact
  <2> QED BY <2>1, <2>2, <2>3, <2>4, RingSize DEF ReadPos
<1>4. CASE Deliver
  <2>1. CASE undel = read
    BY <1>4, <2>1 DEF Deliver, ReadPos, hist
  <2>2. CASE undel # read /\ ~lost
    <3>1. undel' = BUF_INC_PTR(undel) /\ UNCHANGED <<save, read, lost>>
      BY <1>4, <2>2 DEF Deliver, hist
    <3>2. /\ Dist(read, undel) \in Nat /\ Dist(save, undel) \in Nat
          /\ Dist(read, undel) # 0 /\ Dist(read, undel) <= Dist(save, undel)
      BY <1>1, <2>2, DistFact, RingSize DEF ReadPos
    <3>3. save # undel
      BY <1>1, <3>2, DistFact
    <3>4. /\ Dist(read, undel') = Dist(read, undel) - 1
          /\ Dist(save, undel') = Dist(save, undel) - 1
      BY <1>1, <2>2, <3>1, <3>3, DistFact
    <3> QED BY <3>1, <3>2, <3>4 DEF ReadPos
  <2>3. CASE lost
    BY <1>4, <2>3 DEF Deliver, ReadPos, hist
  <2> QED BY <2>1, <2>2, <2>3
<1>5. CASE Restart
  <2>1. read' = undel' /\ save' \in Slots /\ undel' \in Slots
    BY <1>5, BufNextType DEF Restart, BufTypeInv, BufTypeOK
  <2>2. Dist(read', undel') = 0 /\ Dist(save', undel') \in Nat
    BY <2>1, DistFact, RingSize
  <2> QED BY <2>2 DEF ReadPos
<1>6. CASE UNCHANGED <<save, read, undel>> /\ (~lost' => ~lost)
  BY <1>6 DEF ReadPos
<1>7. ASSUME NEW first \in BOOLEAN, StoreWrite(first)
      PROVE  UNCHANGED <<save, read, undel>> /\ (~lost' => ~lost)
  BY <1>7 DEF StoreWrite, NextPoint
<1>8. ASSUME NEW arrives \in BOOLEAN, NEW n \in 0 .. MaxAnswers,
             Send(arrives, n)
      PROVE  UNCHANGED <<save, read, undel>> /\ (~lost' => ~lost)
  BY <1>8 DEF Send, ring, hist
<1>9. CASE tracer_reinit
  BY <1>9 DEF tracer_reinit, ReadPos, ring
<1>10. TimedOut \/ Acked \/ tracer_packet_rx
       => UNCHANGED <<save, read, undel, lost>>
  BY DEF TimedOut, Acked, tracer_packet_rx, ring, hist
<1>11. storage_maintenance \/ UNCHANGED buf_vars
       => UNCHANGED <<save, read, undel, lost>>
  BY DEF storage_maintenance, buf_vars, ring, hist
<1>12. (\E first \in BOOLEAN : WriteFails(first)) \/ MarkFails => lost'
  BY DEF WriteFails, MarkFails
<1>13. CASE lost'
  BY <1>13 DEF ReadPos
<1> QED
  BY <1>2, <1>3, <1>4, <1>5, <1>6, <1>7, <1>8, <1>9, <1>10, <1>11, <1>12,
     <1>13 DEF BufNext, tracer_comm_process

\* The packet that an answer on its way belongs to was received, and so was the
\* one that is awaited, if it was no late answer that ended the wait; no packet
\* is kept while records are marked.
Answers ==
  /\ net > 0 => packet \in got
  /\ cpc = "wait" /\ ack /\ ~other => packet \in got
  /\ cpc = "deliver" => packet = 0

\* A packet is forgotten together with the answers to it, and sending clears
\* the flag.
LEMMA AnswersStep ==
  ASSUME BufTypeInv, Answers, [BufNext]_buf_vars
  PROVE  Answers'
<1>1. /\ net \in Nat /\ late \in Nat /\ packet \in Nat /\ ~(0 \in got)
      /\ cpc \in {"idle", "wait", "deliver"}
  BY DEF BufTypeInv, BufTypeOK
<1>2. ASSUME NEW arrives \in BOOLEAN, NEW n \in 0 .. MaxAnswers,
             Send(arrives, n)
      PROVE  Answers'
  <2>1. net' = net + n /\ (n > 0 => packet \in got')
        /\ got \subseteq got' /\ packet' = packet /\ cpc' = "wait" /\ ~ack'
    BY <1>2 DEF Send
  <2>2. net' > 0 => net > 0 \/ n > 0
    BY <1>1, <2>1
  <2> QED BY <2>1, <2>2, Zenon DEF Answers
<1>3. CASE TimedOut
  BY <1>1, <1>3 DEF TimedOut, Answers
<1>4. CASE Acked
  BY <1>1, <1>4 DEF Acked, Forget, Answers
<1>5. CASE Deliver
  BY <1>1, <1>5 DEF Deliver, Answers, answers
<1>6. CASE tracer_reinit
  BY <1>1, <1>6 DEF tracer_reinit, Forget, Answers
<1>7. CASE tracer_packet_rx
  <2>1. UNCHANGED <<cpc, packet, got>>
    BY <1>7 DEF tracer_packet_rx
  <2>2. CASE AnswerInTime
    BY <1>1, <2>1, <2>2 DEF AnswerInTime, Answers
  <2>3. CASE AnswerLate
    <3>1. net' = net /\ (~other' => ~other /\ (cpc = "wait" => ack))
      BY <2>3, Zenon DEF AnswerLate
    <3> QED BY <2>1, <3>1, Zenon DEF Answers
  <2> QED BY <1>7, <2>2, <2>3 DEF tracer_packet_rx
<1>8. CASE Restart
  BY <1>1, <1>8 DEF Restart, Forget, Answers
<1>9. CASE ReadNext
  <2>1. cpc = "idle" /\ packet = 0 /\ UNCHANGED <<net, cpc>>
    BY <1>9 DEF ReadNext, answers
  <2>2. ~(net > 0)
    BY <1>1, <2>1 DEF Answers
  <2> QED BY <2>1, <2>2 DEF Answers
<1>10. CASE UNCHANGED sender
  BY <1>10 DEF Answers, sender, answers
<1>11. (\E first \in BOOLEAN : StoreWrite(first) \/ WriteFails(first))
       \/ StoreAdvance \/ MarkFails => UNCHANGED sender
  BY DEF StoreWrite, WriteFails, NextPoint, StoreAdvance, MarkFails
<1>12. storage_maintenance \/ UNCHANGED buf_vars => UNCHANGED sender
  BY DEF storage_maintenance, buf_vars
<1> QED
  BY <1>2, <1>3, <1>4, <1>5, <1>6, <1>7, <1>8, <1>9, <1>10, <1>11, <1>12
  DEF BufNext, tracer_comm_process

\* Nothing that was given up comes back.
LEMMA LostStays == ASSUME [BufNext]_buf_vars, ~lost' PROVE ~lost
<1>1. (\E first \in BOOLEAN : StoreWrite(first) \/ WriteFails(first))
      \/ StoreAdvance => (lost => lost')
  BY DEF StoreWrite, WriteFails, StoreAdvance
<1>2. tracer_comm_process => (lost => lost')
  BY DEF tracer_comm_process, ReadNext, TimedOut, Acked, Deliver, MarkFails,
         Send, hist
<1>3. tracer_reinit \/ Restart => (lost => lost')
  BY DEF tracer_reinit, Restart
<1>4. tracer_packet_rx \/ storage_maintenance \/ UNCHANGED buf_vars
      => (lost => lost')
  BY DEF tracer_packet_rx, storage_maintenance, buf_vars, hist
<1> QED BY <1>1, <1>2, <1>3, <1>4 DEF BufNext

\* The points that were received or are taken for it.
Known == got \cup doubt

\* The records that were read and are not marked yet have been received, but
\* for the one that waits in the packet; those that are marked have been
\* received, in the cache and in the flash.
GotAt(s) ==
  /\ Valid(mem[s]) /\ Dist(s, undel) < Dist(read, undel)
       => mem[s].n \in Known \cup {packet}
  /\ mem[s].sent => mem[s].n \in Known
  /\ flash[s].sent => flash[s].n \in Known

ReadGot == ~lost => \A s \in Slots : GotAt(s)

\* Every step keeps it.
LEMMA ReadGotStep ==
  ASSUME BufTypeInv, Answers, ReadPos, ReadGot, [BufNext]_buf_vars
  PROVE  ReadGot'
<1>1. /\ save \in Slots /\ read \in Slots /\ undel \in Slots
      /\ mem \in [Slots -> Record] /\ flash \in [Slots -> Record]
      /\ lost \in BOOLEAN /\ packet \in Nat
  BY DEF BufTypeInv, BufTypeOK
<1>2. \A s \in Slots : mem[s].n \in Nat /\ (Valid(mem[s]) => mem[s].n # 0)
  BY <1>1 DEF BufTypeInv, Numbered, Record
<1>3. \A s \in Slots :
        /\ Dist(s, undel) \in Nat /\ Dist(s, undel) < Size
        /\ Dist(s, undel) = 0 <=> s = undel
  BY <1>1, DistType, DistFact
<1>4. SUFFICES ASSUME ~lost, ~lost', NEW s \in Slots PROVE GotAt(s)'
  <2>1. ~lost' => ~lost
    BY LostStays
  <2> QED BY <2>1 DEF ReadGot
<1>5. GotAt(s)
  BY <1>4 DEF ReadGot
<1>6. ASSUME NEW first \in BOOLEAN, StoreWrite(first) PROVE GotAt(s)'
  <2> DEFINE r == [n |-> serial + 1, track |-> track', sent |-> FALSE]
  <2>1. mem' = [mem EXCEPT ![save] = r]
    BY <1>6 DEF StoreWrite
  <2>2. UNCHANGED <<flash, save, undel, read, Known, packet>>
    BY <1>6 DEF StoreWrite, NextPoint, sender, answers, Known
  <2>3. CASE s = save
    <3>1. mem'[s] = r
      BY <1>1, <2>1, <2>3
    <3>2. ~mem'[s].sent
      BY <3>1
    <3>3. ~(Dist(s, undel) < Dist(read, undel))
      BY <1>1, <1>3, <1>4, <2>3 DEF ReadPos
    <3> QED BY <1>5, <2>2, <3>2, <3>3 DEF GotAt
  <2>4. CASE s # save
    <3>1. mem'[s] = mem[s]
      BY <1>1, <2>1, <2>4
    <3> QED BY <1>5, <2>2, <3>1 DEF GotAt
  <2> QED BY <2>3, <2>4
<1>7. CASE StoreAdvance
  <2>1. UNCHANGED <<mem, flash, undel, read, Known, packet>>
    BY <1>7 DEF StoreAdvance, sender, answers, Known
  <2> QED BY <1>5, <2>1 DEF GotAt
<1>8. CASE ReadNext
  <2>1. /\ packet = 0 /\ packet' = mem[read].n /\ read' = BUF_INC_PTR(read)
        /\ UNCHANGED <<mem, flash, undel, Known>>
    BY <1>8 DEF ReadNext, answers, Known
  <2>2. CASE s = read
    BY <1>5, <2>1, <2>2 DEF GotAt
  <2>3. CASE s # read /\ Valid(mem[s])
    <3>1. Dist(s, undel) # Dist(read, undel)
      BY <1>1, <2>3, RingSize DEF Dist
    <3>2. \/ Dist(read', undel) = Dist(read, undel) + 1
          \/ Dist(read', undel) = 0
      BY <1>1, <2>1, BackInc, DistFact
    <3>3. Dist(s, undel) < Dist(read', undel)
          => Dist(s, undel) < Dist(read, undel)
      BY <1>1, <1>3, <3>1, <3>2
    <3>4. mem[s].n # 0
      BY <1>2, <2>3
    <3> QED BY <1>5, <2>1, <3>3, <3>4 DEF GotAt
  <2>4. CASE ~Valid(mem[s])
    BY <1>5, <2>1, <2>4 DEF GotAt
  <2> QED BY <2>2, <2>3, <2>4
<1>9. ASSUME NEW arrives \in BOOLEAN, NEW n \in 0 .. MaxAnswers,
             Send(arrives, n)
      PROVE  GotAt(s)'
  <2>1. /\ UNCHANGED <<mem, flash, undel, read, packet>>
        /\ Known \subseteq Known'
    BY <1>9 DEF Send, ring, Known
  <2> QED BY <1>5, <2>1 DEF GotAt
<1>10. CASE TimedOut
  <2>1. UNCHANGED <<mem, flash, undel, read, packet, Known>>
    BY <1>10 DEF TimedOut, ring, Known
  <2> QED BY <1>5, <2>1 DEF GotAt
<1>11. CASE Acked
  <2>1. /\ UNCHANGED <<mem, flash, undel, read, got>>
        /\ doubt' = IF other THEN doubt \cup ({packet} \ got) ELSE doubt
        /\ ~other => packet \in got
    BY <1>11 DEF Acked, ring, Answers
  <2>2. packet \in Known' /\ Known \subseteq Known'
    BY <2>1 DEF Known
  <2> QED BY <1>5, <2>1, <2>2 DEF GotAt
<1>12. CASE Deliver
  <2>1. packet = 0 /\ UNCHANGED <<flash, save, read, packet, Known>>
    BY <1>12 DEF Deliver, Answers, answers, Known
  <2>2. CASE undel = read
    BY <1>5, <1>12, <2>1, <2>2 DEF Deliver, GotAt
  <2>3. CASE undel # read
    <3>1. /\ undel' = BUF_INC_PTR(undel)
          /\ mem' = IF Valid(mem[undel]) THEN Mark(mem, undel) ELSE mem
      BY <1>12, <2>3 DEF Deliver, Mark
    <3>2. /\ mem'[s].n = mem[s].n
          /\ mem'[s].sent => mem[s].sent \/ (s = undel /\ Valid(mem[s]))
          /\ Valid(mem'[s]) <=> Valid(mem[s])
      BY <1>1, <3>1, RecordMarked
    <3>3. Dist(read, undel') = Dist(read, undel) - 1
      BY <1>1, <2>3, <3>1, DistFact
    <3>4. Dist(s, undel') < Dist(read, undel')
          => s # undel /\ Dist(s, undel) < Dist(read, undel)
      <4>1. CASE s = undel
        <5>1. Dist(s, undel') = Size - 1
          BY <1>1, <3>1, <4>1, DistFact
        <5> QED BY <1>1, <1>3, <3>3, <5>1, RingSize
      <4>2. CASE s # undel
        <5>1. Dist(s, undel') = Dist(s, undel) - 1
          BY <1>1, <3>1, <4>2, DistFact
        <5> QED BY <1>1, <1>3, <3>3, <4>2, <5>1
      <4> QED BY <4>1, <4>2
    <3>5. s = undel /\ Valid(mem[s]) => mem[s].n \in Known
      <4>1. Dist(undel, undel) = 0 /\ Dist(read, undel) \in Nat \ {0}
        BY <1>1, <1>3, <2>3
      <4> QED BY <1>2, <1>5, <2>1, <4>1 DEF GotAt
    <3> QED BY <1>5, <2>1, <3>2, <3>4, <3>5 DEF GotAt
  <2> QED BY <2>2, <2>3
<1>13. CASE tracer_reinit
  <2>1. /\ packet = 0 /\ packet' = 0
        /\ UNCHANGED <<mem, flash, undel, read, Known>>
    BY <1>4, <1>13 DEF tracer_reinit, Forget, Dropped, ring, Known
  <2> QED BY <1>5, <2>1 DEF GotAt
<1>14. CASE tracer_packet_rx
  <2>1. UNCHANGED <<mem, flash, undel, read, packet, Known>>
    BY <1>14 DEF tracer_packet_rx, ring, Known
  <2> QED BY <1>5, <2>1 DEF GotAt
<1>15. CASE storage_maintenance
  <2>1. flash' = mem /\ UNCHANGED <<mem, undel, read, packet, Known>>
    BY <1>15 DEF storage_maintenance, sender, answers, Known
  <2> QED BY <1>5, <2>1 DEF GotAt
<1>16. CASE Restart
  <2>1. /\ read' = undel' /\ mem' = flash /\ UNCHANGED <<flash, Known>>
        /\ undel' \in Slots
    BY <1>16, BufNextType DEF Restart, BufTypeInv, BufTypeOK, Known
  <2>2. ~(Dist(s, undel') < Dist(read', undel'))
    BY <2>1, DistFact, DistType
  <2> QED BY <1>5, <2>1, <2>2 DEF GotAt
<1>17. CASE UNCHANGED buf_vars
  <2>1. UNCHANGED <<mem, flash, undel, read, packet, Known>>
    BY <1>17 DEF buf_vars, ring, sender, answers, Known
  <2> QED BY <1>5, <2>1 DEF GotAt
<1>18. ~(\E first \in BOOLEAN : WriteFails(first)) /\ ~MarkFails
  BY <1>4 DEF WriteFails, MarkFails
<1> QED
  BY <1>6, <1>7, <1>8, <1>9, <1>10, <1>11, <1>12, <1>13, <1>14, <1>15, <1>16,
     <1>17, <1>18 DEF BufNext, tracer_comm_process

\* A record marked TRACER_FLAG_DELIVERED has been received, but for the points
\* that a late answer was taken for, until points are given up (lost), for every
\* size of the ring, every length of a track and any number of lost, late and
\* doubled answers, through restarts.
THEOREM DeliverySafety == BufSpec => []DeliveredIsReceived
<1> DEFINE I == BufTypeInv /\ Answers /\ ReadPos /\ ReadGot
<1>1. ASSUME BufInit PROVE I
  <2>1. BufTypeInv
    BY <1>1, BufInitType
  <2>2. Answers
    BY <1>1 DEF BufInit, Answers
  <2>3. Dist(0, 0) = 0
    BY RingSize DEF Dist
  <2>4. ReadPos
    BY <1>1, <2>3 DEF BufInit, ReadPos
  <2>5. ASSUME NEW s \in Slots PROVE GotAt(s)
    BY <1>1 DEF BufInit, GotAt, Valid, Erased
  <2> QED BY <2>1, <2>2, <2>4, <2>5 DEF ReadGot
<1>2. I /\ [BufNext]_buf_vars => I'
  BY BufNextType, AnswersStep, ReadPosStep, ReadGotStep
<1>3. I => DeliveredIsReceived
  BY DEF ReadGot, GotAt, Known, DeliveredIsReceived
<1> QED BY <1>1, <1>2, <1>3, PTL DEF BufSpec

-----------------------------------------------------------------------------
(* The ring stays in order *)

\* The slot behind the newest record.
Place == IF spc = "written" THEN BUF_INC_PTR(save) ELSE save

\* The flags do not matter to the order.
LEMMA RingFlags ==
  ASSUME NEW m, NEW w, NEW p \in Slots, Ring(m, p),
         \A s \in Slots : /\ w[s].n = m[s].n /\ w[s].track = m[s].track
                          /\ Valid(w[s]) <=> Valid(m[s])
  PROVE  Ring(w, p)
<1>1. \A k \in Slots : Back(p, k) \in Slots
  BY BackFact
<1>2. \/ \A i \in Slots : Valid(w[i])
      \/ \A i \in Slots : Valid(w[i]) <=> i < p
  BY DEF Ring
<1>3. ASSUME NEW i \in Slots, NEW j \in Slots, i < j, Valid(w[Back(p, j)])
      PROVE  /\ w[Back(p, j)].n < w[Back(p, i)].n
             /\ w[Back(p, j)].track <= w[Back(p, i)].track
             /\ j - i >= TrackLimit
                  => w[Back(p, j)].track < w[Back(p, i)].track
  <2>1. /\ w[Back(p, i)].n = m[Back(p, i)].n
        /\ w[Back(p, i)].track = m[Back(p, i)].track
        /\ w[Back(p, j)].n = m[Back(p, j)].n
        /\ w[Back(p, j)].track = m[Back(p, j)].track
        /\ Valid(m[Back(p, j)])
    BY <1>1, <1>3
  <2>2. /\ m[Back(p, j)].n < m[Back(p, i)].n
        /\ m[Back(p, j)].track <= m[Back(p, i)].track
        /\ j - i >= TrackLimit => m[Back(p, j)].track < m[Back(p, i)].track
    BY <1>3, <2>1 DEF Ring
  <2> QED BY <2>1, <2>2
<1> QED BY <1>2, <1>3 DEF Ring

\* Slot p is written.
Put(m, p, r) == [m EXCEPT ![p] = r]

\* Going back from behind it, the other records are one further.
LEMMA BackWritten ==
  ASSUME NEW m \in [Slots -> Record], NEW p \in Slots, NEW r,
         NEW w, w = Put(m, p, r)
  PROVE  LET q == BUF_INC_PTR(p)
         IN /\ w[Back(q, 0)] = r
            /\ \A k \in Slots : k > 0 => /\ k - 1 \in Slots
                                         /\ w[Back(q, k)] = m[Back(p, k - 1)]
<1> DEFINE q == BUF_INC_PTR(p)
<1>1. Back(q, 0) = p /\ \A k \in Slots : k > 0 => Back(q, k) = Back(p, k - 1)
  BY BackInc
<1> HIDE DEF q
<1>2. w[p] = r /\ \A s \in Slots : s # p => w[s] = m[s]
  BY DEF Put
<1>3. ASSUME NEW k \in Slots, k > 0
      PROVE  k - 1 \in Slots /\ w[Back(q, k)] = m[Back(p, k - 1)]
  <2>1. k - 1 \in Slots /\ k - 1 # Size - 1
    BY <1>3, RingSize
  <2>2. Back(p, k - 1) \in Slots /\ Back(p, k - 1) # p
    BY <2>1, BackFact
  <2> QED BY <1>1, <1>2, <1>3, <2>1, <2>2
<1> QED BY <1>1, <1>2, <1>3 DEF q

\* The records of the current track are the last ones, at most point of them.
Current(m, p, t, n) == \A j \in Slots : j >= n => m[Back(p, j)].track < t

\* A point is stored, the first of a new track or one more of the current one.
LEMMA RingWritten ==
  ASSUME NEW m \in [Slots -> Record], NEW p \in Slots, Ring(m, p),
         NEW r \in Record, Valid(r), NEW w, w = Put(m, p, r),
         NEW c \in 1 .. TrackLimit,
         \A s \in Slots : m[s].n < r.n /\ m[s].track <= r.track,
         Current(m, p, r.track, c - 1)
  PROVE  /\ Ring(w, BUF_INC_PTR(p))
         /\ Current(w, BUF_INC_PTR(p), r.track, c)
<1> DEFINE q == BUF_INC_PTR(p)
<1>1. /\ w[Back(q, 0)] = r
      /\ \A k \in Slots : k > 0 => /\ k - 1 \in Slots
                                   /\ w[Back(q, k)] = m[Back(p, k - 1)]
  BY BackWritten
<1>2. \A k \in Slots : Back(p, k) \in Slots
  BY BackFact
<1>3. \A s \in Slots : m[s].n \in Nat /\ m[s].track \in Nat
  BY DEF Record
<1>4. \/ \A i \in Slots : Valid(w[i])
      \/ \A i \in Slots : Valid(w[i]) <=> i < q
  <2>1. CASE \A i \in Slots : Valid(m[i])
    BY <2>1 DEF Put
  <2>2. CASE \A i \in Slots : Valid(m[i]) <=> i < p
    <3>1. \A i \in Slots : Valid(w[i]) <=> i < p \/ i = p
      BY <2>2 DEF Put
    <3> QED BY <3>1, RingSize DEF BUF_INC_PTR
  <2> QED BY <2>1, <2>2 DEF Ring
<1> HIDE DEF q
<1>5. ASSUME NEW i \in Slots, NEW j \in Slots, i < j, Valid(w[Back(q, j)])
      PROVE  /\ w[Back(q, j)].n < w[Back(q, i)].n
             /\ w[Back(q, j)].track <= w[Back(q, i)].track
             /\ j - i >= TrackLimit
                  => w[Back(q, j)].track < w[Back(q, i)].track
  <2> DEFINE y == j - 1
  <2>1. j > 0 /\ j \in Int /\ i \in Int
    BY <1>5, RingSize
  <2>2. y \in Slots /\ w[Back(q, j)] = m[Back(p, y)]
    BY <1>1, <2>1
  <2>3. CASE i = 0
    <3>1. w[Back(q, i)] = r
      BY <1>1, <2>3
    <3>2. j - i >= TrackLimit => y >= c - 1
      BY <2>1, <2>3, LimitsAssumption
    <3>3. j - i >= TrackLimit => m[Back(p, y)].track < r.track
      BY <2>2, <3>2 DEF Current
    <3>4. m[Back(p, y)].n < r.n /\ m[Back(p, y)].track <= r.track
      BY <1>2, <2>2
    <3> QED BY <2>2, <3>1, <3>3, <3>4
  <2>4. CASE i > 0
    <3> DEFINE x == i - 1
    <3>1. x \in Slots /\ w[Back(q, i)] = m[Back(p, x)]
      BY <1>1, <2>4
    <3>2. x < y /\ y - x = j - i
      BY <1>5, <2>1
    <3> HIDE DEF x, y
    <3>3. Valid(m[Back(p, y)])
      BY <1>5, <2>2
    <3>4. /\ m[Back(p, y)].n < m[Back(p, x)].n
          /\ m[Back(p, y)].track <= m[Back(p, x)].track
          /\ y - x >= TrackLimit => m[Back(p, y)].track < m[Back(p, x)].track
      BY <2>2, <3>1, <3>2, <3>3 DEF Ring
    <3> QED BY <2>2, <3>1, <3>2, <3>4
  <2> QED BY <2>1, <2>3, <2>4, RingSize
<1>6. Ring(w, q)
  BY <1>4, <1>5 DEF Ring
<1>7. ASSUME NEW j \in Slots, j >= c PROVE w[Back(q, j)].track < r.track
  <2>1. j > 0 /\ j - 1 >= c - 1
    BY <1>7, LimitsAssumption, RingSize
  <2> QED BY <1>1, <2>1 DEF Current
<1> QED BY <1>6, <1>7 DEF Current, q

\* The order of the ring, as it is read and as a power cut leaves it.
RingSorted ==
  /\ Ring(mem, Place)
  /\ \E q \in Slots : Ring(flash, q)
  /\ \A s \in Slots : mem[s].track <= track
  /\ point > 0 => Current(mem, Place, track, point)

\* Until a record is missing or points are given up.
RingOrder == ~lost => RingSorted

\* The place of the next record lies in the ring.
LEMMA PlaceType == ASSUME BufTypeInv PROVE Place \in Slots
BY BackInc DEF BufTypeInv, BufTypeOK, Place

\* What tracer_new_point() writes.
Stored == [n |-> serial + 1, track |-> track', sent |-> FALSE]

\* What StoreWrite changes.
LEMMA WriteFact ==
  ASSUME BufTypeInv, NEW first \in BOOLEAN, StoreWrite(first)
  PROVE  /\ Stored \in Record /\ Valid(Stored) /\ ~Stored.sent
         /\ Stored.n = serial + 1 /\ Stored.track = track'
         /\ mem' = Put(mem, save, Stored) /\ flash' = flash /\ lost' = lost
         /\ save' = save /\ undel' = undel /\ spc = "idle" /\ spc' = "written"
         /\ Place = save /\ Place' = BUF_INC_PTR(save)
         /\ track \in Nat /\ point \in 0 .. TrackLimit /\ serial \in Nat
         /\ point' \in 1 .. TrackLimit
         /\ \/ track' = track + 1 /\ point' = 1
            \/ track' = track /\ point > 0 /\ point' = point + 1
<1>1. /\ track \in Nat /\ point \in 0 .. TrackLimit /\ serial \in Nat
      /\ point' \in 1 .. TrackLimit
      /\ \/ track' = track + 1 /\ point' = 1
         \/ track' = track /\ point > 0 /\ point' = point + 1
  BY LimitsAssumption DEF BufTypeInv, BufTypeOK, StoreWrite, NextPoint
<1>2. /\ Stored \in Record /\ ~Stored.sent
      /\ Stored.n = serial + 1 /\ Stored.track = track'
  BY <1>1 DEF Stored, Record
<1>3. Valid(Stored)
  BY <1>1, <1>2 DEF Valid, Erased
<1>4. /\ mem' = Put(mem, save, Stored) /\ flash' = flash /\ lost' = lost
      /\ save' = save /\ undel' = undel /\ spc = "idle" /\ spc' = "written"
  BY DEF StoreWrite, NextPoint, Put, Stored
<1>5. Place = save /\ Place' = BUF_INC_PTR(save)
  BY <1>4 DEF Place
<1> QED BY <1>1, <1>2, <1>3, <1>4, <1>5

\* What tracer_buf_delivered_all() marks.
LEMMA DeliverFact ==
  ASSUME BufTypeInv, Deliver
  PROVE  /\ UNCHANGED <<flash, save, read, track, point, spc, lost, Place>>
         /\ mem' \in [Slots -> Record]
         /\ undel = read => UNCHANGED <<mem, undel>>
         /\ undel # read => undel' = BUF_INC_PTR(undel)
         /\ \A s \in Slots :
              /\ mem'[s].n = mem[s].n /\ mem'[s].track = mem[s].track
              /\ Valid(mem'[s]) <=> Valid(mem[s])
              /\ mem'[s].sent <=> \/ mem[s].sent
                                  \/ undel # read /\ Valid(mem[s]) /\ s = undel
<1>1. UNCHANGED <<flash, save, read, track, point, spc, lost>>
  BY DEF Deliver, hist
<1>2. UNCHANGED Place
  BY <1>1 DEF Place
<1>3. mem \in [Slots -> Record] /\ undel \in Slots
  BY DEF BufTypeInv, BufTypeOK
<1>4. CASE undel = read
  <2>1. UNCHANGED <<mem, undel>>
    BY <1>4 DEF Deliver
  <2> QED BY <1>1, <1>2, <1>3, <1>4, <2>1
<1>5. CASE undel # read
  <2>1. /\ undel' = BUF_INC_PTR(undel)
        /\ mem' = IF Valid(mem[undel]) THEN Mark(mem, undel) ELSE mem
    BY <1>5 DEF Deliver, Mark
  <2>2. CASE Valid(mem[undel])
    <3>1. mem' = Mark(mem, undel)
      BY <2>1, <2>2
    <3>2. /\ mem' \in [Slots -> Record]
          /\ \A s \in Slots :
               /\ mem'[s].n = mem[s].n /\ mem'[s].track = mem[s].track
               /\ mem'[s].sent <=> mem[s].sent \/ s = undel
               /\ Valid(mem'[s]) <=> Valid(mem[s])
      BY <1>3, <2>2, <3>1, RecordMarked
    <3> QED BY <1>1, <1>2, <1>5, <2>1, <2>2, <3>2, Zenon
  <2>3. CASE ~Valid(mem[undel])
    <3>1. mem' = mem
      BY <2>1, <2>3
    <3> QED BY <1>1, <1>2, <1>3, <1>5, <2>1, <2>3, <3>1, Zenon
  <2> QED BY <2>2, <2>3
<1> QED BY <1>4, <1>5

\* Every step keeps the order, if tracks are short enough.
LEMMA RingSortedStep ==
  ASSUME 2 * TrackLimit <= Size, BufTypeInv, RingSorted, [BufNext]_buf_vars,
         ~lost'
  PROVE  RingSorted'
<1>1. /\ mem \in [Slots -> Record] /\ flash \in [Slots -> Record]
      /\ save \in Slots /\ track \in Nat /\ Place \in Slots
  BY PlaceType DEF BufTypeInv, BufTypeOK
<1>2. \A s \in Slots : /\ mem[s].n \in Nat /\ mem[s].track \in Nat
                       /\ flash[s].track \in Nat
  BY <1>1 DEF Record
<1>3. ASSUME NEW first \in BOOLEAN, StoreWrite(first) PROVE RingSorted'
  <2>1. /\ Stored \in Record /\ Valid(Stored)
        /\ Stored.n = serial + 1 /\ Stored.track = track'
        /\ mem' = Put(mem, save, Stored) /\ flash' = flash
        /\ Place = save /\ Place' = BUF_INC_PTR(save)
        /\ point \in 0 .. TrackLimit /\ serial \in Nat
        /\ point' \in 1 .. TrackLimit
        /\ \/ track' = track + 1 /\ point' = 1
           \/ track' = track /\ point > 0 /\ point' = point + 1
    BY <1>3, WriteFact
  <2>2. \A s \in Slots : mem[s].n < Stored.n /\ mem[s].track <= Stored.track
    BY <1>1, <1>2, <2>1 DEF RingSorted, BufTypeInv, Numbered
  <2>3. Current(mem, save, Stored.track, point' - 1)
    <3>1. CASE track' = track + 1 /\ point' = 1
      <4>1. \A j \in Slots : Back(save, j) \in Slots
        BY <1>1, BackFact
      <4> QED BY <1>1, <1>2, <2>1, <3>1, <4>1 DEF RingSorted, Current
    <3>2. CASE track' = track /\ point > 0 /\ point' = point + 1
      <4>1. point' - 1 = point
        BY <2>1, <3>2
      <4> QED BY <2>1, <3>2, <4>1 DEF RingSorted
    <3> QED BY <2>1, <3>1, <3>2
  <2>4. Ring(mem, save)
    BY <2>1 DEF RingSorted
  <2>5. Ring(mem', Place') /\ Current(mem', Place', track', point')
    <3>1. /\ Ring(mem', BUF_INC_PTR(save))
          /\ Current(mem', BUF_INC_PTR(save), Stored.track, point')
      BY <1>1, <2>1, <2>2, <2>3, <2>4, RingWritten
    <3> QED BY <2>1, <3>1
  <2>6. \A s \in Slots : mem'[s].track <= track'
    BY <1>1, <1>2, <2>1, <2>2 DEF Put
  <2> QED BY <2>1, <2>5, <2>6 DEF RingSorted
<1>4. CASE Deliver
  <2>1. UNCHANGED <<flash, track, point, Place>>
        /\ \A s \in Slots : /\ mem'[s].n = mem[s].n
                            /\ mem'[s].track = mem[s].track
                            /\ Valid(mem'[s]) <=> Valid(mem[s])
    BY <1>4, DeliverFact
  <2>2. Ring(mem', Place)
    BY <1>1, <2>1, RingFlags DEF RingSorted
  <2>3. \A j \in Slots : Back(Place, j) \in Slots
    BY <1>1, BackFact
  <2>4. point > 0 => Current(mem', Place, track, point)
    BY <2>1, <2>3 DEF RingSorted, Current
  <2> QED BY <2>1, <2>2, <2>4 DEF RingSorted
<1>5. CASE storage_maintenance
  <2>1. flash' = mem /\ UNCHANGED <<mem, save, spc, track, point>>
    BY <1>5 DEF storage_maintenance
  <2> QED BY <1>1, <2>1 DEF RingSorted, Place
<1>6. CASE Restart
  <2>1. PICK q \in Slots : Ring(flash, q)
    BY DEF RingSorted
  <2>2. /\ mem' = flash /\ flash' = flash /\ point' = 0 /\ spc' = "idle"
        /\ save' = tracer_buf_init(flash).save
        /\ track' = tracer_buf_init(flash).track
    BY <1>6 DEF Restart
  <2>3. /\ save' = q
        /\ Valid(flash[0]) => track' = flash[Back(q, 0)].track
        /\ ~Valid(flash[0]) => \A s \in Slots : flash[s] = Erased
    BY <1>1, <2>1, <2>2, InitSave
  <2>4. Place' = q
    BY <2>2, <2>3 DEF Place
  <2>5. track' \in Nat
    BY <1>1, <2>2, InitPointers
  <2>6. ASSUME NEW s \in Slots PROVE flash[s].track <= track'
    <3>1. CASE ~Valid(flash[s])
      BY <2>5, <3>1 DEF Valid, Erased
    <3>2. CASE Valid(flash[s])
      <4> DEFINE k == Back(q, s)
      <4>1. k \in Slots /\ Back(q, k) = s /\ 0 \in Slots
        BY BackFact, RingSize
      <4>2. Valid(flash[0])
        BY <2>3, <3>2 DEF Valid
      <4> HIDE DEF k
      <4>3. CASE k = 0
        BY <1>2, <2>3, <4>1, <4>2, <4>3
      <4>4. CASE k # 0
        <5>1. 0 < k
          BY <4>1, <4>4, RingSize
        <5> QED BY <2>1, <2>3, <3>2, <4>1, <4>2, <5>1 DEF Ring
      <4> QED BY <4>3, <4>4
    <3> QED BY <3>1, <3>2
  <2> QED BY <2>1, <2>2, <2>4, <2>6 DEF RingSorted
<1>7. CASE StoreAdvance
  <2>1. UNCHANGED <<mem, flash, track, point, Place>>
    BY <1>7 DEF StoreAdvance, Place
  <2> QED BY <2>1 DEF RingSorted
<1>8. CASE UNCHANGED <<mem, flash, save, spc, track, point>>
  BY <1>8 DEF RingSorted, Place
<1>9. ASSUME NEW arrives \in BOOLEAN, NEW n \in 0 .. MaxAnswers,
             Send(arrives, n)
      PROVE  UNCHANGED <<mem, flash, save, spc, track, point>>
  BY <1>9 DEF Send, ring
<1>10. ReadNext \/ TimedOut \/ Acked
       => UNCHANGED <<mem, flash, save, spc, track, point>>
  BY DEF ReadNext, TimedOut, Acked, ring
<1>11. tracer_reinit \/ tracer_packet_rx \/ UNCHANGED buf_vars
       => UNCHANGED <<mem, flash, save, spc, track, point>>
  BY DEF tracer_reinit, tracer_packet_rx, buf_vars, ring
<1>12. ~(\E first \in BOOLEAN : WriteFails(first)) /\ ~MarkFails
  BY DEF WriteFails, MarkFails
<1> QED
  BY <1>3, <1>4, <1>5, <1>6, <1>7, <1>8, <1>9, <1>10, <1>11, <1>12
  DEF BufNext, tracer_comm_process

\* The same while nothing was given up.
LEMMA RingOrderStep ==
  ASSUME 2 * TrackLimit <= Size, BufTypeInv, RingOrder, [BufNext]_buf_vars
  PROVE  RingOrder'
BY RingSortedStep, LostStays DEF RingOrder


-----------------------------------------------------------------------------
(* The records that wait *)

\* The records from buf_last_undelivered on, and the one just written.
Pending == Dist(save, undel) + IF spc = "written" THEN 1 ELSE 0

\* They are the last ones of the ring and all that wait; in the flash it is
\* some number of the last ones.
RingOpen ==
  ~lost => /\ Waiting(mem, Place, Pending)
           /\ \E q \in Slots : /\ Ring(flash, q)
                               /\ \E u \in 0 .. Size : Waiting(flash, q, u)

\* The record at distance u is u records back.
LEMMA BackDist ==
  ASSUME NEW p \in Slots, NEW b \in Slots
  PROVE  /\ p # b => Back(p, Dist(p, b) - 1) = b
         /\ \A u \in 1 .. Size - 1 : Dist(p, Back(p, u - 1)) = u
BY RingSize DEF Back, Dist

\* buf_last_undelivered is the oldest of them.
LEMMA PendingFact ==
  ASSUME BufTypeInv
  PROVE  /\ Pending \in 0 .. Size
         /\ save # undel => Pending > 0 /\ Back(Place, Pending - 1) = undel
<1>1. save \in Slots /\ undel \in Slots
  BY DEF BufTypeInv, BufTypeOK
<1> DEFINE d == Dist(save, undel)
<1>2. /\ d \in Nat /\ d < Size /\ (d = 0 <=> save = undel)
      /\ save # undel => Back(save, d - 1) = undel
  BY <1>1, DistType, DistFact, BackDist
<1>3. \A k \in Slots : k > 0 => Back(BUF_INC_PTR(save), k) = Back(save, k - 1)
  BY <1>1, BackInc
<1> HIDE DEF d
<1>4. CASE spc = "written"
  <2>1. Pending = d + 1 /\ Place = BUF_INC_PTR(save)
    BY <1>4 DEF Pending, Place, d
  <2>2. save # undel => d \in Slots /\ d > 0 /\ Pending - 1 = d
    BY <1>2, <2>1, RingSize
  <2>3. save # undel => Back(Place, Pending - 1) = undel
    BY <1>2, <1>3, <2>1, <2>2
  <2> QED BY <1>2, <2>1, <2>3, RingSize
<1>5. CASE spc # "written"
  <2>1. Pending = d /\ Place = save
    BY <1>2, <1>5 DEF Pending, Place, d
  <2> QED BY <1>2, <2>1, RingSize
<1> QED BY <1>4, <1>5

\* Every step keeps it, if tracks are short enough.
LEMMA RingOpenStep ==
  ASSUME 2 * TrackLimit <= Size, BufTypeInv, ReadPos, RingOrder, RingOpen,
         [BufNext]_buf_vars
  PROVE  RingOpen'
<1>1. /\ mem \in [Slots -> Record] /\ flash \in [Slots -> Record]
      /\ save \in Slots /\ undel \in Slots /\ read \in Slots /\ Place \in Slots
      /\ lost \in BOOLEAN
  BY PlaceType DEF BufTypeInv, BufTypeOK
<1>2. /\ Pending \in 0 .. Size
      /\ save # undel => Pending > 0 /\ Back(Place, Pending - 1) = undel
  BY PendingFact
<1>3. ASSUME NEW first \in BOOLEAN, StoreWrite(first) PROVE RingOpen'
  <2>1. /\ Stored \in Record /\ Valid(Stored) /\ ~Stored.sent
        /\ mem' = Put(mem, save, Stored) /\ flash' = flash /\ lost' = lost
        /\ save' = save /\ undel' = undel /\ spc = "idle" /\ spc' = "written"
        /\ Place = save /\ Place' = BUF_INC_PTR(save)
    BY <1>3, WriteFact
  <2> DEFINE q == BUF_INC_PTR(save)
  <2>2. /\ mem'[Back(q, 0)] = Stored
        /\ \A k \in Slots :
             k > 0 => /\ k - 1 \in Slots
                      /\ mem'[Back(q, k)] = mem[Back(save, k - 1)]
    BY <1>1, <2>1, BackWritten
  <2>3. Pending' = Pending + 1
    <3>1. Dist(save, undel) \in Nat
      BY <1>1, DistType
    <3> QED BY <2>1, <3>1 DEF Pending
  <2>4. ASSUME ~lost PROVE Waiting(mem', Place', Pending')
    <3> HIDE DEF q
    <3>1. Waiting(mem, save, Pending)
      BY <2>1, <2>4 DEF RingOpen
    <3>2. ASSUME NEW j \in Slots
          PROVE  /\ j < Pending + 1
                      => Valid(mem'[Back(q, j)]) /\ ~mem'[Back(q, j)].sent
                 /\ j >= Pending + 1 /\ Valid(mem'[Back(q, j)])
                      => mem'[Back(q, j)].sent
      <4>1. CASE j = 0
        BY <1>2, <2>1, <2>2, <4>1
      <4>2. CASE j > 0
        <5> DEFINE k == j - 1
        <5>1. k \in Slots /\ mem'[Back(q, j)] = mem[Back(save, k)]
          BY <2>2, <4>2
        <5>2. (j < Pending + 1 <=> k < Pending)
              /\ (j >= Pending + 1 <=> k >= Pending)
          BY <1>2, RingSize
        <5> HIDE DEF k
        <5> QED BY <3>1, <5>1, <5>2, Zenon DEF Waiting
      <4> QED BY <4>1, <4>2, RingSize
    <3>3. Waiting(mem', q, Pending + 1)
      BY <3>2 DEF Waiting
    <3> QED BY <2>1, <2>3, <3>3 DEF q
  <2> QED BY <2>1, <2>4 DEF RingOpen
<1>4. CASE StoreAdvance
  <2>1. /\ UNCHANGED <<mem, flash, undel, Place>> /\ spc = "written"
        /\ spc' = "idle" /\ save' = BUF_INC_PTR(save)
        /\ lost' = (lost \/ Overrun)
    BY <1>4 DEF StoreAdvance, Place
  <2>2. ASSUME ~lost' PROVE ~lost /\ Pending' = Pending
    <3>1. Dist(BUF_INC_PTR(save), undel) = Dist(save, undel) + 1
      BY <1>1, <2>1, <2>2, DistFact DEF Overrun
    <3>2. Dist(save, undel) \in Nat
      BY <1>1, DistType
    <3>3. ~lost
      BY <2>1, <2>2
    <3>4. Pending' = Dist(BUF_INC_PTR(save), undel) + 0
          /\ Pending = Dist(save, undel) + 1
      BY <2>1 DEF Pending
    <3> QED BY <3>1, <3>2, <3>3, <3>4
  <2> QED BY <2>1, <2>2 DEF RingOpen
<1>5. CASE Deliver
  <2>1. /\ UNCHANGED <<flash, save, read, spc, lost, Place>>
        /\ undel = read => UNCHANGED <<mem, undel>>
        /\ undel # read => undel' = BUF_INC_PTR(undel)
        /\ \A s \in Slots :
              /\ Valid(mem'[s]) <=> Valid(mem[s])
              /\ mem'[s].sent <=> \/ mem[s].sent
                                  \/ undel # read /\ Valid(mem[s]) /\ s = undel
    BY <1>5, DeliverFact
  <2>2. CASE undel = read \/ lost
    BY <2>1, <2>2 DEF RingOpen, Pending
  <2>3. CASE undel # read /\ ~lost
    <3>1. save # undel
      <4>1. Dist(read, undel) \in Nat \ {0} /\ Dist(save, undel) \in Nat
        BY <1>1, <2>3, DistType, DistFact
      <4>2. Dist(save, undel) # 0
        BY <2>3, <4>1 DEF ReadPos
      <4> QED BY <1>1, <4>2, DistFact
    <3>2. Pending > 0 /\ Back(Place, Pending - 1) = undel
      BY <1>2, <3>1
    <3>3. Pending' = Pending - 1
      <4>1. Dist(save, undel') = Dist(save, undel) - 1
        BY <1>1, <2>1, <2>3, <3>1, DistFact
      <4>2. Dist(save, undel) \in Nat
        BY <1>1, DistType
      <4> QED BY <2>1, <4>1, <4>2 DEF Pending
    <3>4. Waiting(mem, Place, Pending)
      BY <2>3 DEF RingOpen
    <3>5. \A k \in Slots : /\ Back(Place, k) \in Slots
                           /\ Back(Place, Back(Place, k)) = k
      BY <1>1, BackFact
    <3>6. ASSUME NEW j \in Slots
          PROVE  /\ j < Pending - 1 => /\ Valid(mem'[Back(Place, j)])
                                       /\ ~mem'[Back(Place, j)].sent
                 /\ j >= Pending - 1 /\ Valid(mem'[Back(Place, j)])
                      => mem'[Back(Place, j)].sent
      <4> DEFINE s == Back(Place, j)
      <4>1. s \in Slots
        BY <3>5
      <4>2. Pending - 1 \in Slots
        BY <1>2, <3>2, RingSize
      <4>3. s = undel <=> j = Pending - 1
        BY <3>2, <3>5, <4>2
      <4>4. /\ j < Pending => Valid(mem[s]) /\ ~mem[s].sent
            /\ j >= Pending /\ Valid(mem[s]) => mem[s].sent
        BY <3>4 DEF Waiting
      <4>5. /\ Valid(mem'[s]) <=> Valid(mem[s])
            /\ mem'[s].sent <=> mem[s].sent \/ (Valid(mem[s]) /\ s = undel)
        BY <2>1, <2>3, <4>1
      <4>6. /\ j < Pending - 1 => j < Pending /\ j # Pending - 1
            /\ j >= Pending - 1 => j >= Pending \/ j = Pending - 1
        BY <1>2, RingSize
      <4> HIDE DEF s
      <4>7. /\ j < Pending - 1 => Valid(mem'[s]) /\ ~mem'[s].sent
            /\ j >= Pending - 1 /\ Valid(mem'[s]) => mem'[s].sent
        BY <4>3, <4>4, <4>5, <4>6, Zenon
      <4> QED BY <4>7 DEF s
    <3>7. Waiting(mem', Place, Pending - 1)
      BY <3>6 DEF Waiting
    <3> QED BY <2>1, <3>3, <3>7 DEF RingOpen
  <2> QED BY <2>2, <2>3
<1>6. CASE storage_maintenance
  <2>1. flash' = mem /\ UNCHANGED <<mem, save, undel, spc, lost>>
    BY <1>6 DEF storage_maintenance, hist
  <2>2. Place' = Place /\ Pending' = Pending
    BY <2>1 DEF Place, Pending
  <2> QED BY <1>1, <1>2, <2>1, <2>2 DEF RingOpen, RingOrder, RingSorted
<1>7. CASE Restart
  <2>1. /\ mem' = flash /\ flash' = flash /\ spc' = "idle"
        /\ save' = tracer_buf_init(flash).save
        /\ undel' = tracer_buf_init(flash).undel
        /\ lost' = (lost \/ Missed(flash) \/ Full(flash))
    BY <1>7 DEF Restart
  <2>2. SUFFICES ASSUME ~lost'
                 PROVE  /\ Waiting(mem', Place', Pending')
                        /\ \E q \in Slots :
                             /\ Ring(flash, q)
                             /\ \E u \in 0 .. Size : Waiting(flash, q, u)
    BY <2>1 DEF RingOpen
  <2>3. ~lost /\ ~Missed(flash) /\ ~Full(flash)
    BY <2>1, <2>2
  <2>4. PICK q \in Slots :
               /\ Ring(flash, q) /\ \E u \in 0 .. Size : Waiting(flash, q, u)
    BY <2>3 DEF RingOpen
  <2>5. PICK u \in 0 .. Size : Waiting(flash, q, u)
    BY <2>4
  <2>6. /\ save' = q
        /\ u = 0 => undel' = q
        /\ u > 0 => undel' = Back(q, u - 1)
    BY <1>1, <2>1, <2>3, <2>4, <2>5, InitSave, InitUndel
  <2>7. u # Size
    <3>1. ASSUME u = Size, NEW s \in Slots
          PROVE  Valid(flash[s]) /\ ~flash[s].sent
      <4>1. Back(q, s) \in Slots /\ Back(q, Back(q, s)) = s
        BY BackFact
      <4>2. Back(q, s) < u
        BY <3>1, <4>1, RingSize
      <4> QED BY <2>5, <4>1, <4>2 DEF Waiting
    <3> QED BY <2>3, <3>1 DEF Full
  <2>8. Place' = q
    BY <2>1, <2>6 DEF Place
  <2>9. Pending' = u
    <3>1. Pending' = Dist(save', undel') + 0
      BY <2>1 DEF Pending
    <3>2. CASE u = 0
      BY <2>6, <3>1, <3>2, DistFact
    <3>3. CASE u # 0
      <4>1. u \in 1 .. Size - 1 /\ u > 0
        BY <2>7, <3>3, RingSize
      <4>2. Dist(q, Back(q, u - 1)) = u
        BY <4>1, BackDist
      <4> QED BY <2>6, <3>1, <4>1, <4>2
    <3> QED BY <3>2, <3>3
  <2> QED BY <2>1, <2>4, <2>5, <2>8, <2>9
<1>8. CASE UNCHANGED <<mem, flash, save, undel, spc>> /\ (~lost' => ~lost)
  BY <1>8 DEF RingOpen, Place, Pending
<1>9. ASSUME NEW arrives \in BOOLEAN, NEW n \in 0 .. MaxAnswers,
             Send(arrives, n)
      PROVE  UNCHANGED <<mem, flash, save, undel, spc, lost>>
  BY <1>9 DEF Send, ring, hist
<1>10. ReadNext \/ TimedOut \/ Acked
       => UNCHANGED <<mem, flash, save, undel, spc, lost>>
  BY DEF ReadNext, TimedOut, Acked, ring, hist
<1>11. tracer_packet_rx \/ UNCHANGED buf_vars
       => UNCHANGED <<mem, flash, save, undel, spc, lost>>
  BY DEF tracer_packet_rx, buf_vars, ring, hist
<1>12. tracer_reinit
       => UNCHANGED <<mem, flash, save, undel, spc>> /\ (~lost' => ~lost)
  BY DEF tracer_reinit, ring
<1>13. (\E first \in BOOLEAN : WriteFails(first)) \/ MarkFails => lost'
  BY DEF WriteFails, MarkFails
<1>14. CASE lost'
  BY <1>14 DEF RingOpen
<1> QED
  BY <1>3, <1>4, <1>5, <1>6, <1>7, <1>8, <1>9, <1>10, <1>11, <1>12, <1>13,
     <1>14 DEF BufNext, tracer_comm_process

\* What the order of the flash and the records that wait in it make of the
\* search.
LEMMA FoundInRing ==
  ASSUME 2 * TrackLimit <= Size, BufTypeInv, RingOpen
  PROVE  FoundAgain
<1> DEFINE valid == {s \in Slots : Valid(flash[s])}
           after == tracer_buf_init(flash)
           waits == {s \in valid : ~flash[s].sent}
<1>1. flash \in [Slots -> Record]
  BY DEF BufTypeInv, BufTypeOK
<1>2. \A s \in Slots : flash[s].n \in Nat
  BY <1>1 DEF Record
<1>3. SUFFICES ASSUME valid # {}, ~lost
               PROVE  /\ \E t \in valid :
                            /\ \A s \in valid : flash[s].n <= flash[t].n
                            /\ after.save = BUF_INC_PTR(t)
                            /\ after.track = flash[t].track
                      /\ waits # {} /\ ~Missed(flash) =>
                           \E t \in waits :
                             /\ \A s \in waits : flash[t].n <= flash[s].n
                             /\ after.undel = t
  BY DEF FoundAgain
<1>4. PICK q \in Slots :
             /\ Ring(flash, q) /\ \E u \in 0 .. Size : Waiting(flash, q, u)
  BY <1>3 DEF RingOpen
<1>5. PICK u \in 0 .. Size : Waiting(flash, q, u)
  BY <1>4
<1>6. \A s \in Slots : Back(q, s) \in Slots /\ Back(q, Back(q, s)) = s
  BY BackFact
<1>7. ASSUME NEW i \in Slots, NEW j \in Slots, i < j, Valid(flash[Back(q, j)])
      PROVE  flash[Back(q, j)].n < flash[Back(q, i)].n
  BY <1>4, <1>7 DEF Ring
<1>8. 0 \in Slots /\ \A k \in Slots : k = 0 \/ 0 < k
  BY RingSize
<1>9. \E t \in valid : /\ \A s \in valid : flash[s].n <= flash[t].n
                       /\ after.save = BUF_INC_PTR(t)
                       /\ after.track = flash[t].track
  <2> DEFINE t == Back(q, 0)
  <2>1. Valid(flash[0])
    <3>1. ~Valid(flash[0]) => \A s \in Slots : flash[s] = Erased
      BY <1>1, <1>4, InitSave
    <3> QED BY <1>3, <3>1 DEF Valid
  <2>2. Valid(flash[t])
    <3>1. CASE \A i \in Slots : Valid(flash[i])
      BY <1>6, <1>8, <3>1
    <3>2. CASE \A i \in Slots : Valid(flash[i]) <=> i < q
      <4>1. 0 < q
        BY <1>8, <2>1, <3>2
      <4>2. t < q
        BY <4>1, RingSize DEF Back
      <4> QED BY <1>6, <1>8, <3>2, <4>2
    <3> QED BY <1>4, <3>1, <3>2 DEF Ring
  <2>3. t \in valid
    BY <1>6, <1>8, <2>2
  <2>4. ASSUME NEW s \in valid PROVE flash[s].n <= flash[t].n
    <3> DEFINE k == Back(q, s)
    <3>1. k \in Slots /\ Back(q, k) = s /\ t \in Slots
      BY <1>6, <1>8
    <3> HIDE DEF k
    <3>2. CASE k = 0
      BY <1>2, <3>1, <3>2
    <3>3. CASE 0 < k
      <4>1. flash[Back(q, k)].n < flash[Back(q, 0)].n
        BY <1>7, <1>8, <3>1, <3>3
      <4> QED BY <1>2, <3>1, <4>1
    <3> QED BY <1>8, <3>1, <3>2, <3>3
  <2>5. after.save = q /\ after.track = flash[t].track
    BY <1>1, <1>4, <2>1, InitSave
  <2>6. BUF_INC_PTR(t) = q
    BY BackInc
  <2> HIDE DEF t, after
  <2> QED BY <2>3, <2>4, <2>5, <2>6
<1>10. ASSUME waits # {}, ~Missed(flash)
       PROVE  \E t \in waits : /\ \A s \in waits : flash[t].n <= flash[s].n
                               /\ after.undel = t
  <2>1. ASSUME NEW s \in waits PROVE Back(q, s) < u
    <3>1. Back(q, s) \in Slots /\ Back(q, Back(q, s)) = s
      BY <1>6
    <3>2. ~(Back(q, s) >= u)
      BY <1>5, <3>1 DEF Waiting
    <3> QED BY <3>1, <3>2, RingSize
  <2>2. u > 0
    <3>1. PICK s \in waits : TRUE
      BY <1>10
    <3> QED BY <1>6, <2>1, <3>1, RingSize
  <2> DEFINE l == u - 1
             t == Back(q, l)
  <2>3. l \in Slots /\ l < u
    BY <2>2, RingSize
  <2>4. after.undel = t
    BY <1>1, <1>4, <1>5, <1>10, <2>2, InitUndel
  <2> HIDE DEF l
  <2>5. Valid(flash[t]) /\ ~flash[t].sent
    BY <1>5, <2>3 DEF Waiting
  <2>6. t \in waits
    BY <1>6, <2>3, <2>5
  <2>7. ASSUME NEW s \in waits PROVE flash[t].n <= flash[s].n
    <3> DEFINE k == Back(q, s)
    <3>1. k \in Slots /\ Back(q, k) = s /\ t \in Slots
      BY <1>6, <2>3
    <3>2. k < u
      BY <2>1
    <3> HIDE DEF k
    <3>3. k = l \/ k < l
      BY <2>3, <3>1, <3>2, RingSize DEF l
    <3>4. CASE k = l
      BY <1>2, <3>1, <3>4
    <3>5. CASE k < l
      <4>1. flash[Back(q, l)].n < flash[Back(q, k)].n
        BY <1>7, <2>3, <2>5, <3>1, <3>5
      <4> QED BY <1>2, <3>1, <4>1
    <3> QED BY <3>3, <3>4, <3>5
  <2> HIDE DEF t, after, waits
  <2> QED BY <2>4, <2>6, <2>7
<1> QED BY <1>9, <1>10

\* If no track is longer than half of the ring, a restart finds the place
\* behind the newest record and the oldest one that waits, for every size of
\* the ring and every length of the history.
THEOREM SearchSafety ==
  ASSUME 2 * TrackLimit <= Size PROVE BufSpec => []FoundAgain
<1> DEFINE I == BufTypeInv /\ ReadPos /\ RingOrder /\ RingOpen
<1>1. ASSUME BufInit PROVE I
  <2>1. BufTypeInv
    BY <1>1, BufInitType
  <2>2. /\ 0 \in Slots /\ Dist(0, 0) = 0 /\ 0 \in 0 .. Size
        /\ \A k \in Slots : Back(0, k) \in Slots /\ ~(k < 0)
    BY BackFact, RingSize DEF Dist
  <2>3. ReadPos
    BY <1>1, <2>2 DEF BufInit, ReadPos
  <2>4. /\ save = 0 /\ undel = 0 /\ spc = "idle" /\ flash = mem
        /\ track = 0 /\ point = 0
        /\ \A s \in Slots : ~Valid(mem[s]) /\ mem[s].track = 0
    BY <1>1 DEF BufInit, Valid, Erased
  <2>5. Place = 0 /\ Pending = 0
    BY <2>2, <2>4 DEF Place, Pending
  <2>6. Ring(mem, 0)
    BY <2>2, <2>4 DEF Ring
  <2>7. Waiting(mem, 0, 0)
    BY <2>2, <2>4 DEF Waiting
  <2>8. RingOrder
    BY <2>2, <2>4, <2>5, <2>6 DEF RingOrder, RingSorted
  <2>9. RingOpen
    BY <2>2, <2>4, <2>5, <2>6, <2>7 DEF RingOpen
  <2> QED BY <2>1, <2>3, <2>8, <2>9
<1>2. I /\ [BufNext]_buf_vars => I'
  BY BufNextType, ReadPosStep, RingOrderStep, RingOpenStep
<1>3. I => FoundAgain
  BY FoundInRing
<1> QED BY <1>1, <1>2, <1>3, PTL DEF BufSpec
=============================================================================
