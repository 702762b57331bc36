------------------------------ MODULE Tracker -------------------------------
(***************************************************************************)
(* When the unit records a track, and when its GPS is on: the inputs KEY   *)
(* and SHOCK (inp.c, app.c, system.c), the tracer's start and stop         *)
(* (tracer.c) and the sleep of the GPS (gps.c).                            *)
(*                                                                         *)
(* Four tasks share this state.  The timer task ticks (gps_tick); the fast *)
(* task filters the inputs and parses the GPS; the slow task goes round    *)
(* through the console, _io_input_task(), power_task() and tracer_task();  *)
(* the comm task resolves the server's name and resets a stuck GPS.        *)
(* Times are left to the environment, except the counters of gps_tick().   *)
(***************************************************************************)
EXTENDS Naturals

CONSTANTS SLEEP_TIMEOUT, SLEEP_DELAY, SLEEP_WAKEUP,   \* in ticks
          Postpone,    \* ticks of a temporary start
          StartMode    \* _p.start_mode: inputs that start a track

Inputs == {"KEY", "SHOCK"}

(* A start takes less time than SLEEP_DELAY: see Tick. *)
ASSUME TrackerAssumption ==
    /\ SLEEP_DELAY \in Nat \ {0, 1} /\ SLEEP_TIMEOUT \in Nat
    /\ SLEEP_WAKEUP \in Nat /\ Postpone \in Nat \ {0}
    /\ SLEEP_DELAY < SLEEP_TIMEOUT /\ SLEEP_TIMEOUT <= SLEEP_WAKEUP
    /\ StartMode \subseteq Inputs

VARIABLES
    inp,      \* the slow task's copy
    seen,     \* app.c: _inp_state
    power,    \* main power present; without it the battery is low as well
    server,   \* the tracer's address: "bad", "name" (unresolved), "ip"
    tr,       \* the static variables of tracer.c
    gps,      \* those of gps.c, and pin: the power of the chip
    slow,     \* where the slow task is
    caller,   \* whose start waits in gps_sleep_enable()
    comm,     \* the comm task: "idle", "reset"
    open      \* the last point stored is not the last one of its track
              \* (history)

inputs == <<inp, seen>>
vars == <<inputs, power, server, tr, gps, slow, caller, comm, open>>

Tracer == [active : BOOLEAN, point : 0 .. 1,
           stop_tmr : {"off", "runs", "due"}, stop_rq : BOOLEAN,
           pending : BOOLEAN, external : BOOLEAN,
           shock_active : BOOLEAN, shock_stop_rq : BOOLEAN,
           shock_tmr : BOOLEAN, no_fix_reset_enable : BOOLEAN]

Gps == [sleep_mode : BOOLEAN, sleep_tmr : 0 .. SLEEP_WAKEUP,
        sleep_postpone : 0 .. Postpone, on : BOOLEAN, pin : BOOLEAN]

TypeOK ==
    /\ inp \subseteq Inputs /\ seen \subseteq Inputs
    /\ power \in BOOLEAN /\ server \in {"bad", "name", "ip"}
    /\ tr \in Tracer /\ gps \in Gps
    /\ slow \in {"get", "KEY", "SHOCK", "shock", "pend", "task",
                 "reset", "wake", "ticked"}
    /\ caller \in {"none", "KEY", "shock", "pend", "test"}
    /\ comm \in {"idle", "reset"} /\ open \in BOOLEAN

(* After gps_init(): asleep, but on for a first position. *)
Init ==
    /\ inp = {} /\ seen = {}
    /\ power = TRUE /\ server \in {"bad", "name"}
    /\ tr = [active |-> FALSE, point |-> 0, stop_tmr |-> "off",
             stop_rq |-> FALSE, pending |-> FALSE, external |-> FALSE,
             shock_active |-> FALSE, shock_stop_rq |-> FALSE,
             shock_tmr |-> FALSE, no_fix_reset_enable |-> TRUE]
    /\ gps = [sleep_mode |-> TRUE, sleep_tmr |-> 0,
              sleep_postpone |-> Postpone, on |-> TRUE, pin |-> TRUE]
    /\ slow = "get" /\ caller = "none" /\ comm = "idle" /\ open = FALSE

-----------------------------------------------------------------------------
(* gps.c *)

(* gps_wakeup(), gps_suspend() *)
Wakeup(g) ==
    IF g.on THEN g ELSE [g EXCEPT !.on = TRUE, !.pin = TRUE]
Suspend(g) == [g EXCEPT !.on = FALSE, !.pin = FALSE]

(* gps_sleep_enable(true) *)
SleepOn(g) ==
    [g EXCEPT !.sleep_mode = TRUE,
              !.sleep_tmr = SLEEP_TIMEOUT - SLEEP_DELAY]

MutSleepOff(g) == Wakeup([g EXCEPT !.sleep_postpone = 0])

(* gps_sleep_enable(false) up to its last line, sleep_mode = state. *)
SleepOff(g) == Wakeup([g EXCEPT !.sleep_tmr = 0, !.sleep_postpone = 0])

(* gps_temporary_start_tmout() *)
Temporary(g) ==
    LET h == [g EXCEPT !.sleep_postpone = Postpone] IN
    IF g.sleep_mode THEN Wakeup([h EXCEPT !.sleep_tmr = 0]) ELSE h

(* gps_tick().  At most one tick falls into a start of the slow task: a     *)
(* start takes less than the 15 seconds of SLEEP_DELAY.                     *)
Tick ==
    LET wait == gps.sleep_postpone > 0
        tmr  == IF wait THEN gps.sleep_tmr ELSE gps.sleep_tmr + 1
        g    == [gps EXCEPT !.sleep_postpone = IF wait THEN @ - 1 ELSE @,
                            !.sleep_tmr =
                                IF tmr > SLEEP_WAKEUP THEN 0 ELSE tmr]
    IN
    /\ gps.sleep_mode /\ slow # "ticked"
    /\ gps' = CASE tmr > SLEEP_WAKEUP  -> Wakeup(g)
                [] tmr = SLEEP_TIMEOUT -> Suspend(g)
                [] OTHER               -> g
    /\ slow' = IF slow = "wake" THEN "ticked" ELSE slow
    /\ UNCHANGED <<inputs, power, server, tr, caller, comm, open>>

MutFix(t) == SLEEP_TIMEOUT - SLEEP_DELAY

(* A position ends the search early. *)
Fix(t) ==
    IF t < SLEEP_TIMEOUT - SLEEP_DELAY THEN SLEEP_TIMEOUT - SLEEP_DELAY
    ELSE t

(* gps_task(): a line with a good checksum comes from a powered chip. *)
Received == gps.pin

(* gps_data_parser(): with a line the record is complete, and has a fix. *)
Nmea ==
    /\ Received /\ gps.sleep_mode
    /\ gps' = [gps EXCEPT !.sleep_tmr = Fix(@)]
    /\ UNCHANGED <<inputs, power, server, tr, slow, caller, comm, open>>

(* gps_maintenance(): gps_reset() switches the power off and on again,      *)
(* whatever gps_pwr_on_state says.                                          *)
Maintenance ==
    /\ comm = "idle" /\ comm' = "reset" /\ gps' = [gps EXCEPT !.pin = FALSE]
    /\ UNCHANGED <<inputs, power, server, tr, slow, caller, open>>

MaintenanceDone ==
    /\ comm = "reset" /\ comm' = "idle" /\ gps' = [gps EXCEPT !.pin = TRUE]
    /\ UNCHANGED <<inputs, power, server, tr, slow, caller, open>>

(* The command GPS=, from the console or by SMS. *)
GpsCommand ==
    /\ gps' = Temporary(gps)
    /\ UNCHANGED <<inputs, power, server, tr, slow, caller, comm, open>>

-----------------------------------------------------------------------------
(* The comm task: tracer_reinit() after a change of the configuration, and  *)
(* the lookup in tracer_comm_process().                                     *)
Reinit ==
    /\ server' \in {"bad", "name"}
    /\ UNCHANGED <<inputs, power, tr, gps, slow, caller, comm, open>>

Resolve ==
    /\ server = "name" /\ server' = "ip"
    /\ UNCHANGED <<inputs, power, tr, gps, slow, caller, comm, open>>

-----------------------------------------------------------------------------
(* tracer.c: start and stop *)

MutCanStart(t) == TRUE

(* tracer_is_active(): SYSTEM_IO_TRACING is set with the first point of a   *)
(* track and cleared with tracing_active, so that tracing_active decides,   *)
(* as long as no other task writes back an old system_io_state (see Io).    *)
CanStart(t) == ~t.active

(* _tracer_start_now() for the caller c, which goes on at pc unless the     *)
(* start waits in gps_sleep_enable().                                       *)
StartNow(t, g, c, pc) ==
    LET u == [t EXCEPT !.stop_rq = FALSE]
        go == t.stop_tmr = "off" /\ CanStart(t) /\ server = "ip"
    IN
    /\ tr' = IF t.stop_tmr # "off" THEN [t EXCEPT !.stop_tmr = "off"]
             ELSE IF ~CanStart(t) THEN u
             ELSE IF go THEN [u EXCEPT !.pending = FALSE]
             ELSE [u EXCEPT !.pending = @ \/ server = "name"]
    /\ IF go THEN slow' = "wake" /\ caller' = c /\ gps' = SleepOff(g)
       ELSE slow' = pc /\ gps' = g /\ UNCHANGED caller

(* The rest of it, and of its callers: tracer_start() marks the start as    *)
(* external, tracer_test() limits the track.                                *)
Started ==
    /\ slow \in {"wake", "ticked"}
    /\ gps' = [gps EXCEPT !.sleep_mode = FALSE]
    /\ tr' = [tr EXCEPT !.active = TRUE, !.point = 0,
                        !.no_fix_reset_enable = TRUE,
                        !.external = @ \/ caller # "shock",
                        !.stop_tmr = IF caller = "test" THEN "runs" ELSE @]
    /\ slow' = CASE caller = "KEY"   -> "SHOCK"
                 [] caller = "shock" -> "task"
                 [] caller = "pend"  -> "task"
                 [] caller = "test"  -> "get"
    /\ caller' = "none"
    /\ UNCHANGED <<inputs, power, server, comm, open>>

(* tracer_deactivate() *)
Deactivated(t) == [t EXCEPT !.active = FALSE, !.stop_rq = FALSE]

(* _tracer_stop_now() *)
StopNow(t) ==
    IF t.active /\ t.point > 0
    THEN tr' = [t EXCEPT !.stop_tmr = "runs"] /\ UNCHANGED gps
    ELSE /\ tr' = IF t.active THEN Deactivated(t) ELSE t
         /\ gps' = SleepOn(gps)

(* tracer_test(), the command DBG=10 of the console. *)
Test ==
    /\ slow = "get" /\ ~tr.active /\ server = "ip"
    /\ IF tr.stop_tmr = "off" THEN StartNow(tr, gps, "test", "get")
       ELSE /\ tr' = [tr EXCEPT !.stop_tmr = "runs"]
            /\ UNCHANGED <<slow, caller, gps>>
    /\ UNCHANGED <<inputs, power, server, comm, open>>

(* tracer_stop_tmr: the wait time is over. *)
Elapse ==
    /\ tr.stop_tmr = "runs" /\ tr' = [tr EXCEPT !.stop_tmr = "due"]
    /\ UNCHANGED <<inputs, power, server, gps, slow, caller, comm, open>>

(* tracer_shock_start_tmr: a minute without enough speed. *)
ShockElapse ==
    /\ tr.shock_tmr /\ tr' = [tr EXCEPT !.shock_tmr = FALSE]
    /\ UNCHANGED <<inputs, power, server, gps, slow, caller, comm, open>>

-----------------------------------------------------------------------------
(* The slow task: _io_input_task() *)

(* What inp_task() may have made of the inputs: any change that lasts       *)
(* passes its filter; without main power it does not look at KEY.           *)
Registered ==
    {s \in SUBSET Inputs : power \/ ("KEY" \in s <=> "KEY" \in seen)}

(* inp_get(), and the inputs that have changed. *)
Get ==
    /\ slow = "get" /\ inp' \in Registered
    /\ slow' = CASE inp' = seen -> "shock"
                 [] inp' \ {"SHOCK"} # seen \ {"SHOCK"} -> "KEY"
                 [] OTHER -> "SHOCK"
    /\ UNCHANGED <<seen, power, server, tr, gps, caller, comm, open>>

(* system_inp_activated(INP_KEY) starts a track when the section is unset,  *)
(* system_inp_deactivated(INP_KEY) stops it.                                *)
Key ==
    /\ slow = "KEY"
    /\ \/ /\ "KEY" \in (inp \ seen) \cap StartMode
          /\ StartNow(tr, gps, "KEY", "SHOCK")
       \/ /\ "KEY" \in seen \ inp
          /\ StopNow([tr EXCEPT !.pending = FALSE, !.external = FALSE])
          /\ slow' = "SHOCK" /\ UNCHANGED caller
       \/ /\ "KEY" \in inp \ seen      \* the section is not unset
          /\ slow' = "SHOCK" /\ UNCHANGED <<tr, gps, caller>>
    /\ UNCHANGED <<inputs, power, server, comm, open>>

(* No main power, and the battery is low. *)
tracer_power_stop == ~power

(* tracer_shock_start(state) *)
ShockStart(t, state) ==
    IF state
    THEN IF "SHOCK" \notin StartMode THEN t
         ELSE [t EXCEPT !.shock_tmr =
                            @ \/ (~t.shock_active /\ ~tracer_power_stop),
                        !.shock_stop_rq = FALSE]
    ELSE [t EXCEPT !.shock_stop_rq = @ \/ t.shock_active]

Shock ==
    /\ slow = "SHOCK" /\ slow' = "shock" /\ seen' = inp
    /\ \/ "SHOCK" \in inp \ seen /\ tr' = ShockStart(tr, TRUE)
       \/ "SHOCK" \in seen \ inp /\ tr' = ShockStart(tr, FALSE)
       \/ "SHOCK" \notin seen \ inp /\ UNCHANGED tr
    /\ UNCHANGED <<inp, power, server, gps, caller, comm, open>>

(* power_task(): SYSTEM_INT_POWER_FAIL with a low battery. *)
PowerTask ==
    /\ slow = "shock" /\ power' = ~power
    /\ UNCHANGED <<inputs, server, tr, gps, slow, caller, comm, open>>

-----------------------------------------------------------------------------
(* tracer_task() *)

(* Where tracer_task() goes on after tracer_shock_task(). *)
Onward(t) == IF t.pending THEN "pend" ELSE IF t.active THEN "task" ELSE "get"

(* tracer_shock_task(): wait for speed after a shock, and for its absence   *)
(* when the shock is over.                                                  *)
ShockTask ==
    LET idle == slow' = Onward(tr) /\ UNCHANGED <<tr, gps, caller>>
        ended == [tr EXCEPT !.shock_active = FALSE]
        begun == [tr EXCEPT !.shock_active = TRUE, !.shock_tmr = FALSE]
    IN
    /\ slow = "shock"
    /\ \/ /\ tr.external
          /\ idle
       \/ /\ ~tr.external /\ tracer_power_stop
          /\ IF tr.shock_active
             THEN StopNow(ended) /\ slow' = Onward(tr') /\ UNCHANGED caller
             ELSE idle
       \/ /\ ~tr.external /\ ~tracer_power_stop /\ tr.shock_tmr
          /\ \/ /\ gps' = Temporary(gps)
                /\ slow' = Onward(tr) /\ UNCHANGED <<tr, caller>>
             \/ gps.on /\ StartNow(begun, Temporary(gps), "shock", Onward(tr'))
       \/ /\ ~tr.external /\ ~tracer_power_stop /\ ~tr.shock_tmr
          /\ \/ /\ tr.shock_stop_rq
                /\ StopNow([ended EXCEPT !.shock_stop_rq = FALSE])
                /\ slow' = Onward(tr') /\ UNCHANGED caller
             \/ (tr.shock_stop_rq => gps.on) /\ idle
    /\ UNCHANGED <<inputs, power, server, comm, open>>

(* tracer_start_pending: the server is resolved now, or no longer there. *)
Pend ==
    /\ slow = "pend"
    /\ IF tr.pending /\ server = "ip"
       THEN StartNow([tr EXCEPT !.pending = FALSE], gps, "pend", "task")
       ELSE /\ tr' = [tr EXCEPT !.pending = @ /\ server # "bad"]
            /\ slow' = "task" /\ UNCHANGED <<gps, caller>>
    /\ UNCHANGED <<inputs, power, server, comm, open>>

MutAsked(t) == IF t.stop_tmr = "due" THEN [t EXCEPT !.stop_tmr = "off"] ELSE t

(* The wait time of a stop is over: the next point is the last one. *)
Asked(t) ==
    IF t.stop_tmr = "due" THEN [t EXCEPT !.stop_tmr = "off", !.stop_rq = TRUE]
    ELSE t

(* No track, or no time for a point yet. *)
NoPoint ==
    /\ slow = "task" /\ slow' = "get"
    /\ tr' = IF tr.active THEN Asked(tr) ELSE tr
    /\ UNCHANGED <<inputs, power, server, gps, caller, comm, open>>

(* tracer_new_point(), with TRACER_FLAG_LAST when a stop was asked for, and *)
(* the end of the track.                                                    *)
NewPoint ==
    LET t == [Asked(tr) EXCEPT !.point = 1] IN
    /\ slow = "task" /\ tr.active /\ slow' = "get"
    /\ open' = ~t.stop_rq
    /\ IF t.stop_rq THEN tr' = Deactivated(t) /\ gps' = SleepOn(gps)
       ELSE tr' = t /\ UNCHANGED gps
    /\ UNCHANGED <<inputs, power, server, caller, comm>>

(* One reset of the GPS in a track, 30 or 100 seconds after its start       *)
(* (track_last_fix_tmr); then the point.                                    *)
Reset ==
    /\ slow = "task" /\ tr.active /\ tr.no_fix_reset_enable
    /\ tr' = [Asked(tr) EXCEPT !.no_fix_reset_enable = FALSE]
    /\ gps' = [gps EXCEPT !.pin = FALSE] /\ slow' = "reset"
    /\ UNCHANGED <<inputs, power, server, caller, comm, open>>

ResetDone ==
    /\ slow = "reset" /\ slow' = "task"
    /\ gps' = [gps EXCEPT !.pin = TRUE]
    /\ UNCHANGED <<inputs, power, server, tr, caller, comm, open>>

-----------------------------------------------------------------------------
Goes == \/ Get \/ Key \/ Shock \/ ShockTask \/ Pend \/ Started
        \/ NoPoint \/ NewPoint \/ Reset \/ ResetDone

Next ==
    \/ Tick \/ Nmea \/ Maintenance \/ MaintenanceDone \/ GpsCommand
    \/ Reinit \/ Resolve \/ Test \/ Elapse \/ ShockElapse \/ PowerTask
    \/ Goes

Spec == Init /\ [][Next]_vars

(* Every task goes on, time passes, and points become due. *)
FairSpec ==
    /\ Spec
    /\ WF_vars(Goes) /\ SF_vars(NewPoint) /\ WF_vars(Elapse)
    /\ WF_vars(Tick) /\ WF_vars(MaintenanceDone)

-----------------------------------------------------------------------------
(* gps_tick() may come between any two lines of a start, and the comm task  *)
(* resets the GPS at any time: while a track is recorded the GPS is awake,  *)
(* and powered but for a reset.                                             *)
GpsOnWhileTracking ==
    tr.active => /\ gps.on /\ ~gps.sleep_mode
                 /\ gps.pin \/ slow = "reset" \/ comm = "reset"

(* Whatever starts, stops, cancels a stop or loses power: a track that has  *)
(* points stays active until a point with TRACER_FLAG_LAST ends it, and no  *)
(* other track begins before.                                               *)
TracksClosed == open => tr.active /\ tr.point = 1

(* The GPS is not left on: when the inputs are quiet, and unless a track or *)
(* a temporary start needs it, it is suspended again and again, also after  *)
(* a reset powered it in its sleep, and with positions coming all the time. *)
GpsSleeps ==
    <>[](inp = seen) =>
        []<>(\/ ~gps.on /\ ~gps.pin
             \/ tr.active \/ gps.sleep_postpone > 0)

(* A stop that was asked for ends the track, whatever happens in its wait   *)
(* time, unless KEY or a shock calls for the track again.                   *)
StopEndsTrack ==
    (tr.stop_tmr # "off" \/ tr.stop_rq)
        ~> (~tr.active \/ "KEY" \in seen \/ tr.shock_active)

(* Not so, and in no configuration: tracer.c:60, ignition starts a track:   *)
(* whenever a start was taken for the end of a stop's wait, there was a     *)
(* track to go on with.                                                     *)
KeyStartsTrack ==
    [][slow = "KEY" /\ slow' = "SHOCK" /\ tr.stop_tmr # "off"
         /\ tr'.stop_tmr = "off" => tr.active]_vars
=============================================================================
