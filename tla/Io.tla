--------------------------------- MODULE Io ---------------------------------
(***************************************************************************)
(* The unit's wires: filtered inputs (inp.c), outputs (out.c), main power  *)
(* and backup battery (power.c), and the word system_io_state between them *)
(* (system.c).                                                             *)
(*                                                                         *)
(* The fast task scans the inputs; the slow task goes round through        *)
(* _io_input_task(), _io_output_task() and power_task(); the timer task    *)
(* switches the siren and the comm task pulses the lock and remaps the     *)
(* outputs, each in the middle of what the slow task does.  A unit with    *)
(* neither main power nor a connected battery is off, and starts again     *)
(* from nothing.                                                           *)
(*                                                                         *)
(* Voltages are levels: a threshold is a level, and the level itself is    *)
(* the band of its hysteresis.  Times of power.c are passes of power_task, *)
(* times of inp.c are scans.                                               *)
(***************************************************************************)
EXTENDS Integers, Sequences

CONSTANTS
    Inputs, Powered, Instant,  \* all; those that need main power; unfiltered
    OUTS,                      \* the output pins in their order
    INP_LIMIT, INP_LIMIT_DACT, \* scans before a change is registered
    ONE_GAP, TWO_GAP,          \* 10 s and 15 s after the end of charging
    BATT_TEST_TM,              \* between two tests of the battery
    FAIL_FILTER, OK_FILTER,    \* passes before power is reported
    Cases      \* what the environment does: sets of levels, see Init

ASSUME IoAssumption ==
    /\ Powered \subseteq Inputs /\ Instant \subseteq Inputs
    /\ INP_LIMIT \in Nat /\ INP_LIMIT_DACT \in Nat
    /\ ONE_GAP \in Nat /\ TWO_GAP \in Nat /\ ONE_GAP < TWO_GAP
    /\ BATT_TEST_TM \in Nat /\ FAIL_FILTER \in Nat /\ OK_FILTER \in Nat

\* Main source: 7 V, 8 V, 12.6 V.  Battery: 2.0, 2.8, 3.2, 4.0 V.
V_INP == 1
V_VCC_LOST == 2
V_VCC_CHARGE_EN == 4
V_BATT_CONNECTED == 1
V_BATT_EMPTY == 3
V_BATT_OK == 4
V_BATT_FULL == 5

Pins == {OUTS[k] : k \in DOMAIN OUTS}
(* The bit of system_io_state shown at each pin: _out_table_default. *)
Default == [p \in Pins |-> p]

VARIABLES
    case, main, batt, level,   \* the environment: its plan, two voltages
                               \* and the inputs that are pulled
    up,                        \* the unit runs
    inp,      \* inp.c: state, check (needed), hold (filter), enabled
    bypass,   \* inp.c: _inp_bypass
    io,       \* system.c: system_io_state
    out,      \* out.c: state, table, and hw: the pins that are driven
    pw,       \* power.c, and load: the test load of the battery
    flags,    \* system.c: system_int_state
    seen,     \* app.c: _inp_state
    pc, loc,  \* the slow task, and its local variables
    comm,     \* the comm task: "idle", "lock", "pull", "remap"
    fresh,    \* pins that another task has switched: 2, and 1 in the next
              \* pass of the slow task until that has come to the pin (history)
    twice     \* pins whose last switching came before that (history)

env == <<case, main, batt, level>>
wires == <<inp, bypass, io, out, seen>>
slow == <<pc, loc>>
turns == <<fresh, twice>>
vars == <<env, up, wires, pw, flags, slow, comm, turns>>

Nobody == [rd |-> {}, k |-> 1, want |-> FALSE, cp |-> {}, vm |-> 0]

TypeOK ==
    /\ case \in Cases /\ main \in 0 .. 5 /\ batt \in 0 .. 6
    /\ level \subseteq Inputs /\ up \in BOOLEAN
    /\ inp \in [state : SUBSET Inputs, check : SUBSET Inputs,
                hold : [Inputs -> 0 .. INP_LIMIT + INP_LIMIT_DACT],
                enabled : BOOLEAN]
    /\ bypass \subseteq Inputs /\ io \subseteq Pins \cup Inputs
    /\ out.state \subseteq Pins /\ out.hw \subseteq Pins
    /\ out.table \in [Pins -> Pins \cup Inputs]
    /\ pw \in [init : BOOLEAN, charging : BOOLEAN, connected : BOOLEAN,
               ok : BOOLEAN, filter : 0 .. OK_FILTER,
               done : 0 .. TWO_GAP, conn : 0 .. ONE_GAP,
               test : 0 .. BATT_TEST_TM, load : BOOLEAN]
    /\ flags \subseteq {"POWER_FAIL", "BATT_FAIL"} /\ seen \subseteq Inputs
    /\ pc \in {"inp", "clear", "edges", "store", "out", "drive", "mark",
               "power", "ref", "load"}
    /\ comm \in {"idle", "lock", "pull", "remap"}
    /\ fresh \in [Pins -> 0 .. 2] /\ twice \subseteq Pins

(* Pulled by the vehicle, or by the unit's own lock output on that wire. *)
Active(i) == i \in level \cup out.hw

-----------------------------------------------------------------------------
(* Start of the unit: power_init(), inp_init(), out_init(), app.c *)

PwInit ==
    [init |-> TRUE, charging |-> FALSE, connected |-> FALSE, ok |-> FALSE,
     filter |-> 0, done |-> 0, conn |-> 0, test |-> BATT_TEST_TM,
     load |-> FALSE]

InpInit(lv) ==
    [state |-> lv, check |-> {}, hold |-> [i \in Inputs |-> 0],
     enabled |-> FALSE]

Reset(lv) ==
    /\ inp' = InpInit(lv) /\ bypass' = {} /\ io' = {} /\ seen' = lv
    /\ out' = [state |-> {}, table |-> out.table, hw |-> {}]
    /\ pw' = PwInit /\ flags' = {} /\ pc' = "inp" /\ loc' = Nobody
    /\ comm' = "idle" /\ fresh' = [p \in Pins |-> 0] /\ twice' = {}

Init ==
    /\ case \in Cases
    /\ main \in case.main /\ batt \in case.batt /\ level \in case.level
    /\ up = TRUE /\ main > V_VCC_LOST
    /\ inp = InpInit(level) /\ bypass = {} /\ io = {} /\ seen = level
    /\ out = [state |-> {}, table |-> Default, hw |-> {}]
    /\ pw = PwInit /\ flags = {} /\ pc = "inp" /\ loc = Nobody
    /\ comm = "idle" /\ fresh = [p \in Pins |-> 0] /\ twice = {}

(* The vehicle. *)
World ==
    /\ main' \in case.main /\ batt' \in case.batt /\ level' \in case.level
    /\ UNCHANGED <<case, up, wires, pw, flags, slow, comm, turns>>

(* No source is left: everything in memory is gone. *)
Off ==
    /\ up /\ main < V_INP /\ (pw.connected => batt < V_BATT_CONNECTED)
    /\ up' = FALSE /\ Reset(level)
    /\ UNCHANGED env

Boot ==
    /\ ~up /\ main > V_VCC_LOST
    /\ up' = TRUE /\ Reset(level)
    /\ UNCHANGED env

-----------------------------------------------------------------------------
(* inp.c *)

Limit(i) == IF i \in Instant THEN 0 ELSE INP_LIMIT
LimitDact(i) == IF i \in Instant THEN 0 ELSE INP_LIMIT_DACT

(* The inputs inp_task() looks at. *)
Looked ==
    {i \in Inputs \ bypass : i \in Powered => inp.enabled /\ main >= V_INP}

(* _inp_active(), _inp_inactive(): a change lasted for its limit, and the  *)
(* one before it has been read.                                            *)
Due(i, h) == h = 0 /\ i \notin inp.check

(* inp_task(), one scan *)
Scanned ==
    LET h == [i \in Inputs |-> IF inp.hold[i] = 0 THEN 0 ELSE inp.hold[i] - 1]
        chg == {i \in Looked : Active(i) # (i \in inp.state) /\ Due(i, h[i])}
        same == {i \in Looked : Active(i) = (i \in inp.state)}
    IN  [inp EXCEPT
          !.state = (@ \ chg) \cup {i \in chg : Active(i)},
          !.check = @ \cup chg,
          !.hold = [i \in Inputs |->
             CASE i \in same -> IF i \in inp.state THEN LimitDact(i)
                                ELSE Limit(i)
               [] i \in chg -> IF Active(i) THEN Limit(i) ELSE LimitDact(i)
               [] OTHER -> h[i]]]

Scan ==
    /\ up /\ inp' = Scanned
    /\ UNCHANGED <<env, up, bypass, io, out, seen, pw, flags, slow, comm,
                   turns>>

(* inp_get() first reads the state, ... *)
Get ==
    /\ up /\ pc = "inp"
    /\ loc' = [loc EXCEPT !.rd = inp.state] /\ pc' = "clear"
    /\ fresh' = [p \in Pins |-> IF fresh[p] = 2 THEN 1 ELSE fresh[p]]
    /\ UNCHANGED <<env, up, wires, pw, flags, comm, twice>>

MutRead == UNCHANGED inp

(* ... then takes note of it, whatever was registered meanwhile. *)
Read == inp' = [inp EXCEPT !.check = {}]

(* _io_input_task(): nothing to do without a change. *)
GotInputs ==
    /\ pc' = IF loc.rd = seen THEN "out" ELSE "edges"
    /\ loc' = IF loc.rd = seen THEN Nobody ELSE loc

Clear ==
    /\ up /\ pc = "clear" /\ Read
    /\ GotInputs
    /\ UNCHANGED <<env, up, bypass, io, out, seen, pw, flags, comm, turns>>

(* The scan registers a change in the middle of that clearing: it writes   *)
(* back what was cleared.                                                  *)
ClearLost ==
    /\ up /\ pc = "clear" /\ Scanned.check # inp.check
    /\ inp' = Scanned
    /\ GotInputs
    /\ UNCHANGED <<env, up, bypass, io, out, seen, pw, flags, comm, turns>>

(* system_inp_activated(), system_inp_deactivated(): system_io_state is    *)
(* read, ...                                                               *)
Edges ==
    /\ up /\ pc = "edges"
    /\ loc' = [loc EXCEPT !.cp = io] /\ pc' = "store"
    /\ UNCHANGED <<env, up, wires, pw, flags, comm, turns>>

(* What is switched should not be switched again before the slow task has  *)
(* come to it.                                                             *)
Wanted(p) == out.table[p] \in io
Turned(S) ==
    /\ twice' = (twice \ S) \cup {p \in S : fresh[p] # 0}
    /\ fresh' = [p \in Pins |-> IF p \in S THEN 2 ELSE fresh[p]]

(* ... and written, which takes back what another task has switched in     *)
(* between.  LOCK and UNLOCK have no bit of their own.                     *)
Store ==
    /\ up /\ pc = "store"
    /\ io' = (loc.cp \ (Inputs \ Pins)) \cup (loc.rd \ Pins)
    /\ seen' = loc.rd /\ pc' = "out" /\ loc' = Nobody
    /\ UNCHANGED <<env, up, inp, bypass, out, pw, flags, comm>>
    /\ Turned({p \in Pins : out.table[p] \in Pins /\ Wanted(p)' # Wanted(p)})

-----------------------------------------------------------------------------
(* out.c *)

(* out_set(): LOCK and UNLOCK are blocked while the other wire is active. *)
Blocked(p) ==
    \/ p = "LOCK" /\ Active("UNLOCK")
    \/ p = "UNLOCK" /\ Active("LOCK")

(* out_update() of a task that is not interrupted by the slow one.         *)
(* A pin blocked by the other one is decided in the order of the pins:     *)
(* LOCK comes first.                                                       *)
Shown(word, o) ==
    LET offs == {p \in o.state : o.table[p] \notin word}
        ons == {p \in Pins \ o.state : o.table[p] \in word /\ ~Blocked(p)}
        on == IF {"LOCK", "UNLOCK"} \subseteq ons THEN ons \ {"UNLOCK"}
              ELSE ons
    IN  [o EXCEPT !.hw = (@ \ offs) \cup on, !.state = (@ \ offs) \cup on]

(* Another task writes the outputs. *)
Writes == Turned({p \in Pins : \/ Wanted(p)' # Wanted(p)
                              \/ (p \in out'.hw) # (p \in out.hw)})

(* The timer task: system_io_activate(), system_io_deactivate(). *)
Siren ==
    /\ up /\ case.siren
    /\ \E word \in {io \cup {"SIREN"}, io \ {"SIREN"}} :
          io' = word /\ out' = Shown(word, out)
    /\ Writes
    /\ UNCHANGED <<env, up, inp, bypass, seen, pw, flags, slow, comm>>

(* _cmd_lock(): the lock input is bypassed for the pulse, ... *)
Lock ==
    /\ up /\ case.lock /\ comm = "idle"
    /\ bypass' = bypass \cup {"LOCK"} /\ comm' = "lock"
    /\ io' = io \cup {"LOCK"} /\ out' = Shown(io', out) /\ Writes
    /\ UNCHANGED <<env, up, inp, seen, pw, flags, slow>>

(* ... which ends, ... *)
Unlock ==
    /\ up /\ comm = "lock"
    /\ comm' = "pull" /\ io' = io \ {"LOCK"} /\ out' = Shown(io', out)
    /\ Writes
    /\ UNCHANGED <<env, up, inp, bypass, seen, pw, flags, slow>>

(* ... and for the pull-up resistor. *)
Pull ==
    /\ up /\ comm = "pull"
    /\ bypass' = bypass \ {"LOCK"} /\ comm' = "idle"
    /\ UNCHANGED <<env, up, inp, io, out, seen, pw, flags, slow, turns>>

(* out_table_reinit(): first the defaults, ... *)
Remap ==
    /\ up /\ comm = "idle" /\ case.maps # {out.table}
    /\ out' = [out EXCEPT !.table = Default] /\ comm' = "remap"
    /\ UNCHANGED <<env, up, inp, bypass, io, seen, pw, flags, slow, turns>>

(* ... then what the configuration says. *)
Remapped ==
    /\ up /\ comm = "remap" /\ comm' = "idle"
    /\ \E t \in case.maps : out' = Shown(io, [out EXCEPT !.table = t])
    /\ UNCHANGED <<env, up, inp, bypass, io, seen, pw, flags, slow>>
    /\ Writes

(* _io_output_task(): out_set() of one pin decides, ... *)
OutSet ==
    /\ up /\ pc = "out"
    /\ LET p == OUTS[loc.k]
           want == Wanted(p)
           act == want # (p \in out.state) /\ (want => ~Blocked(p))
           last == loc.k = Len(OUTS)
       IN  /\ fresh' = IF fresh[p] = 1 /\ (want => ~Blocked(p))
                       THEN [fresh EXCEPT ![p] = 0] ELSE fresh
           /\ loc' = IF act THEN [loc EXCEPT !.want = want]
                     ELSE [Nobody EXCEPT !.k = IF last THEN 1 ELSE loc.k + 1]
           /\ pc' = IF act THEN "drive" ELSE IF last THEN "power" ELSE "out"
    /\ UNCHANGED <<env, up, wires, pw, flags, comm, twice>>

MutMarked(s, p, on) == IF on THEN s \cup {p} ELSE s

(* The bit of a pin in _out_state. *)
Marked(s, p, on) == IF on THEN s \cup {p} ELSE s \ {p}

(* ... drives the pin and reads _out_state, ... *)
Drive ==
    /\ up /\ pc = "drive"
    /\ out' = [out EXCEPT !.hw = IF loc.want THEN @ \cup {OUTS[loc.k]}
                                   ELSE @ \ {OUTS[loc.k]}]
    /\ loc' = [loc EXCEPT !.cp = out.state] /\ pc' = "mark"
    /\ UNCHANGED <<env, up, inp, bypass, io, seen, pw, flags, comm, turns>>

(* ... and writes it back. *)
Mark ==
    /\ up /\ pc = "mark"
    /\ out' = [out EXCEPT !.state = Marked(loc.cp, OUTS[loc.k], loc.want)]
    /\ LET last == loc.k = Len(OUTS)
       IN  /\ loc' = [Nobody EXCEPT !.k = IF last THEN 1 ELSE loc.k + 1]
           /\ pc' = IF last THEN "power" ELSE "out"
    /\ UNCHANGED <<env, up, inp, bypass, io, seen, pw, flags, comm, turns>>

-----------------------------------------------------------------------------
(* power.c *)

ChargingOn(p) ==
    IF p.done < ONE_GAP THEN p ELSE [p EXCEPT !.charging = TRUE]

ChargingOff(p) ==
    IF p.charging THEN [p EXCEPT !.charging = FALSE, !.conn = ONE_GAP] ELSE p

Connect(p) ==
    IF p.conn > 0 THEN p ELSE [p EXCEPT !.connected = TRUE]
Disconnect(p) == [p EXCEPT !.connected = FALSE]

(* A charging that ends soon after the one before it has failed. *)
Charged(p) ==
    IF main < V_VCC_CHARGE_EN \/ batt > V_BATT_FULL
    THEN [ChargingOff(IF p.done < TWO_GAP THEN Disconnect(p) ELSE p)
             EXCEPT !.done = 0]
    ELSE p

MutIdle(p) ==
    IF main > V_VCC_CHARGE_EN /\ batt < V_BATT_FULL THEN ChargingOn(p)
    ELSE p

(* Not charging: start it, or save an empty battery. *)
Idle(p) ==
    IF main > V_VCC_CHARGE_EN /\ batt < V_BATT_FULL THEN ChargingOn(p)
    ELSE IF batt < V_BATT_EMPTY /\ ~p.ok THEN Disconnect(p)
    ELSE p

Battery(p) ==
    IF p.connected THEN IF p.charging THEN Charged(p) ELSE Idle(p)
    ELSE IF batt > V_BATT_CONNECTED /\ p.ok THEN Connect(p)
    ELSE p

(* The time of one period has passed. *)
Aged(p) ==
    [p EXCEPT !.done = IF @ = TWO_GAP THEN @ ELSE @ + 1,
              !.conn = IF @ = 0 THEN 0 ELSE @ - 1,
              !.test = IF @ = 0 THEN 0 ELSE @ - 1]

(* _bat_set_state() *)
BatState(good) ==
    IF good THEN flags \ {"BATT_FAIL"} ELSE flags \cup {"BATT_FAIL"}

PowerOk(p, vm) == IF p.ok THEN vm >= V_VCC_LOST ELSE vm > V_VCC_LOST

(* The rest of power_task(), with the voltage read at its beginning: the   *)
(* inputs, and the report of a change that lasts.                          *)
Report(p, fl, vm) ==
    LET ok == PowerOk(p, vm)
        same == ("POWER_FAIL" \notin fl) = ok
        due == p.filter + 1 >= (IF ok THEN OK_FILTER ELSE FAIL_FILTER)
    IN  /\ inp' = [inp EXCEPT !.enabled = IF ok = p.ok THEN @ ELSE ok]
        /\ pw' = [p EXCEPT !.ok = ok, !.filter = IF same THEN 0
                              ELSE IF @ < OK_FILTER THEN @ + 1 ELSE @]
        /\ flags' = IF same \/ ~due THEN fl
                    ELSE IF ok THEN fl \ {"POWER_FAIL"}
                    ELSE fl \cup {"POWER_FAIL"}
        /\ pc' = "inp"

(* power_task(): waits for a source, ... *)
PowerInit ==
    /\ up /\ pc = "power" /\ pw.init
    /\ pw' = [Aged(pw) EXCEPT
                !.init = batt < V_BATT_CONNECTED /\ main < V_VCC_LOST]
    /\ pc' = "inp"
    /\ UNCHANGED <<env, up, wires, flags, loc, comm, turns>>

(* ... then looks after the battery and starts a test that is due. *)
PowerTask ==
    /\ up /\ pc = "power" /\ ~pw.init
    /\ LET b == Battery(Aged(pw))
           p == IF ~pw.connected THEN b
                ELSE IF ~b.ok \/ b.test = 0
                     THEN [b EXCEPT !.test = BATT_TEST_TM] ELSE b
           test == pw.connected /\ b.ok /\ b.test = 0
       IN  IF test /\ batt >= V_BATT_OK
           THEN /\ pw' = ChargingOff(p) /\ pc' = "ref"
                /\ loc' = [loc EXCEPT !.vm = main]
                /\ UNCHANGED <<inp, flags>>
           ELSE /\ Report(p, IF test THEN BatState(FALSE) ELSE flags, main)
                /\ UNCHANGED loc
    /\ UNCHANGED <<env, up, bypass, io, out, seen, comm, turns>>

(* _batt_test() after its first delay: the load goes on, ... *)
TestRef ==
    /\ up /\ pc = "ref"
    /\ IF batt < V_BATT_OK
       THEN /\ Report(pw, BatState(FALSE), loc.vm)
            /\ loc' = [loc EXCEPT !.vm = 0]
       ELSE /\ pw' = [pw EXCEPT !.load = TRUE] /\ pc' = "load"
            /\ UNCHANGED <<inp, flags, loc>>
    /\ UNCHANGED <<env, up, bypass, io, out, seen, comm, turns>>

(* ... and off: the voltage dropped or it did not. *)
TestLoad ==
    /\ up /\ pc = "load"
    /\ \E good \in BOOLEAN :
          Report([pw EXCEPT !.load = FALSE], BatState(good), loc.vm)
    /\ loc' = [loc EXCEPT !.vm = 0]
    /\ UNCHANGED <<env, up, bypass, io, out, seen, comm, turns>>

-----------------------------------------------------------------------------
Slow ==
    \/ Get \/ Clear \/ ClearLost \/ Edges \/ Store
    \/ OutSet \/ Drive \/ Mark
    \/ PowerInit \/ PowerTask \/ TestRef \/ TestLoad

Next ==
    \/ World \/ Off \/ Boot \/ Scan \/ Slow
    \/ Siren \/ Lock \/ Unlock \/ Pull \/ Remap \/ Remapped

Spec == Init /\ [][Next]_vars

(* The tasks run periodically, a command goes on, a unit without a source  *)
(* dies and a supplied one boots; the vehicle, the siren and new commands  *)
(* owe nothing.                                                            *)
FairSpec ==
    /\ Spec /\ WF_vars(Off) /\ WF_vars(Boot)
    /\ WF_vars(Scan) /\ WF_vars(Slow)
    /\ WF_vars(Unlock \/ Pull \/ Remapped)

-----------------------------------------------------------------------------
(* An input that stays as it is, and can be looked at, is seen by the slow *)
(* task as it is: after any race of inp_task() with inp_get(), any power   *)
(* loss and any bypass.                                                    *)
InputsFollow ==
    \A i \in Inputs, b \in BOOLEAN :
       <>[](up /\ Active(i) = b /\ i \notin bypass
               /\ (i \in Powered => main > V_VCC_LOST))
          => <>[]((i \in seen) = b)

(* Whatever the races on _out_state, a pin follows its bit of              *)
(* system_io_state once that is stable and the pin is not blocked, unless  *)
(* it was switched twice before the slow task came to it in the pass after *)
(* (a lock pulse in a pass of 400 ms or more, or one that is blocked).     *)
OutputsFollow ==
    \A p \in Pins, b \in BOOLEAN :
       <>[](up /\ Wanted(p) = b /\ (b => ~Blocked(p)) /\ p \notin twice)
          => <>[]((p \in out.hw) = b)

(* A loss or a return of main power that lasts is reported, and an empty   *)
(* battery without main power is not drained further (power_task()).       *)
PowerTold ==
    /\ <>[](up /\ main < V_VCC_LOST) => <>[]("POWER_FAIL" \in flags)
    /\ <>[](up /\ main > V_VCC_LOST) => <>[]("POWER_FAIL" \notin flags)
    /\ <>[](up /\ main < V_VCC_LOST /\ batt < V_BATT_EMPTY)
          => <>[](~pw.connected)

(* Not so, and in no configuration: what the timer task did to the siren   *)
(* stays done.  An input edge writes back a system_io_state that was read  *)
(* before.                                                                 *)
SirenObeyed == [][Store => ("SIREN" \in io') = ("SIREN" \in io)]_vars
=============================================================================
