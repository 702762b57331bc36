---------------------------- MODULE AlarmSystem -----------------------------
(***************************************************************************)
(* The arming core: one section (app/section.c), its inputs                *)
(* (app/system_input.c), the alarm and siren (app/alarm.c) and the glue    *)
(* that commands and events go through (app/system.c, app/app.c).          *)
(*                                                                         *)
(* Four tasks share this state without a lock:                             *)
(*   timer  100 ms, high priority: siren beeps, input postponement, alarm  *)
(*          and siren timers;                                              *)
(*   fast   10 ms: section_task(), the exit and entry delay;               *)
(*   slow   10 ms: input edges, event_task(), UART and BLE commands;       *)
(*   comm   100 ms: SMS commands.                                          *)
(* fast, slow and comm have one priority and preempt each other; timer     *)
(* preempts them all.  A handler is cut into steps at the calls where its  *)
(* task logs, delays or waits for a semaphore; between two such calls it   *)
(* is taken to run undisturbed.                                            *)
(*                                                                         *)
(* Timers count 100 ms ticks.  Of the event FIFO (module EventQueue) only  *)
(* the number of EVENT_ID_ALARM events that wait is kept: system_event()   *)
(* answers the others with the LED only.                                   *)
(***************************************************************************)
EXTENDS Naturals, FiniteSets

CONSTANTS
  DelayInputs,    \* input numbers with ALARM_REACTION_DELAY
  InstantInputs,  \* input numbers with ALARM_REACTION_INSTANT
  Commanders,     \* the tasks that receive SET/UNSET: "slow", "comm"
  TmOut, TmIn,    \* exit and entry delay
  Postpone,       \* ticks an input must wait before it is signalled
  AlarmMaxCnt,    \* ALARM_MAX_CNT, activations counted per input
  SirenTime,      \* _SIREN_TIME
  AlarmTime,      \* _ALARM_TIME
  AlarmsMax,      \* _ALARMS_MAX
  MaxPending,     \* bound: waiting ALARM events
  Resets,         \* may the unit lose power or be reset?
  NoInput         \* NULL

Inputs == DelayInputs \cup InstantInputs

ASSUME InputsAssumption ==
  /\ Inputs \subseteq Nat
  /\ DelayInputs \cap InstantInputs = {}
  /\ IsFiniteSet(Inputs)
  /\ NoInput \notin Inputs
ASSUME CommandersAssumption == Commanders \subseteq {"slow", "comm"}
ASSUME TimesAssumption ==
  /\ TmOut \in Nat \ {0} /\ TmIn \in Nat \ {0} /\ Postpone \in Nat \ {0}
  /\ SirenTime \in Nat \ {0} /\ AlarmTime \in Nat /\ SirenTime < AlarmTime
ASSUME LimitsAssumption ==
  /\ AlarmMaxCnt \in Nat /\ AlarmsMax \in Nat /\ MaxPending \in Nat
  /\ Resets \in BOOLEAN

VARIABLES
  state,      \* section.data.state
  timer,      \* section.data.timer: 0 is "not running", k is k-1 ticks left
  flags,      \* section.data.flags (SECTION_FLAG_ALARM is never read)
  alarm_inp,  \* section.data.alarm_inp
  itmr, icnt, \* _sys_inp[].tmr, _sys_inp[].cnt
  pending,    \* EVENT_ID_ALARM events in the primary event buffer
  astate,     \* alarm.c _state
  atmr, acnt, \* _alarm_tmr, _alarm_cnt
  siren, stmr,\* _siren_state, _siren_tmr
  io,         \* what system_io_activate()/system_io_deactivate() was last
              \* called for with SYSTEM_IO_SIREN (the word they share: Io)
  beeps,      \* beeps left in the siren's LED-machine sequence
  tpc,        \* timer task: inside the delay of _siren_beep()?
  fpc,        \* fast task: inside section_task()
  spc,        \* slow task: inside alarm_trigger()
  cpc,        \* where each commander is inside system_set()/system_unset()
  cval,       \* its buf: the state formatted by _save_state()
  after,      \* its after_alarm
  saved,      \* CFG_ID_STATE as cfg_read() returns it
  flash,      \* CFG_ID_STATE as it survives a reset
  stale,      \* history: commanders that formatted the state before another
              \* one stored a new state in the section
  old,        \* history: the last _save_state() was by such a commander
  armed,      \* history: the section was set since the last boot
  rings       \* history: times the siren started since the last alarm_stop()

section == <<state, timer, flags, alarm_inp>>
inputs  == <<itmr, icnt>>
alarm   == <<astate, atmr, acnt, siren, stmr, rings>>
output  == <<io, beeps, tpc>>
command == <<cpc, cval, after>>
storage == <<saved, flash, stale, old>>
vars == <<section, inputs, pending, alarm, output, fpc, spc, command, storage,
          armed>>

States == {"UNSET", "SET"}

\* i is the lowest input number of S: inputs are scanned upwards.
First(S, i) == i \in S /\ \A j \in S : i <= j

Quiet == \A c \in Commanders : cpc[c] = "idle"

\* Memory after app_main_init(): section_init(), system_input_init(),
\* alarm_init(); the section's state is the one read from CFG_ID_STATE.
Boot(s) ==
  /\ state = s
  /\ timer = 0 /\ flags = {} /\ alarm_inp = NoInput
  /\ itmr = [i \in Inputs |-> 0] /\ icnt = [i \in Inputs |-> 0]
  /\ pending = 0
  /\ astate = "IDLE" /\ atmr = 0 /\ acnt = 0 /\ siren = "OFF" /\ stmr = 0
  /\ rings = 0 /\ io = "OFF" /\ beeps = 0 /\ tpc = "idle"
  /\ fpc = "idle" /\ spc = "idle"
  /\ cpc = [c \in Commanders |-> "idle"]
  /\ cval = [c \in Commanders |-> "UNSET"]
  /\ after = [c \in Commanders |-> FALSE]
  /\ saved = s /\ stale = {} /\ old = FALSE
  /\ armed = (s = "SET")

Init == \E s \in States : Boot(s) /\ flash = s

-----------------------------------------------------------------------------
(* alarm.c *)

SirenOn ==
  IF siren = "ON"
    THEN UNCHANGED <<siren, stmr, io, rings>>
    ELSE siren' = "ON" /\ stmr' = SirenTime /\ io' = "ON" /\ rings' = rings + 1

SirenOff ==
  IF siren = "ON" THEN siren' = "OFF" /\ stmr' = 0 /\ io' = "OFF"
                  ELSE UNCHANGED <<siren, stmr, io>>

alarm_stop ==
  /\ SirenOff
  /\ atmr' = 0 /\ acnt' = 0 /\ astate' = "IDLE" /\ rings' = 0

\* on is the level a beep that ends in this tick leaves on the output.
alarm_tick(on) ==
  /\ stmr' = IF stmr > 0 THEN stmr - 1 ELSE 0
  /\ siren' = IF stmr = 1 THEN "OFF" ELSE siren
  /\ io' = IF stmr = 1 /\ siren = "ON" THEN "OFF" ELSE on
  /\ atmr' = IF atmr > 0 THEN atmr - 1 ELSE 0
  /\ astate' = IF atmr = 1 THEN "TIMEOUT" ELSE astate
  /\ UNCHANGED <<acnt, rings>>

-----------------------------------------------------------------------------
(* section.c and system_input.c *)

\* One tick of os_timer_get() for a running timer.
Elapsed(t) == IF t > 1 THEN t - 1 ELSE t

MutSignalNoInput(fired) ==
  LET live    == IF state = "SET" THEN fired ELSE {}
      delayed == live \cap DelayInputs
      entry   == delayed # {} /\ timer = 0
      alarms  == Cardinality(live \cap InstantInputs)
  IN /\ pending + alarms <= MaxPending
     /\ pending' = pending + alarms
     /\ UNCHANGED alarm_inp
     /\ flags' = IF delayed # {} THEN flags \cup {"TM_IN"} ELSE flags
     /\ timer' = IF entry THEN TmIn + 1 ELSE Elapsed(timer)

\* section_signal() for every input in fired, in ascending order, in a tick.
\* Out of SET nothing happens: no input reacts as ALARM_REACTION_24H.  A
\* delayed input starts the entry delay, unless a delay already runs.
section_signal(fired) ==
  LET live    == IF state = "SET" THEN fired ELSE {}
      delayed == live \cap DelayInputs
      entry   == delayed # {} /\ timer = 0
      alarms  == Cardinality(live \cap InstantInputs)
  IN /\ pending + alarms <= MaxPending
     /\ pending' = pending + alarms
     /\ IF entry THEN First(delayed, alarm_inp') ELSE UNCHANGED alarm_inp
     /\ flags' = IF entry THEN flags \cup {"TM_IN"} ELSE flags
     /\ timer' = IF entry THEN TmIn + 1 ELSE Elapsed(timer)

\* system_input_tick(): inputs whose postponement ends are signalled.
system_input_tick ==
  /\ itmr' = [i \in Inputs |-> IF itmr[i] > 0 THEN itmr[i] - 1 ELSE 0]
  /\ UNCHANGED icnt
  /\ section_signal({i \in Inputs : itmr[i] = 1})

system_input_reset ==
  /\ itmr' = [i \in Inputs |-> 0]
  /\ icnt' = [i \in Inputs |-> 0]

-----------------------------------------------------------------------------
(* The timer task. *)

\* led_tick(&siren) without a beep, system_tick(), alarm_tick().
Tick ==
  /\ tpc = "idle"
  /\ system_input_tick
  /\ alarm_tick(io)
  /\ UNCHANGED <<state, beeps, tpc, fpc, spc, command, storage, armed>>

\* led_tick(&siren) calls _siren_beep(), which raises the siren's output and
\* gives up the processor ...
BeepOn ==
  /\ tpc = "idle" /\ beeps > 0
  /\ beeps' = beeps - 1
  /\ io' = "ON"
  /\ tpc' = "beep"
  /\ UNCHANGED <<section, inputs, pending, alarm, fpc, spc, command, storage,
                 armed>>

MutBeepNoOff ==
  /\ tpc = "beep"
  /\ tpc' = "idle"
  /\ system_input_tick
  /\ alarm_tick(io)
  /\ UNCHANGED <<state, beeps, fpc, spc, command, storage, armed>>

\* ... then drops the output, whatever the alarm wants of it, and the rest
\* of the tick follows.
BeepOff ==
  /\ tpc = "beep"
  /\ tpc' = "idle"
  /\ system_input_tick
  /\ alarm_tick("OFF")
  /\ UNCHANGED <<state, beeps, fpc, spc, command, storage, armed>>

-----------------------------------------------------------------------------
(* The fast task: section_task(). *)

MutEntryOver == IF "TM_OUT" \in flags THEN "alarm" ELSE "idle"

\* What follows when the flags are looked at for SECTION_FLAG_TM_IN.
EntryOver == IF "TM_IN" \in flags THEN "alarm" ELSE "idle"

\* The timer has run out: the end of an exit delay is logged first, an entry
\* delay is about to become an alarm.
TimerExpired ==
  /\ fpc = "idle" /\ timer = 1
  /\ timer' = 0
  /\ fpc' = IF "TM_OUT" \in flags THEN "tmout" ELSE EntryOver
  /\ UNCHANGED <<state, flags, alarm_inp, inputs, pending, alarm, output, spc,
                 command, storage, armed>>

\* After the log of "tmout done" the flags are looked at again: a tick in
\* between may have started an entry delay.
ExitDelayOver ==
  /\ fpc = "tmout"
  /\ fpc' = EntryOver
  /\ flags' = flags \ {"TM_OUT"}
  /\ UNCHANGED <<state, timer, alarm_inp, inputs, pending, alarm, output, spc,
                 command, storage, armed>>

\* _instant_alarm(s, d->alarm_inp), after the log of "tmin done".
EntryAlarm ==
  /\ fpc = "alarm"
  /\ fpc' = "idle"
  /\ pending < MaxPending
  /\ pending' = pending + 1
  /\ flags' = flags \ {"TM_IN"}
  /\ UNCHANGED <<state, timer, alarm_inp, inputs, alarm, output, spc, command,
                 storage, armed>>

-----------------------------------------------------------------------------
(* The slow task; it does nothing else while it executes a command. *)

SlowFree == spc = "idle" /\ ("slow" \in Commanders => cpc["slow"] = "idle")

MutActivateAtOnce(i) ==
  /\ SlowFree
  /\ pending < MaxPending
  /\ icnt[i] < AlarmMaxCnt
  /\ icnt' = [icnt EXCEPT ![i] = @ + 1]
  /\ pending' = pending + 1
  /\ UNCHANGED <<section, itmr, alarm, output, fpc, spc, command, storage,
                 armed>>

\* _io_input_task() sees the rising edge of input i: section_alarm_enabled()
\* and system_input_alarm(), which always postpones (postpone is never 0).
system_inp_activated(i) ==
  /\ SlowFree
  /\ state = "SET"
  /\ icnt[i] < AlarmMaxCnt
  /\ icnt' = [icnt EXCEPT ![i] = @ + 1]
  /\ itmr' = [itmr EXCEPT ![i] = IF @ = 0 THEN Postpone ELSE @]
  /\ UNCHANGED <<section, pending, alarm, output, fpc, spc, command, storage,
                 armed>>

\* event_task() reaches an EVENT_ID_ALARM: alarm_trigger() counts it and logs.
AlarmEvent ==
  /\ SlowFree
  /\ pending > 0
  /\ pending' = pending - 1
  /\ IF astate = "ACTIVE"
       THEN UNCHANGED <<acnt, spc>>
       ELSE acnt' = acnt + 1 /\ spc' = "trigger"
  /\ UNCHANGED <<section, inputs, astate, atmr, siren, stmr, rings, output, fpc,
                 command, storage, armed>>

MutTriggerNoLimit ==
  /\ spc = "trigger"
  /\ spc' = "idle"
  /\ astate' = "ACTIVE" /\ atmr' = AlarmTime /\ SirenOn
  /\ UNCHANGED <<section, inputs, pending, acnt, beeps, tpc, fpc, command,
                 storage, armed>>

MutTriggerLimit ==
  /\ spc = "trigger"
  /\ spc' = "idle"
  /\ IF acnt >= AlarmsMax
       THEN UNCHANGED <<astate, atmr, siren, stmr, io, rings>>
       ELSE astate' = "ACTIVE" /\ atmr' = AlarmTime /\ SirenOn
  /\ UNCHANGED <<section, inputs, pending, acnt, beeps, tpc, fpc, command,
                 storage, armed>>

\* The rest of alarm_trigger(), after the log.
AlarmTrigger ==
  /\ spc = "trigger"
  /\ spc' = "idle"
  /\ IF acnt > AlarmsMax
       THEN UNCHANGED <<astate, atmr, siren, stmr, io, rings>>
       ELSE astate' = "ACTIVE" /\ atmr' = AlarmTime /\ SirenOn
  /\ UNCHANGED <<section, inputs, pending, acnt, beeps, tpc, fpc, command,
                 storage, armed>>

\* storage_maintenance() writes the flash library's cache back.
storage_maintenance ==
  /\ SlowFree
  /\ flash # saved
  /\ flash' = saved
  /\ UNCHANGED <<section, inputs, pending, alarm, output, fpc, spc, command,
                 saved, stale, old, armed>>

-----------------------------------------------------------------------------
(* Commands: _cmd_set() and _cmd_unset() through system_set(),             *)
(* system_unset() and section.c _set_state().                              *)

\* The commanders that wait for cfg_write()'s semaphore with the state in buf.
Formatted == {c \in Commanders : cpc[c] = "write"}

Goto(c, l) == cpc' = [cpc EXCEPT ![c] = l]

\* A commander takes a command when its task is free.
Free(c) == cpc[c] = "idle" /\ (c = "slow" => spc = "idle")

\* _set_state(SET): the exit delay starts and EVENT_ID_SET is created and
\* logged, before the new state is stored.
SetBegin(c) ==
  /\ Free(c) /\ state # "SET"
  /\ timer' = TmOut + 1
  /\ flags' = flags \cup {"TM_OUT"}
  /\ Goto(c, "set")
  /\ UNCHANGED <<state, alarm_inp, inputs, pending, alarm, output, fpc, spc,
                 cval, after, storage, armed>>

\* d->state = st;
SetCommit(c) ==
  /\ cpc[c] = "set"
  /\ state' = "SET"
  /\ armed' = TRUE
  /\ stale' = stale \cup Formatted
  /\ Goto(c, "set_reset")
  /\ UNCHANGED <<timer, flags, alarm_inp, inputs, pending, alarm, output, fpc,
                 spc, cval, after, saved, flash, old>>

MutSetNoSave(c) ==
  /\ cpc[c] = "set_reset"
  /\ system_input_reset
  /\ beeps' = 1
  /\ Goto(c, "idle")
  /\ UNCHANGED <<section, pending, alarm, io, tpc, fpc, spc, cval, after,
                 storage, armed>>

\* system_input_reset() and one beep.
SetReset(c) ==
  /\ cpc[c] = "set_reset"
  /\ system_input_reset
  /\ beeps' = 1
  /\ Goto(c, "format")
  /\ UNCHANGED <<section, pending, alarm, io, tpc, fpc, spc, cval, after,
                 storage, armed>>

\* _set_state(UNSET): delays are cancelled and EVENT_ID_UNSET is created and
\* logged, before the new state is stored.
UnsetBegin(c) ==
  /\ Free(c) /\ state # "UNSET"
  /\ timer' = 0
  /\ flags' = flags \ {"TM_IN"}
  /\ Goto(c, "unset")
  /\ UNCHANGED <<state, alarm_inp, inputs, pending, alarm, output, fpc, spc,
                 cval, after, storage, armed>>

UnsetCommit(c) ==
  /\ cpc[c] = "unset"
  /\ state' = "UNSET"
  /\ stale' = stale \cup Formatted
  /\ Goto(c, "unset_alarm")
  /\ UNCHANGED <<timer, flags, alarm_inp, inputs, pending, alarm, output, fpc,
                 spc, cval, after, saved, flash, old, armed>>

\* The alarm is cancelled (EVENT_ID_ALARM_CANCEL when it is active).
UnsetAlarm(c) ==
  /\ cpc[c] = "unset_alarm"
  /\ after' = [after EXCEPT ![c] = (astate # "IDLE")]
  /\ alarm_stop
  /\ Goto(c, "unset_reset")
  /\ UNCHANGED <<section, inputs, pending, beeps, tpc, fpc, spc, cval, storage,
                 armed>>

\* system_input_reset() and two or three beeps.
UnsetReset(c) ==
  /\ cpc[c] = "unset_reset"
  /\ system_input_reset
  /\ beeps' = IF after[c] THEN 3 ELSE 2
  /\ after' = [after EXCEPT ![c] = FALSE]       \* not used any more
  /\ Goto(c, "format")
  /\ UNCHANGED <<section, pending, alarm, io, tpc, fpc, spc, cval, storage,
                 armed>>

\* _save_state() formats the state, then cfg_write() waits for its semaphore
\* and stores what was formatted, although the other commander may have
\* changed and even saved the state meanwhile.
SaveFormat(c) ==
  /\ cpc[c] = "format"
  /\ cval' = [cval EXCEPT ![c] = state]
  /\ Goto(c, "write")
  /\ UNCHANGED <<section, inputs, pending, alarm, output, fpc, spc, after,
                 storage, armed>>

SaveWrite(c) ==
  /\ cpc[c] = "write"
  /\ saved' = cval[c]
  /\ cval' = [cval EXCEPT ![c] = "UNSET"]       \* buf goes out of scope
  /\ old' = (c \in stale) /\ stale' = stale \ {c}
  /\ Goto(c, "idle")
  /\ UNCHANGED <<section, inputs, pending, alarm, output, fpc, spc, after,
                 flash, armed>>

system_set(c) == SetBegin(c) \/ SetCommit(c) \/ SetReset(c)
system_unset(c) ==
  UnsetBegin(c) \/ UnsetCommit(c) \/ UnsetAlarm(c) \/ UnsetReset(c)
save_state(c) == SaveFormat(c) \/ SaveWrite(c)

\* Power loss or a reset at any moment: memory is lost, and what the flash
\* library had not written back with it.
Reset ==
  /\ Resets
  /\ UNCHANGED flash
  /\ state' = flash
  /\ timer' = 0 /\ flags' = {} /\ alarm_inp' = NoInput
  /\ itmr' = [i \in Inputs |-> 0] /\ icnt' = [i \in Inputs |-> 0]
  /\ pending' = 0
  /\ astate' = "IDLE" /\ atmr' = 0 /\ acnt' = 0 /\ siren' = "OFF" /\ stmr' = 0
  /\ rings' = 0 /\ io' = "OFF" /\ beeps' = 0 /\ tpc' = "idle"
  /\ fpc' = "idle" /\ spc' = "idle"
  /\ cpc' = [c \in Commanders |-> "idle"]
  /\ cval' = [c \in Commanders |-> "UNSET"]
  /\ after' = [c \in Commanders |-> FALSE]
  /\ saved' = flash /\ stale' = {} /\ old' = FALSE
  /\ armed' = (flash = "SET")

-----------------------------------------------------------------------------
timer_task == Tick \/ BeepOn \/ BeepOff
section_task == TimerExpired \/ ExitDelayOver \/ EntryAlarm
event_task == AlarmEvent \/ AlarmTrigger

Next ==
  \/ timer_task
  \/ section_task
  \/ event_task
  \/ storage_maintenance
  \/ \E i \in Inputs : system_inp_activated(i)
  \/ \E c \in Commanders : system_set(c) \/ system_unset(c) \/ save_state(c)
  \/ Reset

\* A command that has begun goes on.
Proceed(c) ==
  \/ SetCommit(c) \/ SetReset(c)
  \/ UnsetCommit(c) \/ UnsetAlarm(c) \/ UnsetReset(c)
  \/ save_state(c)

\* The tasks are periodic and watched by the watchdog: none is starved, and
\* a beep sequence makes progress with the ticks.  Users, burglars and power
\* cuts owe nothing.
Fairness ==
  /\ WF_vars(Tick) /\ WF_vars(BeepOn) /\ WF_vars(BeepOff)
  /\ WF_vars(section_task)
  /\ WF_vars(AlarmTrigger) /\ SF_vars(AlarmEvent)
  /\ \A c \in Commanders : WF_vars(Proceed(c))

Spec == Init /\ [][Next]_vars
FairSpec == Spec /\ Fairness

-----------------------------------------------------------------------------
SectionTypeOK ==
  /\ state \in States
  /\ timer \in Nat /\ flags \subseteq {"TM_OUT", "TM_IN"}
  /\ alarm_inp \in Inputs \cup {NoInput}
  /\ itmr \in [Inputs -> Nat] /\ icnt \in [Inputs -> Nat]
  /\ pending \in Nat

AlarmTypeOK ==
  /\ astate \in {"IDLE", "ACTIVE", "TIMEOUT"}
  /\ atmr \in Nat /\ acnt \in Nat /\ stmr \in Nat /\ rings \in Nat
  /\ siren \in {"ON", "OFF"} /\ io \in {"ON", "OFF"}
  /\ armed \in BOOLEAN

TaskTypeOK ==
  /\ beeps \in 0 .. 3 /\ tpc \in {"idle", "beep"}
  /\ fpc \in {"idle", "tmout", "alarm"} /\ spc \in {"idle", "trigger"}
  /\ cpc \in [Commanders -> {"idle", "set", "set_reset", "unset",
                             "unset_alarm", "unset_reset", "format", "write"}]
  /\ cval \in [Commanders -> States]
  /\ saved \in States /\ flash \in States
  /\ stale \subseteq Commanders

\* Type invariant.
TypeOK ==
  /\ SectionTypeOK /\ AlarmTypeOK /\ TaskTypeOK
  /\ after \in [Commanders -> BOOLEAN] /\ old \in BOOLEAN

\* The siren sounds only inside an active alarm and always with time left to
\* run, and an active alarm always has time left: neither can stay on for
\* ever, however commands, events and ticks interleave.
SirenBounded ==
  /\ siren = "ON" => stmr > 0 /\ atmr > stmr /\ astate = "ACTIVE"
  /\ astate = "ACTIVE" => atmr > 0

\* OS_ASSERT(d->alarm_inp != NULL, "alarm_inp") in section_task() never fails.
AlarmInputKnown == ("TM_IN" \in flags \/ fpc = "alarm") => alarm_inp # NoInput

\* A unit that has not been armed since it booted raises no alarm, whatever
\* its inputs do.
NeverArmedIsQuiet ==
  ~armed => pending = 0 /\ fpc # "alarm" /\ astate = "IDLE" /\ siren = "OFF"

\* When no command is in progress, the state that cfg_read() returns is the
\* state of the section, however SET and UNSET of two tasks interleave,
\* unless the last cfg_write() was of a state formatted before the other
\* task's command stored a new one (system.c _save_state()).  It is the state
\* in the flash library's cache: a power cut before storage_maintenance()
\* brings the unit up with an earlier one.
SavedIsCurrent == Quiet /\ ~old => saved = state

\* Between two UNSETs the siren starts at most _ALARMS_MAX times, and once
\* more when UNSET came between the two halves of alarm_trigger().
SirenLimited == rings <= AlarmsMax + 1

\* The siren never stays on because nobody asks for its end: after every
\* system_io_activate(SYSTEM_IO_SIREN), of an alarm or of a beep, comes a
\* system_io_deactivate(SYSTEM_IO_SIREN), with beeps, alarms, UNSETs and the
\* timers in any order.  What becomes of the request in the word of outputs
\* that the tasks share is the subject of module Io.
SirenStops == []<>(io = "OFF")

\* An armed unit with an instant input waiting to be signalled ends up in
\* alarm, unless a command intervenes.
IntrusionRaisesAlarm ==
  \A i \in InstantInputs :
    (state = "SET" /\ itmr[i] > 0 /\ Quiet)
      ~> (astate # "IDLE" \/ state = "UNSET" \/ ~Quiet)

\* A running entry delay ends in an alarm, unless a command intervenes.
EntryDelayRaisesAlarm ==
  (state = "SET" /\ "TM_IN" \in flags /\ Quiet)
    ~> (astate # "IDLE" \/ state = "UNSET" \/ ~Quiet)

\* Not so, and in no configuration: cmd.c 630, "also unset to avoid alarm":
\* once the section is unset and the command is over, there is no alarm.
UnsetAvoidsAlarm == (state = "UNSET" /\ Quiet) => astate # "ACTIVE"
=============================================================================
