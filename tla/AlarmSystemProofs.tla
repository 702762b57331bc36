------------------------- MODULE AlarmSystemProofs --------------------------
(***************************************************************************)
(* Invariants of AlarmSystem for every set of inputs, every set of         *)
(* commanding tasks and every choice of the delays and limits.             *)
(***************************************************************************)
EXTENDS AlarmSystem, FiniteSetTheorems, TLAPS

USE DEF States

\* The number of instant inputs that fire in one tick is a natural number.
LEMMA FiredCount ==
  ASSUME NEW S, S \subseteq Inputs
  PROVE  Cardinality(S \cap InstantInputs) \in Nat
<1>1. IsFiniteSet(Inputs) /\ (S \cap InstantInputs) \subseteq Inputs
  BY InputsAssumption
<1>2. IsFiniteSet(S \cap InstantInputs)
  BY <1>1, FS_Subset
<1> QED BY <1>2, FS_CardinalityType

\* What a tick does to the section: pending stays a natural number, and the
\* alarm flag of the entry delay is only set together with the input.
LEMMA SignalType ==
  ASSUME TypeOK, NEW S, S \subseteq Inputs, section_signal(S)
  PROVE  /\ pending' \in Nat /\ timer' \in Nat
         /\ flags' \subseteq {"TM_OUT", "TM_IN"}
         /\ alarm_inp' \in Inputs \cup {NoInput}
         /\ alarm_inp' = alarm_inp \/ alarm_inp' \in Inputs
         /\ "TM_IN" \in flags' => "TM_IN" \in flags \/ alarm_inp' \in Inputs
         /\ state # "SET" => UNCHANGED <<pending, flags, alarm_inp>>
<1> DEFINE live    == IF state = "SET" THEN S ELSE {}
           delayed == live \cap DelayInputs
           entry   == delayed # {} /\ timer = 0
           alarms  == Cardinality(live \cap InstantInputs)
<1>1. live \subseteq Inputs /\ delayed \subseteq Inputs
  OBVIOUS
<1>2. alarms \in Nat
  BY <1>1, FiredCount
<1>3. /\ pending' = pending + alarms
      /\ IF entry THEN First(delayed, alarm_inp') ELSE UNCHANGED alarm_inp
      /\ flags' = IF entry THEN flags \cup {"TM_IN"} ELSE flags
      /\ timer' = IF entry THEN TmIn + 1 ELSE Elapsed(timer)
  BY DEF section_signal
<1>4. pending' \in Nat
  BY <1>2, <1>3 DEF TypeOK, SectionTypeOK
<1>5. timer' \in Nat
  BY <1>3, TimesAssumption DEF TypeOK, SectionTypeOK, Elapsed
<1>6. /\ flags' \subseteq {"TM_OUT", "TM_IN"}
      /\ alarm_inp' \in Inputs \cup {NoInput}
      /\ alarm_inp' = alarm_inp \/ alarm_inp' \in Inputs
      /\ "TM_IN" \in flags' => "TM_IN" \in flags \/ alarm_inp' \in Inputs
  <2>1. CASE entry
    BY <1>1, <1>3, <2>1 DEF First, TypeOK, SectionTypeOK
  <2>2. CASE ~entry
    BY <1>3, <2>2 DEF TypeOK, SectionTypeOK
  <2> QED BY <2>1, <2>2
<1>7. state # "SET" => UNCHANGED <<pending, flags, alarm_inp>>
  <2> SUFFICES ASSUME state # "SET" PROVE UNCHANGED <<pending, flags,
     alarm_inp>>
    OBVIOUS
  <2>1. live \cap InstantInputs = {} /\ ~entry
    OBVIOUS
  <2>2. alarms = 0
    BY <2>1, FS_EmptySet
  <2> QED BY <1>3, <2>1, <2>2 DEF TypeOK, SectionTypeOK
<1> QED BY <1>4, <1>5, <1>6, <1>7

\* Every variable keeps its type in every step: no task can drive a timer
\* below zero, leave the set of states or index an unknown input.
THEOREM TypeCorrect == Spec => []TypeOK
<1>1. Init => TypeOK
  <2> SUFFICES ASSUME NEW s \in States, Boot(s), flash = s PROVE TypeOK
    BY DEF Init
  <2>1. SectionTypeOK
    BY DEF Boot, SectionTypeOK
  <2>2. AlarmTypeOK
    BY DEF Boot, AlarmTypeOK
  <2>3. TaskTypeOK
    BY DEF Boot, TaskTypeOK
  <2>4. after \in [Commanders -> BOOLEAN] /\ old \in BOOLEAN
    BY DEF Boot
  <2> QED BY <2>1, <2>2, <2>3, <2>4 DEF TypeOK
<1>2. TypeOK /\ [Next]_vars => TypeOK'
  <2> SUFFICES ASSUME TypeOK, [Next]_vars PROVE TypeOK'
    OBVIOUS
  <2>1. ASSUME system_input_tick
        PROVE  /\ itmr' \in [Inputs -> Nat] /\ icnt' \in [Inputs -> Nat]
               /\ pending' \in Nat /\ timer' \in Nat
               /\ flags' \subseteq {"TM_OUT", "TM_IN"}
               /\ alarm_inp' \in Inputs \cup {NoInput}
    <3>1. section_signal({i \in Inputs : itmr[i] = 1})
      BY <2>1 DEF system_input_tick
    <3>2. itmr' \in [Inputs -> Nat] /\ icnt' \in [Inputs -> Nat]
      BY <2>1 DEF system_input_tick, TypeOK, SectionTypeOK
    <3> QED BY <3>1, <3>2, SignalType
  <2>2. ASSUME NEW on \in {"ON", "OFF"}, alarm_tick(on)
        PROVE  /\ stmr' \in Nat /\ atmr' \in Nat
               /\ acnt' \in Nat /\ rings' \in Nat
               /\ siren' \in {"ON", "OFF"} /\ io' \in {"ON", "OFF"}
               /\ astate' \in {"IDLE", "ACTIVE", "TIMEOUT"}
    BY <2>2 DEF alarm_tick, TypeOK, AlarmTypeOK
  <2>3. CASE Tick
    BY <2>1, <2>2, <2>3 DEF Tick, TypeOK, SectionTypeOK, AlarmTypeOK,
       TaskTypeOK, command, storage
  <2>4. CASE BeepOn
    BY <2>4 DEF BeepOn, TypeOK, SectionTypeOK, AlarmTypeOK, TaskTypeOK,
       section, inputs, alarm, command, storage
  <2>5. CASE BeepOff
    BY <2>1, <2>2, <2>5 DEF BeepOff, TypeOK, SectionTypeOK, AlarmTypeOK,
       TaskTypeOK, command, storage
  <2>6. CASE section_task
    <3>1. SectionTypeOK'
      <4>1. CASE TimerExpired
        BY <4>1 DEF TimerExpired, TypeOK, SectionTypeOK, inputs
      <4>2. CASE ExitDelayOver
        BY <4>2 DEF ExitDelayOver, TypeOK, SectionTypeOK, inputs
      <4>3. CASE EntryAlarm
        BY <4>3 DEF EntryAlarm, TypeOK, SectionTypeOK, inputs
      <4> QED BY <2>6, <4>1, <4>2, <4>3 DEF section_task
    <3>2. AlarmTypeOK'
      BY <2>6 DEF section_task, TimerExpired, ExitDelayOver, EntryOver,
         EntryAlarm, TypeOK, AlarmTypeOK, alarm, output
    <3>3. TaskTypeOK' /\ UNCHANGED <<after, old>>
      BY <2>6 DEF section_task, TimerExpired, ExitDelayOver, EntryOver,
         EntryAlarm, TypeOK, TaskTypeOK, output, command, storage
    <3> QED BY <3>1, <3>2, <3>3 DEF TypeOK
  <2>7. CASE AlarmEvent
    BY <2>7 DEF AlarmEvent, TypeOK, SectionTypeOK, AlarmTypeOK, TaskTypeOK,
       section, inputs, output, command, storage
  <2>8. CASE AlarmTrigger
    BY <2>8, TimesAssumption DEF AlarmTrigger, SirenOn, TypeOK, SectionTypeOK,
       AlarmTypeOK, TaskTypeOK, section, inputs,
       command, storage
  <2>9. CASE storage_maintenance
    BY <2>9 DEF storage_maintenance, TypeOK, SectionTypeOK, AlarmTypeOK,
       TaskTypeOK, section, inputs, alarm, output,
       command
  <2>10. ASSUME NEW i \in Inputs, system_inp_activated(i) PROVE TypeOK'
    BY <2>10, TimesAssumption DEF system_inp_activated, TypeOK, SectionTypeOK,
       AlarmTypeOK, TaskTypeOK, section, alarm,
       output, command, storage
  <2>11. ASSUME NEW c \in Commanders, system_set(c) PROVE TypeOK'
    <3>1. CASE SetBegin(c)
      BY <3>1, TimesAssumption DEF SetBegin, Goto, TypeOK, SectionTypeOK,
         AlarmTypeOK, TaskTypeOK, inputs, alarm,
         output, storage
    <3>2. CASE SetCommit(c)
      BY <3>2 DEF SetCommit, Goto, Formatted, TypeOK, SectionTypeOK,
         AlarmTypeOK, TaskTypeOK, inputs, alarm, output, storage
    <3>3. CASE SetReset(c)
      BY <3>3 DEF SetReset, system_input_reset, Goto, TypeOK, SectionTypeOK,
         AlarmTypeOK, TaskTypeOK, section, alarm,
         storage
    <3> QED BY <2>11, <3>1, <3>2, <3>3 DEF system_set
  <2>12. ASSUME NEW c \in Commanders, system_unset(c) PROVE TypeOK'
    <3>1. CASE UnsetBegin(c)
      BY <3>1 DEF UnsetBegin, Goto, TypeOK, SectionTypeOK, AlarmTypeOK,
         TaskTypeOK, inputs, alarm, output, storage
    <3>2. CASE UnsetCommit(c)
      BY <3>2 DEF UnsetCommit, Goto, Formatted, TypeOK, SectionTypeOK,
         AlarmTypeOK, TaskTypeOK, inputs, alarm, output, storage
    <3>3. CASE UnsetAlarm(c)
      <4>1. SectionTypeOK'
        BY <3>3 DEF UnsetAlarm, TypeOK, SectionTypeOK, section, inputs
      <4>2. AlarmTypeOK'
        <5>1. alarm_stop /\ UNCHANGED armed
          BY <3>3 DEF UnsetAlarm
        <5> QED BY <5>1 DEF alarm_stop, SirenOff, TypeOK, AlarmTypeOK
      <4>3. TaskTypeOK'
        BY <3>3 DEF UnsetAlarm, Goto, TypeOK, TaskTypeOK, storage
      <4>4. after' \in [Commanders -> BOOLEAN]
        <5>1. \A b \in BOOLEAN :
                [after EXCEPT ![c] = b] \in [Commanders -> BOOLEAN]
          BY DEF TypeOK
        <5>2. (astate # "IDLE") \in BOOLEAN
          OBVIOUS
        <5>3. after' = [after EXCEPT ![c] = (astate # "IDLE")]
          BY <3>3 DEF UnsetAlarm
        <5> QED BY <5>1, <5>2, <5>3, Zenon
      <4>5. old' \in BOOLEAN
        BY <3>3 DEF UnsetAlarm, storage, TypeOK
      <4> QED BY <4>1, <4>2, <4>3, <4>4, <4>5 DEF TypeOK
    <3>4. CASE UnsetReset(c)
      BY <3>4 DEF UnsetReset, system_input_reset, Goto, TypeOK, SectionTypeOK,
         AlarmTypeOK, TaskTypeOK, section, alarm,
         storage
    <3> QED BY <2>12, <3>1, <3>2, <3>3, <3>4 DEF system_unset
  <2>13. ASSUME NEW c \in Commanders, save_state(c) PROVE TypeOK'
    <3>1. SectionTypeOK'
      BY <2>13 DEF save_state, SaveFormat, SaveWrite, TypeOK, SectionTypeOK,
         section, inputs
    <3>2. AlarmTypeOK'
      BY <2>13 DEF save_state, SaveFormat, SaveWrite, TypeOK, AlarmTypeOK,
         alarm, output
    <3>3. TaskTypeOK' /\ UNCHANGED after
      BY <2>13 DEF save_state, SaveFormat, SaveWrite, Goto, TypeOK, TaskTypeOK,
         SectionTypeOK, output, storage
    <3>4. old' \in BOOLEAN
      <4>1. CASE SaveFormat(c)
        BY <4>1 DEF SaveFormat, storage, TypeOK
      <4>2. CASE SaveWrite(c)
        <5>1. old' = (c \in stale)
          BY <4>2 DEF SaveWrite
        <5> QED BY <5>1
      <4> QED BY <2>13, <4>1, <4>2 DEF save_state
    <3> QED BY <3>1, <3>2, <3>3, <3>4 DEF TypeOK
  <2>14. CASE Reset
    <3>1. SectionTypeOK'
      BY <2>14 DEF Reset, TypeOK, TaskTypeOK, SectionTypeOK
    <3>2. AlarmTypeOK'
      BY <2>14 DEF Reset, AlarmTypeOK
    <3>3. TaskTypeOK'
      BY <2>14 DEF Reset, TypeOK, TaskTypeOK
    <3>4. after' \in [Commanders -> BOOLEAN] /\ old' \in BOOLEAN
      BY <2>14 DEF Reset
    <3> QED BY <3>1, <3>2, <3>3, <3>4 DEF TypeOK
  <2>15. CASE UNCHANGED vars
    BY <2>15 DEF vars, section, inputs, alarm, output, command, storage,
       TypeOK, SectionTypeOK, AlarmTypeOK, TaskTypeOK
  <2> QED
    BY <2>3, <2>4, <2>5, <2>6, <2>7, <2>8, <2>9, <2>10, <2>11, <2>12, <2>13,
       <2>14, <2>15 DEF Next, timer_task, event_task
<1> QED BY <1>1, <1>2, PTL DEF Spec

-----------------------------------------------------------------------------
\* SirenBounded is inductive once it is known that the alarm is not active
\* while alarm_trigger() is on its way to start it: only the slow task starts
\* alarms, so nothing can make it active during the log in alarm_trigger().
SirenInv == SirenBounded /\ (spc = "trigger" => astate # "ACTIVE")

\* A siren that sounds is inside an active alarm with time left on both
\* timers, for every delay, limit and interleaving (alarm.c).
THEOREM SirenSafety == Spec => []SirenBounded
<1>1. Init => SirenInv
  BY DEF Init, Boot, SirenInv, SirenBounded
<1>2. TypeOK /\ SirenInv /\ [Next]_vars => SirenInv'
  <2> SUFFICES ASSUME TypeOK, SirenInv, [Next]_vars PROVE SirenInv'
    OBVIOUS
  <2>1. ASSUME NEW on, alarm_tick(on), UNCHANGED spc PROVE SirenInv'
    BY <2>1 DEF alarm_tick, SirenInv, SirenBounded, TypeOK, AlarmTypeOK
  <2>2. CASE timer_task
    BY <2>1, <2>2 DEF timer_task, Tick, BeepOn, BeepOff, SirenInv,
       SirenBounded, alarm
  <2>3. CASE AlarmEvent
    BY <2>3 DEF AlarmEvent, SirenInv, SirenBounded
  <2>4. CASE AlarmTrigger
    BY <2>4, TimesAssumption DEF AlarmTrigger, SirenOn, SirenInv,
       SirenBounded, TypeOK,
       AlarmTypeOK
  <2>5. CASE section_task \/ storage_maintenance
    BY <2>5 DEF section_task, TimerExpired, ExitDelayOver,
       EntryOver, EntryAlarm, storage_maintenance,
       SirenInv, SirenBounded, alarm
  <2>6. ASSUME NEW i \in Inputs, system_inp_activated(i) PROVE SirenInv'
    BY <2>6 DEF system_inp_activated, SirenInv, SirenBounded, alarm
  <2>7. ASSUME NEW c \in Commanders, UnsetAlarm(c) PROVE SirenInv'
    <3>1. alarm_stop /\ UNCHANGED spc
      BY <2>7 DEF UnsetAlarm
    <3> QED BY <3>1 DEF alarm_stop, SirenOff, SirenInv, SirenBounded
  <2>8. ASSUME NEW c \in Commanders, ~UnsetAlarm(c),
               system_set(c) \/ system_unset(c) \/ save_state(c)
        PROVE  SirenInv'
    BY <2>8 DEF system_set, SetBegin, SetCommit, SetReset, system_unset,
       UnsetBegin, UnsetCommit, UnsetReset, save_state, SaveFormat, SaveWrite,
       SirenInv, SirenBounded, alarm
  <2>9. CASE Reset
    BY <2>9 DEF Reset, SirenInv, SirenBounded
  <2>10. CASE UNCHANGED vars
    BY <2>10 DEF vars, alarm, SirenInv, SirenBounded
  <2> QED
    BY <2>2, <2>3, <2>4, <2>5, <2>6, <2>7, <2>8, <2>9, <2>10
    DEF Next, event_task
<1>3. SirenInv => SirenBounded
  BY DEF SirenInv
<1> QED BY <1>1, <1>2, <1>3, TypeCorrect, PTL DEF Spec

\* OS_ASSERT(d->alarm_inp != NULL) in section_task() never fails: the input
\* is stored before the entry-delay flag is set and never cleared.
THEOREM AssertSafety == Spec => []AlarmInputKnown
<1>1. Init => AlarmInputKnown
  BY DEF Init, Boot, AlarmInputKnown
<1>2. TypeOK /\ AlarmInputKnown /\ [Next]_vars => AlarmInputKnown'
  <2> SUFFICES ASSUME TypeOK, AlarmInputKnown, [Next]_vars
               PROVE  AlarmInputKnown'
    OBVIOUS
  <2>1. ASSUME system_input_tick, UNCHANGED fpc PROVE AlarmInputKnown'
    <3>1. section_signal({i \in Inputs : itmr[i] = 1})
      BY <2>1 DEF system_input_tick
    <3> QED BY <2>1, <3>1, SignalType, InputsAssumption DEF AlarmInputKnown
  <2>2. CASE timer_task
    BY <2>1, <2>2 DEF timer_task, Tick, BeepOn, BeepOff, AlarmInputKnown,
       section
  <2>3. CASE event_task
    BY <2>3 DEF event_task, AlarmEvent, AlarmTrigger, AlarmInputKnown, section
  <2>4. CASE section_task \/ storage_maintenance
    BY <2>4 DEF section_task, TimerExpired, ExitDelayOver,
       EntryOver, EntryAlarm, storage_maintenance,
       AlarmInputKnown, section
  <2>5. ASSUME NEW i \in Inputs, system_inp_activated(i) PROVE AlarmInputKnown'
    BY <2>5 DEF system_inp_activated, AlarmInputKnown, section
  <2>6. ASSUME NEW c \in Commanders,
               system_set(c) \/ system_unset(c) \/ save_state(c)
        PROVE  AlarmInputKnown'
    BY <2>6 DEF system_set, SetBegin, SetCommit, SetReset, system_unset,
       UnsetBegin, UnsetCommit, UnsetAlarm, UnsetReset, save_state, SaveFormat,
       SaveWrite, AlarmInputKnown, section
  <2>7. CASE Reset
    BY <2>7 DEF Reset, AlarmInputKnown
  <2>8. CASE UNCHANGED vars
    BY <2>8 DEF vars, section, AlarmInputKnown
  <2> QED BY <2>2, <2>3, <2>4, <2>5, <2>6, <2>7, <2>8 DEF Next
<1> QED BY <1>1, <1>2, TypeCorrect, PTL DEF Spec

-----------------------------------------------------------------------------
\* NeverArmedIsQuiet, strengthened with what keeps it: until it is armed the
\* section is UNSET, has no entry delay to run out and no alarm to count down.
QuietInv ==
  ~armed => /\ state = "UNSET" /\ "TM_IN" \notin flags
            /\ pending = 0 /\ fpc # "alarm" /\ spc = "idle"
            /\ astate = "IDLE" /\ atmr = 0 /\ siren = "OFF"

\* A unit that was not armed since it booted never raises an alarm, whatever
\* its inputs and timers do.
THEOREM QuietUntilArmed == Spec => []NeverArmedIsQuiet
<1>1. Init => QuietInv
  BY DEF Init, Boot, QuietInv
<1>2. TypeOK /\ QuietInv /\ [Next]_vars => QuietInv'
  <2> SUFFICES ASSUME TypeOK, QuietInv, [Next]_vars, ~armed' PROVE QuietInv'
    BY DEF QuietInv
  <2>1. CASE Reset
    BY <2>1 DEF Reset, QuietInv, TypeOK, TaskTypeOK
  <2>2. CASE UNCHANGED vars
    BY <2>2 DEF vars, section, alarm, QuietInv
  <2> SUFFICES ASSUME Next, ~Reset PROVE QuietInv'
    BY <2>1, <2>2
  <2>3. ~armed
    BY DEF Next, timer_task, Tick, BeepOn, BeepOff, section_task, TimerExpired,
       ExitDelayOver, EntryOver, EntryAlarm, event_task, AlarmEvent,
       AlarmTrigger, storage_maintenance,
       system_inp_activated, system_set, SetBegin, SetCommit, SetReset,
       system_unset, UnsetBegin, UnsetCommit, UnsetAlarm, UnsetReset,
       save_state, SaveFormat, SaveWrite
  <2>4. /\ state = "UNSET" /\ "TM_IN" \notin flags
        /\ pending = 0 /\ fpc # "alarm" /\ spc = "idle"
        /\ astate = "IDLE" /\ atmr = 0 /\ siren = "OFF"
    BY <2>3 DEF QuietInv
  <2>5. ASSUME system_input_tick PROVE UNCHANGED <<pending, flags>>
    <3>1. section_signal({i \in Inputs : itmr[i] = 1})
      BY <2>5 DEF system_input_tick
    <3> QED BY <2>4, <3>1, SignalType
  <2>6. ASSUME NEW on, alarm_tick(on)
        PROVE  astate' = "IDLE" /\ atmr' = 0 /\ siren' = "OFF"
    BY <2>4, <2>6 DEF alarm_tick
  <2>7. CASE timer_task
    BY <2>4, <2>5, <2>6, <2>7 DEF timer_task, Tick, BeepOn, BeepOff, section,
       alarm, QuietInv
  <2>8. CASE section_task
    BY <2>4, <2>8 DEF section_task, TimerExpired, ExitDelayOver,
       EntryOver, EntryAlarm, alarm, QuietInv
  <2>9. CASE event_task
    BY <2>4, <2>9 DEF event_task, AlarmEvent, AlarmTrigger
  <2>10. CASE storage_maintenance
    BY <2>4, <2>10 DEF storage_maintenance, section, alarm, QuietInv
  <2>11. ASSUME NEW i \in Inputs, system_inp_activated(i) PROVE QuietInv'
    BY <2>4, <2>11 DEF system_inp_activated
  <2>12. ASSUME NEW c \in Commanders, system_set(c) PROVE QuietInv'
    BY <2>4, <2>12 DEF system_set, SetBegin, SetCommit, SetReset, section,
       alarm, QuietInv
  <2>13. ASSUME NEW c \in Commanders, UnsetAlarm(c) PROVE QuietInv'
    <3>1. alarm_stop /\ UNCHANGED <<state, flags, pending, fpc, spc>>
      BY <2>13 DEF UnsetAlarm, section
    <3> QED BY <2>4, <3>1 DEF alarm_stop, SirenOff, QuietInv
  <2>14. ASSUME NEW c \in Commanders, ~UnsetAlarm(c), system_unset(c)
         PROVE  QuietInv'
    BY <2>4, <2>14 DEF system_unset, UnsetBegin, UnsetCommit, UnsetReset,
       section, alarm, QuietInv
  <2>15. ASSUME NEW c \in Commanders, save_state(c) PROVE QuietInv'
    BY <2>4, <2>15 DEF save_state, SaveFormat, SaveWrite, section, alarm,
       QuietInv
  <2> QED
    BY <2>7, <2>8, <2>9, <2>10, <2>11, <2>12, <2>13, <2>14, <2>15 DEF Next
<1>3. QuietInv => NeverArmedIsQuiet
  BY DEF QuietInv, NeverArmedIsQuiet
<1> QED BY <1>1, <1>2, <1>3, TypeCorrect, PTL DEF Spec

-----------------------------------------------------------------------------
\* SirenLimited, strengthened with the count it follows: alarm_trigger() has
\* counted the alarm it is about to ring for, and the siren has started at
\* most once more than alarms were counted since the last alarm_stop(), which
\* may clear the count while alarm_trigger() logs.
RingInv ==
  /\ SirenLimited
  /\ rings <= acnt + 1
  /\ spc = "trigger" => rings <= acnt

\* alarm_trigger() (alarm.c) starts the siren at most _ALARMS_MAX times
\* between two UNSETs, and once more when alarm_stop() comes between its
\* count and its test of the count, for every limit and interleaving.
THEOREM SirenLimit == Spec => []SirenLimited
<1>1. Init => RingInv
  BY LimitsAssumption DEF Init, Boot, RingInv, SirenLimited
<1>2. TypeOK /\ RingInv /\ [Next]_vars => RingInv'
  <2> SUFFICES ASSUME TypeOK, RingInv, [Next]_vars PROVE RingInv'
    OBVIOUS
  <2>1. ASSUME UNCHANGED <<rings, acnt, spc>> PROVE RingInv'
    BY <2>1 DEF RingInv, SirenLimited
  <2>2. CASE timer_task
    BY <2>1, <2>2 DEF timer_task, Tick, BeepOn, BeepOff, alarm_tick, alarm
  <2>3. CASE AlarmEvent
    <3>1. CASE astate = "ACTIVE"
      BY <2>1, <2>3, <3>1 DEF AlarmEvent
    <3>2. CASE astate # "ACTIVE"
      BY <2>3, <3>2 DEF AlarmEvent, RingInv, SirenLimited, TypeOK, AlarmTypeOK
    <3> QED BY <3>1, <3>2
  <2>4. CASE AlarmTrigger
    <3>1. spc = "trigger" /\ spc' = "idle" /\ acnt' = acnt
      BY <2>4 DEF AlarmTrigger
    <3>2. CASE acnt > AlarmsMax
      BY <2>4, <3>1, <3>2 DEF AlarmTrigger, RingInv, SirenLimited
    <3>3. CASE ~(acnt > AlarmsMax)
      <4>1. rings' \in {rings, rings + 1}
        BY <2>4, <3>3 DEF AlarmTrigger, SirenOn
      <4> QED
        BY <3>1, <3>3, <4>1, LimitsAssumption
        DEF RingInv, SirenLimited, TypeOK, AlarmTypeOK
    <3> QED BY <3>2, <3>3
  <2>5. CASE section_task \/ storage_maintenance
    BY <2>1, <2>5 DEF section_task, TimerExpired, ExitDelayOver, EntryAlarm,
       storage_maintenance, alarm
  <2>6. ASSUME NEW i \in Inputs, system_inp_activated(i) PROVE RingInv'
    BY <2>1, <2>6 DEF system_inp_activated, alarm
  <2>7. ASSUME NEW c \in Commanders, UnsetAlarm(c) PROVE RingInv'
    <3>1. rings' = 0 /\ acnt' = 0
      BY <2>7 DEF UnsetAlarm, alarm_stop
    <3> QED BY <3>1, LimitsAssumption DEF RingInv, SirenLimited
  <2>8. ASSUME NEW c \in Commanders, ~UnsetAlarm(c),
               system_set(c) \/ system_unset(c) \/ save_state(c)
        PROVE  RingInv'
    BY <2>1, <2>8 DEF system_set, SetBegin, SetCommit, SetReset, system_unset,
       UnsetBegin, UnsetCommit, UnsetReset, save_state, SaveFormat, SaveWrite,
       alarm
  <2>9. CASE Reset
    BY <2>9, LimitsAssumption DEF Reset, RingInv, SirenLimited
  <2>10. CASE UNCHANGED vars
    BY <2>1, <2>10 DEF vars, alarm
  <2> QED
    BY <2>2, <2>3, <2>4, <2>5, <2>6, <2>7, <2>8, <2>9, <2>10
    DEF Next, event_task
<1>3. RingInv => SirenLimited
  BY DEF RingInv
<1> QED BY <1>1, <1>2, <1>3, TypeCorrect, PTL DEF Spec

-----------------------------------------------------------------------------
\* SavedIsCurrent, strengthened with what _save_state() holds between
\* formatting the state and storing it, and with the commands that still have
\* a state to save.
Saving == {"set_reset", "unset_alarm", "unset_reset", "format", "write"}

SaveInv ==
  /\ (\A c \in Commanders : cpc[c] \notin Saving) /\ ~old => saved = state
  /\ \A c \in Commanders : cpc[c] = "write" /\ c \notin stale => cval[c] = state

\* However the commands of two tasks interleave, CFG_ID_STATE is the section's
\* state whenever no command is in progress, unless the last cfg_write() was
\* of a state formatted before the other task's command stored a new one
\* (system.c system_set(), system_unset(), _save_state()), after any number
\* of resets.
THEOREM SavedState == Spec => []SavedIsCurrent
<1>1. Init => SaveInv
  BY DEF Init, Boot, SaveInv
<1>2. TypeOK /\ SaveInv /\ [Next]_vars => SaveInv'
  <2> SUFFICES ASSUME TypeOK, SaveInv, [Next]_vars PROVE SaveInv'
    OBVIOUS
  <2>1. ASSUME UNCHANGED <<state, saved, cpc, cval, stale, old>>
        PROVE  SaveInv'
    BY <2>1 DEF SaveInv
  <2>2. ASSUME NEW c \in Commanders, NEW l, Goto(c, l), l \in Saving,
               \A d \in Commanders : cpc'[d] = "write" /\ d \notin stale'
                                       => cval'[d] = state'
        PROVE  SaveInv'
    <3>1. cpc'[c] = l
      BY <2>2 DEF Goto, TypeOK, TaskTypeOK
    <3> QED BY <2>2, <3>1 DEF SaveInv
  <2>3. CASE timer_task
    BY <2>1, <2>3 DEF timer_task, Tick, BeepOn, BeepOff, section, command,
       storage
  <2>4. CASE section_task \/ storage_maintenance
    BY <2>1, <2>4 DEF section_task, TimerExpired, ExitDelayOver, EntryAlarm,
       storage_maintenance, section, command, storage
  <2>5. CASE event_task
    BY <2>1, <2>5 DEF event_task, AlarmEvent, AlarmTrigger, section, command,
       storage
  <2>6. ASSUME NEW i \in Inputs, system_inp_activated(i) PROVE SaveInv'
    BY <2>1, <2>6 DEF system_inp_activated, section, command, storage
  <2>7. ASSUME NEW c \in Commanders, NEW l,
               cpc' = [cpc EXCEPT ![c] = l], l # "write",
               UNCHANGED <<state, saved, cval, stale, old>>,
               l \in Saving \/ cpc[c] = "idle"
        PROVE  SaveInv'
    <3>1. \A d \in Commanders : cpc'[d] = IF d = c THEN l ELSE cpc[d]
      BY <2>7 DEF TypeOK, TaskTypeOK
    <3>2. cpc[c] = "idle" => cpc[c] \notin Saving
      BY DEF Saving
    <3> QED BY <2>7, <3>1, <3>2 DEF SaveInv
  <2>8. ASSUME NEW c \in Commanders, SetBegin(c) \/ UnsetBegin(c)
        PROVE  SaveInv'
    BY <2>7, <2>8 DEF SetBegin, UnsetBegin, Free, Goto, storage
  <2>9. ASSUME NEW c \in Commanders,
               SetReset(c) \/ UnsetAlarm(c) \/ UnsetReset(c)
        PROVE  SaveInv'
    BY <2>7, <2>9 DEF SetReset, UnsetAlarm, UnsetReset, Goto, storage, section,
       Saving
  <2>10. ASSUME NEW c \in Commanders, SetCommit(c) \/ UnsetCommit(c)
         PROVE  SaveInv'
    <3> DEFINE l == IF SetCommit(c) THEN "set_reset" ELSE "unset_alarm"
    <3>1. Goto(c, l) /\ l \in Saving /\ stale' = stale \cup Formatted
      BY <2>10 DEF SetCommit, UnsetCommit, Saving
    <3>2. l # "write"
      OBVIOUS
    <3> HIDE DEF l
    <3>3. \A d \in Commanders : cpc'[d] = "write" => cpc[d] = "write"
      BY <3>1, <3>2 DEF Goto, TypeOK, TaskTypeOK
    <3>4. \A d \in Commanders : cpc'[d] = "write" => d \in stale'
      BY <3>1, <3>3 DEF Formatted
    <3> QED BY <2>2, <3>1, <3>4
  <2>11. ASSUME NEW c \in Commanders, SaveFormat(c) PROVE SaveInv'
    <3>1. /\ Goto(c, "write") /\ state' = state /\ stale' = stale
          /\ cval' = [cval EXCEPT ![c] = state]
      BY <2>11 DEF SaveFormat, section, storage
    <3>2. \A d \in Commanders :
            /\ cpc'[d] = IF d = c THEN "write" ELSE cpc[d]
            /\ cval'[d] = IF d = c THEN state ELSE cval[d]
      BY <3>1 DEF Goto, TypeOK, TaskTypeOK
    <3>3. \A d \in Commanders : cpc'[d] = "write" /\ d \notin stale'
                                  => cval'[d] = state'
      BY <3>1, <3>2 DEF SaveInv
    <3> QED BY <2>2, <3>1, <3>3 DEF Saving
  <2>12. ASSUME NEW c \in Commanders, SaveWrite(c) PROVE SaveInv'
    <3>1. /\ cpc[c] = "write" /\ state' = state /\ saved' = cval[c]
          /\ cpc' = [cpc EXCEPT ![c] = "idle"]
          /\ cval' = [cval EXCEPT ![c] = "UNSET"]
          /\ old' = (c \in stale) /\ stale' = stale \ {c}
      BY <2>12 DEF SaveWrite, Goto, section
    <3>2. \A d \in Commanders :
            /\ cpc'[d] = IF d = c THEN "idle" ELSE cpc[d]
            /\ d # c => cval'[d] = cval[d]
      BY <3>1 DEF TypeOK, TaskTypeOK
    <3>3. ~old' => saved' = state'
      BY <3>1 DEF SaveInv
    <3>4. \A d \in Commanders : cpc'[d] = "write" /\ d \notin stale'
                                  => cval'[d] = state'
      BY <3>1, <3>2 DEF SaveInv
    <3> QED BY <3>3, <3>4 DEF SaveInv
  <2>13. CASE Reset
    BY <2>13 DEF Reset, SaveInv
  <2>14. CASE UNCHANGED vars
    BY <2>1, <2>14 DEF vars, section, command, storage
  <2> QED
    BY <2>3, <2>4, <2>5, <2>6, <2>8, <2>9, <2>10, <2>11, <2>12, <2>13, <2>14
    DEF Next, system_set, system_unset, save_state
<1>3. SaveInv => SavedIsCurrent
  BY DEF SaveInv, SavedIsCurrent, Quiet, Saving
<1> QED BY <1>1, <1>2, <1>3, TypeCorrect, PTL DEF Spec
=============================================================================
