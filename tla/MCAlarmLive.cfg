\* Liveness: nobody cuts the power; commands come by SMS.
SPECIFICATION FairSpec
CONSTANTS
  DelayInputs = {4}
  InstantInputs = {3}
  Commanders = {"comm"}
  TmOut = 1
  TmIn = 1
  Postpone = 1
  AlarmMaxCnt = 1
  SirenTime = 1
  AlarmTime = 2
  AlarmsMax = 1
  MaxPending = 1
  Resets = FALSE
  NoInput = NoInput
PROPERTIES
  SirenStops
  IntrusionRaisesAlarm
  EntryDelayRaisesAlarm
