\* Commands by SMS (comm) and by UART or BLE (slow) interleave.
SPECIFICATION Spec
CONSTANTS
  DelayInputs = {4}
  InstantInputs = {3}
  Commanders = {"slow", "comm"}
  TmOut = 1
  TmIn = 1
  Postpone = 1
  AlarmMaxCnt = 1
  SirenTime = 1
  AlarmTime = 2
  AlarmsMax = 1
  MaxPending = 1
  Resets = TRUE
  NoInput = NoInput
INVARIANTS
  AlarmInputKnown
  NeverArmedIsQuiet
  SavedIsCurrent
  SirenLimited
