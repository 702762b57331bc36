\* Two faults or commands at any step.
SPECIFICATION FairSpec
CONSTANTS
  Commands = {"ON", "OFF", "START", "RESET", "DEBUG"}
  ErrLimit = 3
  Repeat = 2
  PinMin = 3
  MaxFaults = 2
INVARIANTS
  LteIsRegistered
  SimNeverLocked
PROPERTIES
  DataComesUp
