SPECIFICATION FairSpec
CONSTANTS
  Messages = {"a", "b", "c", "d"}
  Id <- MCId
  Total <- MCTotal
  Known = {"b"}
  Slots = 2
  Pool = 2
  DayLimit = 2
  Tries = 1
  Answer = 2
  MaxFaults = 1
INVARIANTS
  WholeMessages
PROPERTIES
  ReadOut
  AllHandled
\* A bounded number of messages arrives.
CHECK_DEADLOCK FALSE
