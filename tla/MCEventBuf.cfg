\* The tasks overlap where they log; memory and sending may fail.
SPECIFICATION FairSpec
CONSTANTS
  Size = 3
  Users = {u1, u2}
  MaxEvents = 5
  Failures = {"memory", "send"}
  Nil = Nil
  NoUser = NoUser
INVARIANTS
  Chained
PROPERTIES
  IsOutbox
  EventsTaken
CHECK_DEADLOCK FALSE
