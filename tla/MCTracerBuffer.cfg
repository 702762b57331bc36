\* A ring of four that turns, with restarts, and answers that are lost, late or doubled.
SPECIFICATION BufFairSpec
CONSTANTS
  Bits = 2
  TrackLimit = 2
  MaxPoints = 5
  MaxAnswers = 2
  MaxRestarts = 1
CONSTRAINT NothingLost
INVARIANTS
  DeliveredIsReceived
  FoundAgain
PROPERTY
  PointsDelivered
\* Points are stored up to a bound and then there is nothing left to do.
CHECK_DEADLOCK FALSE
