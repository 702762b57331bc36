\* Answers are lost, late or doubled, and writes fail.
SPECIFICATION UpdateFairSpec
CONSTANTS
  Chunks = 3
  ErrLimit = 2
  MaxCopies = 2
INVARIANTS
  AckMeansStored
  ImageComplete
PROPERTY
  SessionEnds
