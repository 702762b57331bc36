\* Two images of different length; power cuts, failures, uploads, downloads.
SPECIFICATION FairSpec
CONSTANTS
  old = old
  new = new
  Images <- MCImages
  Length <- MCLength
  MaxLength = 3
  LoopLimit = 1
  MaxInputs = 5
  Junk = Junk
INVARIANTS
  CompleteRuns
  Recoverable
PROPERTIES
  ComesUp
  FlashServed
