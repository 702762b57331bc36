\* A FIFO of three and a memory of four records; both wrap and the FIFO is
\* overrun, by calls that overlap or not, with restarts anywhere.
SPECIFICATION MemFairSpec
CONSTANTS
  Producers = {fast, comm}
  Size = 3
  MaxEvents = 5
  MemSize = 4
INVARIANTS
  AloneInOrder
  NewestFirst
  NewestFoundAgain
PROPERTY
  AllProcessed
