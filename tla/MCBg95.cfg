SPECIFICATION FairSpec
CONSTANTS
  Peers = {p, q}
  None = None
  LastSocket = 0
  Hosts = {h, k}
  TxLimit = 1
  MaxFaults = 2
INVARIANTS
  
  ResolvedIsAsked
PROPERTIES
  DeafIsDropped
