SPECIFICATION FairSpec
CONSTANTS
  Clients = {c1, c2}
  Records = {r1, r2}
  Entries = {e1}
  Numbers = {8}
  Modulus = 12
  MaxCalls = 3
  MaxFaults = 1
  None = None
  Torn = Torn
  c1 = c1
  c2 = c2
CHECK_DEADLOCK FALSE
PROPERTY ImplementsRecords
INVARIANT ReadAllStable
INVARIANT SeqIncreases
PROPERTY CallsReturn
