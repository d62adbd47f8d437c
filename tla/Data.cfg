SPECIFICATION MCSpec
CONSTANTS
  Operations <- MCOperations
  Bases <- MCBases
  MaxOps = 3
  MaxResults = 2
  Keys <- MCKeys
  Scalars = {1, 2, 3, 4}
  KindOf <- MCKindOf
  AnyKind = "any"
  Unset = 0
  Writers = {w1, w2}
  Sizes = {1, 2, 3, 4}
  Bytes <- MCBytes
  Chunks <- MCChunks
  Following <- MCFollowing
  Source <- MCSource
  Mark <- MCMark
  NewLine = 0
  Stale = 9
  MaxWrites = 3
  MaxFailures = 1
  Slack = 2
CHECK_DEADLOCK FALSE
 
INVARIANT ResultsStay
INVARIANT LinesWhole
INVARIANT ReadInOrder
