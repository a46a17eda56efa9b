SPECIFICATION FairSpec
CONSTANTS
  Workers = {w1, w2}
  Chunks = 2
  MaxResults = 0
INVARIANTS TypeOK SavedDumpIsWhole
PROPERTIES ButtonReturns
