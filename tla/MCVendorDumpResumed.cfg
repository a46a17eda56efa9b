SPECIFICATION Spec
CONSTANTS
  Chunks = 3
  MaxPreempt = 1
  BusEvents = {"suspend"}
  GiveUps = FALSE
  HaltEps = {}
INVARIANT RetryReadsFromStart
