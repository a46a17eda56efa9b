SPECIFICATION Spec
CONSTANTS
  Chunks = 3
  MaxPreempt = 1
  BusEvents = {}
  GiveUps = FALSE
  HaltEps = {}
INVARIANT StreamInOrder
