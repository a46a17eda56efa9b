SPECIFICATION FairSpec
CONSTANTS
  KeyNum = 2
  RepeatKeys = {0}
  RepeatTicks = 2
  QueueSize = 3
  MaxRequests = 1
INVARIANTS TypeOK AtMostOneHeld OffBetweenOns TaintedKeysSilent
PROPERTIES ReleaseSeen PressSeen LatchOpens
