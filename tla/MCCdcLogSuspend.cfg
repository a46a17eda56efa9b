SPECIFICATION FairSpec
CONSTANTS
  HaltEps = {}
  BufSize = 4
  LineLen = 1
  PacketLen = 2
  BusEvents = {"suspend"}
  MaxRequests = 0
  MaxBusEvents = 3
  MaxOpens = 1
PROPERTY SuspendReported
