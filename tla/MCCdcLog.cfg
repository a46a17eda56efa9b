SPECIFICATION FairSpec
CONSTANTS
  HaltEps = {}
  BufSize = 4
  LineLen = 1
  PacketLen = 2
  BusEvents = {"reset", "suspend", "unconfigure"}
  MaxRequests = 1
  MaxBusEvents = 3
  MaxOpens = 1
INVARIANTS TypeOK StreamContiguous ValueNotStale GreetedOncePerOpening
PROPERTIES NeverRepeated EventsInOrder LogDrains
