SPECIFICATION FairSpec
CONSTANTS
  HaltEps = {"CDC"}
  MPS = 64
  Menus <- mcMenus
  NoRequest <- mcNoRequest
  LedModes = {0, 1, 2, 3}
  Watched = {"config", "wakeup", "coding", "idle", "led", "repeat"}
  MaxEarly = 1
  MaxSuspends = 1
INVARIANTS TypeOK BeliefHolds AddressAgrees
PROPERTIES ImplementsTransfer RequestsEnd
