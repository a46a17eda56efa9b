SPECIFICATION FairSpec
CONSTANTS
  HaltEps = {}
  MaxEvents = 2
  Kinds = {"ON", "REPEAT", "OFF", "MACRO2", "MACRO3"}
  BusEvents = {"reset", "suspend", "unconfigure"}
INVARIANT TypeOK
PROPERTIES TapsOnceInOrder ReleasedBetween TapReleases EveryTapTyped
