SPECIFICATION FairSpec
CONSTANTS
  Chunks = 4
  MaxPreempt = 2
  BusEvents = {"reset", "suspend", "unconfigure"}
  GiveUps = TRUE
  HaltEps = {"VENDOR"}
INVARIANTS TypeOK ReadsInsideRam CleanStreamInOrder CleanDumpIsWhole NoEmptyOrForeignPacket
PROPERTY ReadEnds
