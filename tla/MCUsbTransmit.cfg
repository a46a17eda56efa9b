SPECIFICATION FairSpec
CONSTANT HaltEps = {"HID"}
INVARIANTS TypeOK HandleIffConfigured BusyHasPacket PacketHasBusy
PROPERTIES BusyClears
