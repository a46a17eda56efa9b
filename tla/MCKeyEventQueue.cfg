SPECIFICATION RingSpec
CONSTANTS
  Events = {on, off}
  NoEvent = none
  ZeroEvent = on
  Size = 3
INVARIANT RingTypeOK
PROPERTY ImplementsFifo
