CONSTANTS
  Originators = {a}
  Serials = {c1}
  OwnerSlot = 0
  InputSlots = {1}
  ListenSlots = {}
  ExplicitSlots = {}
  OwnerPoint = 150
  InputPoint = 152
  ListenPoint = 153
  TtoOTypes = {"Multicast"}
  PacketOrders = {FALSE, TRUE}
  Descriptors = {0, 1, 2}
  SessionHandles = {1}
  Watchdog = 2
  InitialWatchdog = 3
SPECIFICATION FairSpec
PROPERTY SilentConnectionEnds
