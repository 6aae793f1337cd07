CONSTANTS
  Originators = {a}
  Serials = {c1, c2, c3}
  OwnerSlot = 0
  InputSlots = {1}
  ListenSlots = {2}
  ExplicitSlots = {}
  OwnerPoint = 150
  InputPoint = 152
  ListenPoint = 153
  TtoOTypes = {"Multicast"}
  PacketOrders = {FALSE}
  Descriptors = {0, 1, 2}
  SessionHandles = {1}
  Watchdog = 1
  InitialWatchdog = 1
SPECIFICATION Spec
SYMMETRY Symmetry
VIEW StackView
INVARIANT ProducerExists
PROPERTY InputOnlyOutlivesOthers
