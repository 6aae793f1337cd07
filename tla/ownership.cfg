CONSTANTS
  Originators = {a, b}
  Serials = {c1}
  OwnerSlot = 0
  InputSlots = {1}
  ListenSlots = {}
  ExplicitSlots = {}
  OwnerPoint = 150
  InputPoint = 152
  ListenPoint = 153
  TtoOTypes = {"Multicast", "PointToPoint"}
  PacketOrders = {FALSE}
  Descriptors = {0, 1, 2}
  SessionHandles = {1}
  Watchdog = 1
  InitialWatchdog = 1
SPECIFICATION Spec
SYMMETRY Symmetry
VIEW StackView
INVARIANTS ListConsistent SingleMulticastProducer
PROPERTY ImplementsOwnership
