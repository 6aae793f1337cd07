CONSTANTS
  Originators = {a, b}
  Serials = {c1, c2}
  OwnerSlot = 0
  InputSlots = {1}
  ListenSlots = {2}
  ExplicitSlots = {4, 5}
  OwnerPoint = 150
  InputPoint = 150
  ListenPoint = 150
  TtoOTypes = {"Multicast", "PointToPoint"}
  PacketOrders = {FALSE}
  Descriptors = {0, 1, 2}
  SessionHandles = {1, 2}
  Watchdog = 1
  InitialWatchdog = 1
SPECIFICATION Spec
SYMMETRY Symmetry
VIEW StackView
INVARIANTS OwnerKeepsItsSockets SessionSocketsOpen NoNullNode
