CONSTANTS
  Owner = owner
  Inputs = {i1, i2}
  NoConnection = noConnection
  Numbers = 16
  DataNumbers = 16
  Watchdog = 3
  InitialWatchdog = 4
  Rpi = 4
  InhibitTime = 3
  LongestCycle = 2
  Delay = 1
SPECIFICATION Spec
SYMMETRY Symmetry
VIEW TransportView
INVARIANTS TransportTypeOK FreshData SilenceEnds StreamGoesOn
PROPERTIES InOrder NotTimedOutEarly StreamInSequence
