CONSTANTS
  Tasks = {t1, t2}
  NoTask = NULL
  Httpd = httpd
  NoSlot = none
  ImageChunks = 3
SPECIFICATION FairSpec
INVARIANTS
  OneWriter
  BootImageWhole
  StatusTruthful
PROPERTIES
  ImplementsTwoSlotUpdate
  
  InstalledIsStarted
