CONSTANTS
  Servers = {s1, s2, s3}
  NoTask = noTask
SPECIFICATION FairSpec
INVARIANTS RefusedForServer OneServer
PROPERTIES StoppedServersEnd RestartedServerStays
