CONSTANTS
  PROBE_NUM = 2
  ANNOUNCE_NUM = 2
  MaxAttempts = 5
  MAX_CONFLICTS = 2
  EventQueueLength = 2
  MailboxSize = 2
  MaxDeferred = 3
SPECIFICATION FairSpec
INVARIANTS AddressTypeOK ConflictRemovesAddress 
PROPERTIES AddressAcquired RetriesEnd
