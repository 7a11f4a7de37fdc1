SPECIFICATION FairSpec
CONSTANTS
  internal = internal
  headset = headset
  None = None
  Endpoints <- Machine
  MaxReopenFailures = 2
  Budget = 2
  PacketsPerFrame = 2
  QueueCapacity = 2
  SequenceLimit = 1
  MaxPackets = 2
  MaxTimers = 2
  MaxChanges = 2
INVARIANTS TypeOK SequencesAreAccounted RetriesAreBounded StaleEndpointIsAnnounced 
PROPERTIES RecoveryEnds
