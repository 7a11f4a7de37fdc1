SPECIFICATION FairSpec
CONSTANTS
  Capacity = 2
  MaxFrameSequence = 3
  left = left
  right = right
  Samples <- TwoSamples
  SnapshotAttempts = 2
INVARIANTS TypeOK NoTornFrame HeardInOrder ExactAccounting QueryFailsOnlyUnderTraffic
PROPERTIES ImplementsLossyQueue FramesLeaveTheRing
