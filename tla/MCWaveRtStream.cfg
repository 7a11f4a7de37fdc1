SPECIFICATION FairSpec
CONSTANTS
  Frame = 2
  BufferSizes = {3, 4}
  MaxPosition = 11
  None = None
INVARIANTS TypeOK NoUseAfterFree CaptureIsContiguous PositionsAgree ScheduledIffRunning
PROPERTIES CallsReturn NotificationsArrive
