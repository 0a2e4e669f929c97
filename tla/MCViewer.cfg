CHECK_DEADLOCK FALSE
SPECIFICATION ViewerSpec
CONSTANTS
  Layouts <- MCLayouts
  QueueCap = 2
  FreeQueueCap = 1
  MaxFrames = 3
  MaxShots = 1
  MaxFaults = 1
  MaxSwitches = 1
INVARIANTS FramesOwnedOnce ShownAsAnnounced
PROPERTIES NewestIsDetected
