CHECK_DEADLOCK FALSE
SPECIFICATION Spec
CONSTANTS
  Slots = 2
  Subs = {"client", "other"}
  Client = "client"
  WireCap = 2
  Frames = 4
INVARIANTS ReadsItsFrameUnlessLapped
PROPERTIES CopiesTheFile
