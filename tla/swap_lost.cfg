CONSTANTS
  NPROC = 2
  NPages = 3
  Frames = {41, 42, 43, 44, 45, 46}
  NoFrame = 0
  Values = {"a", "b"}
  Zero = "a"
  InitCode = "b"
  Junk = Junk
  Stored = {0}
  Deltas = {1}
  Images <- NoImages
  AtomicRefcnt = TRUE
  NSLOTS = 3
  SWAPBASE = 2
  BPPAGE = 8
  Calls <- Busy
  MaxPid = 2
  AtomicSlots = FALSE
SPECIFICATION MCSpec
VIEW FrameBlind
INVARIANTS
  SlotHoldsPage
CHECK_DEADLOCK FALSE
