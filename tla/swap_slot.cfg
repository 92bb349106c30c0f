CONSTANTS
  NPROC = 2
  NPages = 3
  Frames = {41, 42, 43, 44, 45, 46, 47}
  NoFrame = 0
  Values = {"a"}
  Zero = "a"
  InitCode = "a"
  Junk = Junk
  Stored = {0}
  Deltas = {1}
  Images <- PlainImage
  AtomicRefcnt = FALSE
  NSLOTS = 2
  SWAPBASE = 2
  BPPAGE = 8
  Calls <- Duo
  MaxPid = 2
  AtomicSlots = FALSE
SPECIFICATION MCSpec
VIEW FrameBlind
INVARIANTS
  SlotExclusive
CHECK_DEADLOCK FALSE
