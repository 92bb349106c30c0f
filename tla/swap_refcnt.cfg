CONSTANTS
  NPROC = 2
  NPages = 3
  Frames = {8, 9, 10, 11, 12, 13}
  NoFrame = 0
  Values = {"a", "b"}
  Zero = "a"
  InitCode = "b"
  Junk = Junk
  Stored = {1, 2}
  Deltas = {1}
  Images <- NoImages
  AtomicRefcnt = TRUE
  NSLOTS = 3
  SWAPBASE = 2
  BPPAGE = 8
  Calls <- Solo
  MaxPid = 2
  AtomicSlots = FALSE
SPECIFICATION MCSpec
INVARIANTS
  RefcntNotLow
CHECK_DEADLOCK FALSE
