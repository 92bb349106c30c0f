CONSTANTS
  NPROC = 2
  NPages = 4
  Frames = {41, 42, 43, 44, 45, 46, 47}
  NoFrame = 0
  Values = {"a", "b"}
  Zero = "a"
  InitCode = "b"
  Junk = Junk
  Stored = {1, 2, 3}
  Deltas = {1}
  Images <- NoImages
  AtomicRefcnt = TRUE
  NSLOTS = 4
  SWAPBASE = 2
  BPPAGE = 8
  Calls <- Solo
  MaxPid = 2
  AtomicSlots = FALSE
SPECIFICATION MCSpec
VIEW svars
INVARIANTS
  STypeOK
  SlotsExact
  SFramesPartitioned
  NeverPanics
PROPERTY SwapIsolation
