CONSTANTS
  NPROC = 3
  NPages = 2
  Frames = {1, 2, 3, 4, 5, 6, 7, 8, 9, 10, 11, 12, 13}
  NoFrame = NoFrame
  Values = {"a", "b"}
  Zero = "a"
  InitCode = "b"
  Junk = Junk
  Stored = {1}
  Deltas = {1}
  Images <- NoImages
  Loads = {"any"}
  AtomicRefcnt = FALSE
SPECIFICATION MCSpec
VIEW FrameBlind
INVARIANTS
  WritableIsPrivate
