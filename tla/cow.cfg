CONSTANTS
  NPROC = 3
  NPages = 3
  Frames = {1, 2, 3, 4, 5, 6, 7, 8, 9, 10, 11, 12, 13, 14}
  NoFrame = NoFrame
  Values = {"a", "b"}
  Zero = "a"
  InitCode = "b"
  Junk = Junk
  Stored = {0, 1}
  Deltas = {1}
  Images <- OneImage
  Loads = {"share", "exec"}
  AtomicRefcnt = TRUE
SPECIFICATION MCSpec
VIEW FrameBlind
INVARIANTS
  TypeOK
  RefcntExact
  WritableIsPrivate
  IInv
  FramesPartitioned
  NoPanic
PROPERTY Isolation
