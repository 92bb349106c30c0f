SPECIFICATION MCSpec
CONSTANTS
  NPROC = 3
  PIPESIZE = 2
  UINT = 4
  WriteSizes = {2}
  ReadSizes = {1, 2}
INVARIANTS PTypeOK NoLostWakeup PageWhileUsed
PROPERTIES BytesInOrder KilledExit OrphansReaped
CHECK_DEADLOCK FALSE
