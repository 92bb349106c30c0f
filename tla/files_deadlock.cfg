CONSTANTS
  Proc = {1, 2, 3}
  NINODES = 14
  NINODE = 13
  SIZE = 66
  BSIZE = 3
  NDIRECT = 2
  IPB = 2
  BPB = 54
  NLOG = 24
  NSWAP = 8
  NFILE = 5
  NOFILE = 4
  MAXOPBLOCKS = 8
  MaxCrashes = 0
  INPUT_BUF = 4
  Tests = {"linkunlink"}
  Programs <- MCPrograms
  Files0 <- MCFiles0
  Keyboard <- MCKeyboard
SPECIFICATION MCSpec
INVARIANT NoLockCycle
CHECK_DEADLOCK FALSE
