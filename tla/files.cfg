CONSTANTS
  Proc = {1, 2, 3}
  NINODES = 14
  NINODE = 13
  SIZE = 66
  BSIZE = 3
  NDIRECT = 2
  IPB = 2
  BPB = 54
  NLOG = 24
  NSWAP = 8
  NFILE = 5
  NOFILE = 4
  MAXOPBLOCKS = 8
  MaxCrashes = 1
  INPUT_BUF = 4
  Tests = {"iputtest", "exitiputtest", "openiputtest", "iref", "opentest", "writetest", "writetest1", "createtest", "dirtest", "exectest", "unlinkread", "linktest", "bigdir", "bigwrite", "bigfile", "fourteen", "rmdot", "dirfile", "subdir", "exitwait", "forktest", "preempt", "sharedfd", "fourfiles", "createdelete", "concreate", "linkunlink", "init", "ls", "zombie", "reader", "limits", "race"}
  Programs <- MCPrograms
  Files0 <- MCFiles0
  Keyboard <- MCKeyboard
SPECIFICATION MCSpec
INVARIANTS FTypeOK NoFsPanic TestsPass OpFits RefsExact FsConsistent Committed RingInOrder
CHECK_DEADLOCK FALSE
PROPERTY Finishes
