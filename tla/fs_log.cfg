SPECIFICATION Spec
CONSTANTS
  Proc = {1, 2}
  Blocks <- MCBlocks
  NBUF = 4
  Unread = Unread
  Home = {11, 12}
  Swap = {21}
  Values = {0, 1}
  Zero = 0
  MAXOPBLOCKS = 2
  LOGSIZE = 4
  MaxCalls = 1
  MaxCrashes = 2
INVARIANTS LTypeOK NoLogPanic SleepersWoken
PROPERTIES AllOrNothing CallsReturn
CHECK_DEADLOCK FALSE
