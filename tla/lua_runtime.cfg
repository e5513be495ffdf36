SPECIFICATION FairSpec
CONSTANTS
  Keys = {KeyA}
  SuperKeys = {LWin, RWin}
  LWin = LWin
  Looks = {Plain, Fancy}
  Plain = Plain
  Intervals = {0, 1}
  MaxRefs = 5
  MaxTimers = 2
  MaxLoads = 2
  MaxOps = 3
  MaxCalls = 2
  MaxTime = 1
INVARIANTS RefsAccounted PublishedIsPending SafeModeIsClean
PROPERTIES TimersFireRightly CallbackReturns TimersYield
CHECK_DEADLOCK FALSE
