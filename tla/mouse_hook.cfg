SPECIFICATION FairSpec
CONSTANTS
  NoButton = NoButton
  Buttons = {Left}
  QueueCapacity = 1
  MaxPresses = 2
  MaxEvents = 4
CHECK_DEADLOCK FALSE
INVARIANTS HookFollowsSuper ButtonsNotStuck
PROPERTIES OperationEnds
