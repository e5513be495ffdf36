SPECIFICATION FairSpec
CONSTANTS
  NoButton = NoButton
  Buttons = {Left}
  QueueCapacity = 2
  MaxPresses = 3
  MaxEvents = 4
CHECK_DEADLOCK FALSE
INVARIANTS OperationNeedsSuper
