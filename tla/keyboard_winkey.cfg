SPECIFICATION Spec
CONSTANTS
  SuperKeys = {LWin, RWin}
  InitialSuper = LWin
  Modifiers = {Shift}
  OrdinaryKeys = {KeyA}
  QueueCapacity = 3
  MaxEvents = 5
  MaxRequests = 2
  PreemptibleWait = FALSE
INVARIANTS WinKeyNotStuck
CHECK_DEADLOCK FALSE
