SPECIFICATION FairSpec
CONSTANTS
  SuperKeys = {LWin}
  InitialSuper = LWin
  Modifiers = {Shift}
  OrdinaryKeys = {}
  QueueCapacity = 3
  MaxEvents = 4
  MaxRequests = 2
  PreemptibleWait = TRUE
PROPERTIES ReloadServed
CHECK_DEADLOCK FALSE
