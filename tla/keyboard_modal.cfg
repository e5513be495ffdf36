SPECIFICATION FairSpec
CONSTANTS
  SuperKeys = {LWin}
  InitialSuper = LWin
  Modifiers = {Shift}
  OrdinaryKeys = {KeyA}
  QueueCapacity = 3
  MaxEvents = 5
  MaxRequests = 2
  PreemptibleWait = TRUE
INVARIANTS TypeOK SuperViewsAgree DeferredHasTrigger NoReloadAfterExit
PROPERTIES ReloadServedWhenWoken
CHECK_DEADLOCK FALSE
