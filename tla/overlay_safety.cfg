SPECIFICATION Spec
CONSTANTS
  Windows = {w1, w2}
  NoWindow = NoWindow
  NoSession = NoSession
  NoRequest = NoRequest
  MaxInteractions = 2
  Immovable = {w2}
  ResultCapacity = 15
  CommandCapacity = 15
  SettingsValues <- MCSettings
  MaxFailures = 1
INVARIANTS ReservationOwned QueuesStayShort FinishingIsServed PreviewIsTemporary
PROPERTIES ImplementsWindowGrab
CHECK_DEADLOCK FALSE
