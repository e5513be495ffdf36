SPECIFICATION FairSpec
CONSTANTS
  Windows = {w1, w2}
  NoWindow = NoWindow
  NoSession = NoSession
  NoRequest = NoRequest
  MaxInteractions = 2
  Immovable = {w2}
  ResultCapacity = 15
  CommandCapacity = 15
  SettingsValues <- MCSettings
  MaxFailures = 1
CONSTRAINT NoneMaximized
PROPERTIES InteractionEnds ShutdownCompletes
CHECK_DEADLOCK FALSE
