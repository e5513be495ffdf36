SPECIFICATION Spec
CONSTANTS
  Generics = {"CTRL", "ALT"}
  Concretes = {"LCTRL", "RCTRL"}
  Names = {"ENTER", "PAUSE"}
  MaxTokens = 3
  MaxChords = 2
  Values = {"u", "v"}
  MaxIndex = 4
  MaxColors = 3
  Desktops <- MCDesktops
  Rules <- MCRules
  MaxRules = 2
  Screen = {0, 1, 2, 4, 6}
  Places <- MCPlaces
  Corners = {"Closest", "TopRight"}
  MinSizes = {0, 3}
  MaxSizes = {0, 4}
  DefaultMin = 2
  Payloads = {p, q}
  Torn = torn
  RingSize = 4
INVARIANTS LatestBindRuns SentIsBalanced ReadsBack TablesReadWhole BoundsFollowCursor
INVARIANTS LastRuleDecides RoutinesAgree
PROPERTIES LandsAsShown ImplementsBoundedQueue
CHECK_DEADLOCK FALSE
