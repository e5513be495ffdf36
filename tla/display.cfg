SPECIFICATION Spec
CONSTANTS
    Targets = {t1, t2}
    NoTarget = NoTarget
    Sizes = {small, large}
    NoSize = NoSize
    Customs = {ps1}
    BuiltIn = BuiltIn
    NoShader = NoShader
    MaxFaults = 2
    MaxUpdates = 2
    MaxChanges = 2
    MaxBegins = 2
INVARIANTS FrameIsRight HiddenWhenIdle ParkHasThumbnail
CHECK_DEADLOCK FALSE
