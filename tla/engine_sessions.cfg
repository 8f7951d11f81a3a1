\* Sessions started and stopped by a tidy host, suggestions from both sources.
SPECIFICATION FairSpec
CONSTANTS
    Owners = {o1}
    Loops = {l1, l2}
    None = None
    ColdStart = 2
    MinGap = 2
    MaxDelay = 1
    Tidy = TRUE
    MaxSessions = 2
    MaxTime = 6
    MaxSuggestions = 2
INVARIANTS
    GapKept
    ColdStartSilent
    OwnRoomOnly
PROPERTIES
    ImplementsLifecycle
    CallsReturn
