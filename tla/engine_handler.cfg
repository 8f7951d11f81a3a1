\* A watch handler that raises ends the scheduler task, and with it stop().
SPECIFICATION Spec
CONSTANTS
    Owners = {o1}
    Loops = {l1, l2}
    None = None
    ColdStart = 2
    MinGap = 2
    MaxDelay = 1
    Tidy = TRUE
    MaxSessions = 1
    MaxTime = 2
    MaxSuggestions = 1
INVARIANT StopIsComplete
