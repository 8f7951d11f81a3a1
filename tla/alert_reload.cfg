\* The alert path under connection failures, hot reloads and time.
SPECIFICATION FairSpec
CONSTANTS
    Configs <- SmallConfigs
    Never = Never
    MaxRounds = 3
    MaxTime = 3
INVARIANTS
    AlertIsEarned
PROPERTIES
    OutageStaysAnnounced
    FailureIsNoticed
