\* Two tasks that call start_room, start and stop at the same time.
SPECIFICATION FairSpec
CONSTANTS
    Callers = {c1, c2}
    Runs = {r1, r2}
    NoRun = NoRun
    MaxExp = 1
INVARIANTS
    OneSocket
    NoOrphan
    HeartbeatHasSocket
    SlotKeepsGoing
PROPERTIES
    ImplementsLifecycle
    OnlyObserverKillsLoop
    StopTerminates
    Reconnects
