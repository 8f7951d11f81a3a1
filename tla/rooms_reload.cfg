\* Changes of the file, overlapping or not, and stop_all() at any moment.
SPECIFICATION FairSpec
CONSTANTS
    Rooms = {1, 2}
    Tasks = {t1, t2}
    Engines = {e1, e2, e3}
    Paths = {p}
    None = None
    MaxEdits = 2
CHECK_DEADLOCK FALSE
INVARIANTS
    RoomsConvergeInTurn
    UpToDate
    NoneLost
    StopAllComplete
PROPERTIES
    HostIsTidy
    EverythingEnds
