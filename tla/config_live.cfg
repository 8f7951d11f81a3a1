\* Edits, removals, malformed contents, reloads and saves, at any moment of a load.
\* An edit that is not UTF-8 ends the program, after which nothing is left to do.
SPECIFICATION FairSpec
CONSTANTS
    Settings = {s1, s2, s3}
    Default = s1
    Unseen = Unseen
    MaxWrites = 4
CHECK_DEADLOCK FALSE
INVARIANTS
    NotStale
    ListenersFollow
PROPERTY Converges
