\* config.py says that a malformed edit is not fatal.
SPECIFICATION FairSpec
CONSTANTS
    Settings = {s1, s2}
    Default = s1
    Unseen = Unseen
    MaxWrites = 2
CHECK_DEADLOCK FALSE
INVARIANT EditIsNotFatal
