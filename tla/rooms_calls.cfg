\* Two HTTP requests at a time on two rooms; each add is a handshake.
SPECIFICATION HandshakeSpec
CONSTANTS
    Rooms = {a, b}
    Callers = {c1, c2}
    Sups = {s1, s2, s3}
    None = None
    NoKeys = NoKeys
    NoOne = NoOne
INVARIANTS
    
    StopWaits
    RetryHasNewKeys
    LockServed
PROPERTY OperationsReturn
CHECK_DEADLOCK FALSE
