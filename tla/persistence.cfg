\* Suggestions made and accepted while saves, changes of database, stops and crashes come in between.
SPECIFICATION Spec
CONSTANTS
    Ids = {i1, i2, i3}
    Texts = {x, y}
    a1 = a1
    a2 = a2
    b1 = b1
    pa = pa
    pb = pb
    Stores <- MCStores
    Paths <- MCPaths
    PathOf <- MCPathOf
    None = None
    Window = 1
    Horizon = 1
    Limit = 1
    MaxTime = 2
    MaxWork = 5
SYMMETRY Symmetry
CHECK_DEADLOCK FALSE
INVARIANTS
    RowsCatchUp
    StopFlushes
    NoRepeat
PROPERTIES
    ImplementsLedger
