SPECIFICATION Spec
CONSTANTS
    Runs = {r1, r2}
    Keys = {k1, k2}
    NotUtf8 = NotUtf8
    Absent = Absent
    PoolSize = 2
    HttpEnabled = TRUE
    Chunks = 0
SYMMETRY Symmetry
INVARIANTS
    KeyReadByThisRun
    GivesUpForAReason
PROPERTIES
    ImplementsContract
