SPECIFICATION LiveSpec
CONSTANTS
    Runs = {r1, r2}
    Keys = {k1}
    NotUtf8 = NotUtf8
    Absent = Absent
    PoolSize = 1
    HttpEnabled = TRUE
    Chunks = 2
INVARIANTS
    TypeOK
    OkIsATextualSuccess
    QueueExact
PROPERTIES
    EveryRunEnds
