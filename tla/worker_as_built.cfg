SPECIFICATION LiveSpec
CONSTANTS
    Runs = {r1}
    Keys = {k1}
    NotUtf8 = NotUtf8
    Absent = Absent
    PoolSize = 1
    HttpEnabled = FALSE
    Chunks = 0
PROPERTIES
    KeyedRunsSend
