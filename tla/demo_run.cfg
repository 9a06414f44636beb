SPECIFICATION DemoSpec
CONSTANTS
    Clients = {c1}
    Keys = {k1, k2}
    DemoKey = k1
    Nothing = Nothing
INVARIANTS
    DemoTypeOK
    OkMeansDone
    KeyDecides
PROPERTIES
    DemoEnds
CHECK_DEADLOCK FALSE
