SPECIFICATION Spec
CONSTANTS
    MaxInstructions = 4
    Nested <- MCNested
    MaxMessages = 1
INVARIANTS
    TypeOK
    Conserved
    PrivilegeNeedsRelay
PROPERTIES
    NothingForFree
    
