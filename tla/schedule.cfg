SPECIFICATION Spec
CONSTANTS
    a1 = a1
    a2 = a2
    a3 = a3
    c2 = c2
    c3 = c3
    Genesis = Genesis
    Blocks <- MCBlocks
    Parent <- MCParent
    MaxNotes = 3
INVARIANTS
    TypeOK
    LoggedParentIsParent
    
