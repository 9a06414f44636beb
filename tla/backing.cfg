SPECIFICATION FairSpec
CONSTANTS
    Files <- MCFiles
    NoSpec = NoSpec
    NoPreset = NoPreset
    Chains = {"dev", "template-rococo", "", "local", "edited.json", "nothing.json"}
    Cycle = 4
    Reliable = "Bob"
INVARIANTS
    TypeOK
    SlotsInOrder
    CoreNeverIdles
PROPERTIES
    ChainAdvances
