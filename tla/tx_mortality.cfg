SPECIFICATION Spec
CONSTANTS
    BlockHashCount = 5
    NoTx = NoTx
    MaxBlock = 6
    MaxForks = 2
    MaxTxs = 2
INVARIANTS
    TypeOK
    EraMeansLife
    IncludedOnItsFork
PROPERTIES
    FreshIsIncludable
