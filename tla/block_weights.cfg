SPECIFICATION FairSpec
CONSTANTS
    MAXIMUM_BLOCK_WEIGHT = 40
    BlockExecutionWeight = 1
    ExtrinsicBaseWeight = 1
    MAXIMUM_BLOCK_LENGTH = 4
    MILLI_UNIT = 1500
    Billion = 1000
    One = 10
    Multipliers = {1, 10, 13}
    Weights = {0, 1, 2, 10, 20, 27, 37}
    Lengths = {1, 2}
    MaxBacklog = 20
INVARIANTS
    TypeOK
    BlockBounded
    RoomForTransactions
    FeesFollowWeight

    
