SPECIFICATION CommandsSpec
CONSTANTS
    Configurations <- MCConfigurations
INVARIANTS
    CommandsTypeOK
    NetworkIsLast
    KeyLossHasACause
    PurgeForgets
PROPERTIES
    NoZombies
