SPECIFICATION PalletsSpec
CONSTANTS
    Accounts = {alice, bob}
    Unsigned = {none, root}
    MaxNumber = 2
    NoValue = NoValue
    BlockSize = 3
SYMMETRY Symmetry
INVARIANTS
    PalletsTypeOK
    NumberAddsUp
    EventsTellStorage
