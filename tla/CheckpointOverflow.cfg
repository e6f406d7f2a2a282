CONSTANTS
    Accounts = {1, 2, 3}
    Credits = {1}
    Amounts = {3}
    MaxLegs = 2
    Times = {1}
    WindowSize = 2
    BurstThreshold = 2
    IntLimit = 4
    MaxCalls = 2
SPECIFICATION Spec
INVARIANTS Solvent
