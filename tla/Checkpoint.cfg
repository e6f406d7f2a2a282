CONSTANTS
    Accounts = {1, 2}
    Credits = {1, 2}
    Amounts = {0, 1}
    MaxLegs = 2
    Times = {1, 2}
    WindowSize = 2
    BurstThreshold = 2
    IntLimit = 64
    MaxCalls = 4
SPECIFICATION Spec
INVARIANTS TypeOK Solvent GateIsExact
PROPERTIES ImplementsLedger SettlesAsAsked
