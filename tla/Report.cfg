CONSTANTS
    Payloads = {"a", "b", "c"}
    LongPayloads = {"c"}
    JsonbPayloads = {"a"}
    Times = {1, 2, 3, 4}
    Micro = 2
    Faults = TRUE
    MaxRuns = 3
SPECIFICATION Spec
INVARIANTS TypeOK AcknowledgedEndures TamperingShows HistoryNeverMixes RestartBreaksTheChain
