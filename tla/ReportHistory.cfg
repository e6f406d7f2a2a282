CONSTANTS
    Payloads = {"a"}
    LongPayloads = {}
    JsonbPayloads = {}
    Times = {2, 4}
    Micro = 2
    Faults = FALSE
    MaxRuns = 1
SPECIFICATION Spec
INVARIANTS HistoryVerifies
