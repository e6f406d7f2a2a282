CONSTANTS
    Actors = {a1, a2}
    WindowSize = 2
    Grace = 1
    EventTimes <- MCEventTimes
    ClockTimes <- MCClockTimes
    Capacity = 1
    Kinds <- MCKinds
    DerivedCauseKinds <- MCDerived
    RootCauseKinds <- MCRoots
    Producers = {"service", "stranger"}
    TrustedProducers = {"service"}
    Deltas = {2}
    Amounts <- MCSteps
    CheckAmounts = TRUE
    IntLimit = 8
    MaxEvidence = 1
    Closers = {c1, c2}
    MaxCalls = 3
SPECIFICATION Spec
SYMMETRY Symmetry
INVARIANTS TypeOK ReportedOnce EvidenceSupportsCharge AccusationsAreExact
PROPERTIES FrozenAfterClose EventsAreAnswered ImplementsCauseJustified
