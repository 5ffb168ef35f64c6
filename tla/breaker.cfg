CONSTANTS
    Callers = {c1, c2, c3, c4}
    Cancellable = {c1, c2, c3, c4}
    Threshold = 2
    TrialLimit = 2
    Recovery = 2
SPECIFICATION FairSpec
INVARIANTS
    ClosedWhileFewFailures
    SlotsAreTrials
PROPERTIES
    TrialsResolve
    RecoveryComes
