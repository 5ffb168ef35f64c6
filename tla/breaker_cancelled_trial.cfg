CONSTANTS
    Callers = {c1, c2}
    Cancellable = {c1, c2}
    Threshold = 2
    TrialLimit = 1
    Recovery = 2
SPECIFICATION FairSpec
PROPERTY HalfOpenResolves
