CONSTANTS
    Callers = {c1, c2}
    Cancellable = {c1, c2}
    Threshold = 2
    TrialLimit = 2
    Recovery = 2
    MaxAttempts = 3
    MaxRequests = 3
SPECIFICATION ManagerFairSpec
INVARIANTS
    CountersAgree
    OnlySentHoldSlots
    OneOpenSession
    LateRequestsFail
PROPERTIES
    RequestsEnd
