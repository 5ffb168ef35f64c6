CONSTANTS
    NumLeads = 3
    Places = {p1, p2}
    PoolSize = 1
    WorkerCount = 2
    MaxAttempts = 2
    TTL = 1
SPECIFICATION FairSpec
INVARIANTS
    CacheConfirmed
    TalliesAgree
PROPERTIES
    WebsiteConfirmed
    LookedUpOnlyIfUnknown
    FlowSpec
