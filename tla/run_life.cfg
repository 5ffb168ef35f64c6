CONSTANTS
    EnrichWorkers = {e1}
    SocialWorkers = {s1}
    Pages = {p1, p2}
    NoPage = NoPage
    MaxLeads = 2
    FaultyClose = TRUE
    MaxCancels = 2
SPECIFICATION RunFairSpec
INVARIANTS
    CleanedUp
    TasksWithinRun
PROPERTY RunEnds
