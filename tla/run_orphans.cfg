CONSTANTS
    EnrichWorkers = {e1}
    SocialWorkers = {s1}
    Pages = {p1}
    NoPage = NoPage
    MaxLeads = 1
    FaultyClose = FALSE
    MaxCancels = 1
SPECIFICATION RunSpec
INVARIANT NoTaskLeftBehind
