CONSTANTS
    EnrichWorkers = {e1, e2}
    SocialWorkers = {s1}
    Pages = {p1}
    NoPage = NoPage
    MaxLeads = 2
SPECIFICATION FairSpec
INVARIANTS
    LeadInOnePlace
    NoLeadDropped
    ExitOnlyWhenDrained
    PageDiscipline
    TalliesAgree
PROPERTIES
    NoNewWorkAfterCancel
    WritesInTurn
    FlowSpec
    Termination
