CONSTANTS
    Places = {a, b}
    BadCard = BadCard
    MaxCards = 4
    MaxLimit = 3
    MaxStall = 3
    MaxTotal = 4
    BaseWindow = 1
SPECIFICATION FairSpec
INVARIANTS
    Harvest
    VerdictTells
PROPERTIES
    GivesUpLate
    DiscoveryEnds
