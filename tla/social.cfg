CONSTANTS
    ResultLimit = 2
    MaxResults = 3
    ScoreHigh = 100
    ScoreMedium = 70
    ScoreLow = 40
    ScoreNone = 0
SPECIFICATION FairSpec
INVARIANTS
    TierTellsSource
    AnswersCount
    SearchesBelong
    MetricsTell
    SelectsBest
PROPERTIES
    FoundStays
    OneLinkSpec
