CONSTANTS
    Callers = {c1, c2, c3}
    TokenTime = 3
    Capacity = 7
    MaxWindow = 8
SPECIFICATION FairSpec
INVARIANTS
    WindowBound
    NoTokenLeftWaiting
PROPERTY ServedInTheEnd
