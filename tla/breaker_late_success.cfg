CONSTANTS
    Callers = {c1, c2, c3}
    Cancellable = {}
    Threshold = 2
    TrialLimit = 1
    Recovery = 2
SYMMETRY Symmetry
SPECIFICATION Spec
PROPERTY StaysOpen
