SPECIFICATION Spec
CONSTANTS
    Publishers = {p1, p2}
    None = None
    MaxCalls = 2
CHECK_DEADLOCK FALSE
INVARIANTS
    OkMeansTaken
