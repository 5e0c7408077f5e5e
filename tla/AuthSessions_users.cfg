SPECIFICATION Spec
CONSTANTS
    Users = {u1, u2}
    Pairs = {p1, p2}
    Requests = {r1, r2}
    None = None
    Operations = {"login", "refresh", "logout", "logout-all", "reset"}
    TimePasses = FALSE
SYMMETRY Symmetry
INVARIANTS
    TypeOK
    ClosedStaysClosed
    SuccessorReplacesParent
    HeldIsRecorded
PROPERTIES
    OnlyOwnSessionsEnd
    ImplementsLedger
