SPECIFICATION Spec
CONSTANTS
    Users = {u1}
    Pairs = {p1, p2}
    Requests = {r1, r2}
    None = None
    Operations = {"login", "logout"}
    TimePasses = TRUE
SYMMETRY Symmetry
INVARIANTS
    ClosedStaysClosed
