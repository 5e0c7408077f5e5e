SPECIFICATION Spec
CONSTANTS
    Users = {u1}
    Pairs = {p1, p2}
    Requests = {r1, r2}
    None = None
    Operations = {"login", "refresh", "logout-all"}
    TimePasses = FALSE
PROPERTIES
    LogoutAllEndsSessions
