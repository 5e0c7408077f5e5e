SPECIFICATION Spec
CONSTANTS
    Users = {u, v}
    Accounts = {a, b}
    Emails = {e, f}
    States = {s, t}
    Requests = {r1, r2}
    None = None
SYMMETRY Symmetry
INVARIANTS
    TypeOK
    OneUserPerIdentity
    LoginsShareTheEmail
PROPERTIES
    StateAdmitsOnce
    LinkMovesOnlyByOverlap
