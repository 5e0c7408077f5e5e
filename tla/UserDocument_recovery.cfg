SPECIFICATION Spec
CONSTANTS
    Users = {u, v}
    Requests = {r1, r2}
    Names = {}
    Passwords = {p}
    Tokens = {t1, t2}
    Files = {}
    None = None
    Operations = {"forgot", "reset", "link"}
    MaxWrites = 4
    MaxFaults = 0
SYMMETRY Symmetry
INVARIANTS
    PasswordsComeWithTokens
PROPERTIES
    TokenSpentTwiceOnlyByOverlap
