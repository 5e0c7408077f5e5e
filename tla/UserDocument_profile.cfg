SPECIFICATION Spec
CONSTANTS
    Users = {u}
    Requests = {r1, r2}
    Names = {a}
    Passwords = {p}
    Tokens = {t}
    Files = {f1, f2}
    None = None
    Operations = {"get", "profile", "forgot", "reset", "link"}
    MaxWrites = 2
    MaxFaults = 1
SYMMETRY Symmetry
INVARIANTS
    TypeOK
    ProfileStaleOnlyByOverlap
    AvatarIsOwn
PROPERTIES
    OverlapFreeWritesKeep
