SPECIFICATION Spec
CONSTANTS
    Users = {u, v}
    Files = {f, g}
    Requests = {r1, r2}
    None = None
    MaxFaults = 2
SYMMETRY Symmetry
INVARIANTS
    TypeOK
    ContentMatchesMetadata
    OneDeletionWins
PROPERTIES
    ServedIsOwnAndLive
