SPECIFICATION Spec
CONSTANTS
    Users = {u, v}
    Notes = {n1}
    Requests = {r1, r2}
    Texts = {a, b}
    None = None
    List = List
    MaxFaults = 1
SYMMETRY Symmetry
INVARIANTS
    TypeOK
    CacheIsSound
PROPERTIES
    DeletedStaysDeleted
    OverlapFreeEditsKeep
