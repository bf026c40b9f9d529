SPECIFICATION Spec
CONSTANTS
    east = east
    west = west
    north = north
    m = m
    n = n
    Clusters = {east, west, north}
    Names = {m, n}
    NoName = NoName
    NoCluster = NoCluster
    Unknown = Unknown
    NoRequest = NoRequest
    MaxUid = 3
    Limits = {0}
SYMMETRY Symmetry
INVARIANTS
    TypeOK
    WriteIsUnambiguous
    StableIsFound
    WriteHitsLocated
    
