SPECIFICATION Spec
CONSTANTS
    east = east
    west = west
    north = north
    m = m
    n = n
    Clusters = {east, west}
    Names = {m, n}
    NoName = NoName
    NoCluster = NoCluster
    Unknown = Unknown
    NoRequest = NoRequest
    MaxUid = 3
    Limits = {0, 1}
SYMMETRY Symmetry
INVARIANTS
    ListIsComplete
