SPECIFICATION Spec
CONSTANTS
    a = a
    b = b
    Selected = {a, b}
    NoCluster = NoCluster
    MaxWrites = 2
INVARIANTS
    TypeOK
    NoSendAfterClose
    NoRemoteLeft
    NoGap
    BookmarkSeparates
PROPERTIES
    StopEndsWatch
    RemoteEndEndsWatch
