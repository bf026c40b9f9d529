SPECIFICATION Spec
CONSTANTS
    c1 = c1
    c2 = c2
    k1 = k1
    Groups = {"core"}
    Versions = {"v1"}
    Names = {"pods", "jobs"}
    Kinds = {"Pod"}
    NoKind = NoKind
    Singulars = {"one"}
    Clusters = {c1, c2}
    Wildcard = Wildcard
    Malformed = Malformed
    Clients = {k1, k2}
    SelectorLists <- TwoSelectors
    Docs <- TwoDocs
    NoMember = NoMember
    NoCall = NoCall
    Specs <- TwoSpecs
    Unusable = Unusable
    StartSecrets <- AllOrNotOne
    StartDocs <- OneDoc
    NoAPI = NoAPI
    Idle = Idle
    MaxEvents = 2
    MaxFaults = 1
CHECK_DEADLOCK FALSE
INVARIANTS
    TypeOK
    ReadyIsEarned
PROPERTIES
    MembershipConverges
    FailureIsReported
    Settles
