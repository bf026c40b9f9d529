SPECIFICATION Spec
CONSTANTS
    c1 = c1
    c2 = c2
    c3 = c3
    Groups = {"core", "batch"}
    Versions = {"v1"}
    Names = {"pods", "jobs"}
    Kinds = {"Pod", "Job"}
    NoKind = NoKind
    Singulars = {"one", "uno"}
    Clusters = {c1, c2, c3}
    Wildcard = Wildcard
    Malformed = Malformed
    NoCluster = NoCluster
    Inputs <- OneVersion
    Legacy = "core"
INVARIANTS
    TypeOK
    LoopComputesUnion
    DiscoveredIsServed
