SPECIFICATION Spec
CONSTANTS
    c1 = c1
    c2 = c2
    Groups = {"core"}
    Versions = {"v1"}
    Names = {"pods", "jobs"}
    Kinds = {"Pod", "Job"}
    NoKind = NoKind
    Singulars = {"pod", "job"}
    Clusters = {c1, c2}
    Wildcard = Wildcard
    Malformed = Malformed
    Clients = {"k1"}
    SelectorLists <- OneSelector
    Docs <- LiveDocs
    Watchers = {"w"}
    NoMember = NoMember
    NoCall = NoCall
    MaxEvents = 4
PROPERTIES
    StaleWatchesEnd
    Convergence
    ImplementsServedSet
