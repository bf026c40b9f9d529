------------------------------ MODULE UnionLoop ------------------------------
(***************************************************************************)
(* The two nested loops of Union in pkg/apiserver/discovery.go, step by    *)
(* step: an outer loop over a Go map, in any order, and an inner loop over *)
(* the resources of the cluster, merging into a map by GVR and leaving     *)
(* with an error at the first conflict.  Discovery!Union and               *)
(* Discovery!UnionConflict say what the loops compute without naming a     *)
(* step; Server is written with those, and LoopComputesUnion justifies it. *)
(* Install goes on from here.                                              *)
(***************************************************************************)
EXTENDS Discovery

CONSTANTS
    Inputs,     \* what one cluster may report: subsets of ServedResource
    NoCluster   \* no outer iteration is under way

ASSUME InputsAssumption ==
    \A i \in Inputs : i \subseteq ServedResource
                      /\ \A r, s \in i : r.gvr = s.gvr => r = s

VARIABLES
    byCluster,  \* the argument
    merged,     \* map[GVR]*ServedResource
    unvisited,  \* clusters the outer loop has not reached
    cluster,    \* the cluster of the current outer iteration
    remaining,  \* its resources the inner loop has not reached
    failed      \* an error was returned

unionVars == <<byCluster, merged, unvisited, cluster, remaining, failed>>

\* Every variable of the two loops of Union keeps its type; in particular every
\* entry of merged is a ServedResource whose Clusters are clusters of the map.
UnionTypeOK ==
    /\ byCluster \in [Clusters -> Inputs]
    /\ DOMAIN merged \subseteq GVR
    /\ \A g \in DOMAIN merged : merged[g] \in MergedResource
    /\ unvisited \subseteq Clusters
    /\ cluster \in Clusters \union {NoCluster}
    /\ remaining \subseteq ServedResource
    /\ failed \in BOOLEAN

UnionInit ==
    /\ byCluster \in [Clusters -> Inputs]
    /\ merged = << >>
    /\ unvisited = Clusters
    /\ cluster = NoCluster
    /\ remaining = {}
    /\ failed = FALSE

NextCluster(c) ==
    /\ remaining = {} /\ ~failed /\ c \in unvisited
    /\ cluster' = c
    /\ remaining' = byCluster[c]
    /\ unvisited' = unvisited \ {c}
    /\ UNCHANGED <<byCluster, merged, failed>>

\* The first cluster that serves the GVR; its entry is what the others extend.
First(r, c) == [gvr |-> r.gvr, kind |-> r.kind, namespaced |-> r.namespaced,
                singular |-> r.singular, status |-> r.status, clusters |-> {c}]

AddNew(r) ==
    /\ r \in remaining /\ ~failed /\ r.gvr \notin DOMAIN merged
    /\ merged' = [g \in DOMAIN merged \union {r.gvr} |->
                     IF g = r.gvr THEN First(r, cluster) ELSE merged[g]]
    /\ remaining' = remaining \ {r}
    /\ UNCHANGED <<byCluster, unvisited, cluster, failed>>

\* Mutant: the scope is not compared.
DisagreesOnKindOnly(existing, r) == existing.kind # r.kind

Disagrees(existing, r) ==
    existing.kind # r.kind \/ existing.namespaced # r.namespaced

Conflict(r) ==
    /\ r \in remaining /\ ~failed /\ r.gvr \in DOMAIN merged
    /\ Disagrees(merged[r.gvr], r)
    /\ failed' = TRUE
    /\ UNCHANGED <<byCluster, merged, unvisited, cluster, remaining>>

\* Mutant: the index of the cluster is lost on the way into the result.
ExtendBadCluster(existing, r, c) ==
    [existing EXCEPT !.clusters = @ \union {NoCluster}]

Extended(existing, r, c) ==
    [existing EXCEPT !.status = @ \/ r.status, !.clusters = @ \union {c}]

Extend(r) ==
    /\ r \in remaining /\ ~failed /\ r.gvr \in DOMAIN merged
    /\ ~Disagrees(merged[r.gvr], r)
    /\ merged' = [merged EXCEPT ![r.gvr] = Extended(@, r, cluster)]
    /\ remaining' = remaining \ {r}
    /\ UNCHANGED <<byCluster, unvisited, cluster, failed>>

\* The loops have ended, or an error has been returned.
Returned == failed \/ (unvisited = {} /\ remaining = {})

UnionNext ==
    \/ \E c \in Clusters : NextCluster(c)
    \/ \E r \in remaining : AddNew(r) \/ Conflict(r) \/ Extend(r)

-----------------------------------------------------------------------------
\* In whatever order the map is iterated, Union returns an error exactly when
\* two clusters disagree on the kind or the scope of a GVR, and otherwise the
\* merge that Discovery!Union defines for one of the orders: the status
\* subresource of any cluster, every serving cluster, the singular of one.
LoopComputesUnion ==
    Returned =>
        /\ failed <=> UnionConflict(byCluster)
        /\ ~failed => \E order \in IterationOrders :
                          Range(merged) = Union(byCluster, order)
=============================================================================
