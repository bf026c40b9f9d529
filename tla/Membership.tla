----------------------------- MODULE Membership ------------------------------
(***************************************************************************)
(* What pkg/apiserver/server.go keeps of a member cluster, and when a set  *)
(* of members has a merge that can be served.  Shared by Server, which     *)
(* models the code step by step, and ServedSet, which states what the      *)
(* server promises to its caller.                                          *)
(***************************************************************************)
EXTENDS Discovery

CONSTANTS
    Clients,        \* revisions of a cluster's kubeconfig, hence its clients
    SelectorLists,  \* API selectors a cluster is registered with
    Docs,           \* what a cluster can report: sets of APIResourceList
    NoMember,       \* no entry in s.members
    NoCall          \* no SetCluster is between resolving and locking

Member == [client : Clients, selectors : SelectorLists, resources : SUBSET ServedResource]

Call == [name : Clusters, member : Member]

ASSUME SelectorListsAssumption == SelectorLists \subseteq SUBSET APISelector
ASSUME DocsAssumption == Docs \subseteq SUBSET APIResourceList
ASSUME NullAssumption == NoMember \notin Member \union Clients /\ NoCall \notin Call

ByCluster(ms) ==
    [c \in Clusters |-> IF ms[c] = NoMember THEN {} ELSE ms[c].resources]

ClientsOf(ms) ==
    [c \in Clusters |-> IF ms[c] = NoMember THEN NoMember ELSE ms[c].client]

\* newGenericServer refuses a resource without a kind (storage.Options.validate)
\* and one of a cluster that has no client.
Installable(union, clients) ==
    \A r \in union : r.kind # NoKind /\ \A c \in r.clusters : clients[c] # NoMember

\* The merge of these members cannot be served: they disagree, or the inner
\* server cannot be built.
RebuildError(ms) ==
    \/ UnionConflict(ByCluster(ms))
    \/ \E order \in IterationOrders :
         ~Installable(Union(ByCluster(ms), order), ClientsOf(ms))

\* set is a merge of what these members last resolved.
IsUnion(set, ms) ==
    \E order \in IterationOrders : set = Union(ByCluster(ms), order)
=============================================================================
