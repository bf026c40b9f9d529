------------------------------ MODULE Discovery ------------------------------
(***************************************************************************)
(* The pure part of pkg/apiserver/discovery.go: how what a member cluster  *)
(* discovers becomes the set of resources the aggregated API serves.       *)
(*                                                                         *)
(* A slice of resources is modelled as the set of its elements.  Union     *)
(* sorts its result, so the set determines the slice; for the unsorted     *)
(* results of FromDiscovery and Filter, Server!ResyncResolve restores the  *)
(* one effect that the order has.                                          *)
(*                                                                         *)
(* byCluster arguments are total functions on Clusters: the code's map has *)
(* no entry for a cluster that is not a member, the model has {}, and      *)
(* Union reads both alike.                                                 *)
(***************************************************************************)
EXTENDS Integers, FiniteSets, Functions

CONSTANTS
    Groups,     \* API groups
    Versions,   \* API versions
    Names,      \* plural resource names, without a "/"
    Kinds,      \* kinds
    NoKind,     \* the empty kind; storage.Options.validate refuses it
    Singulars,  \* singular names
    Clusters,   \* names a member cluster can have
    Wildcard,   \* "*" in a selector
    Malformed   \* a groupVersion that schema.ParseGroupVersion rejects

ASSUME ClustersFinite == IsFiniteSet(Clusters)
ASSUME NotWild == Wildcard \notin Groups \union Names
ASSUME NotKind == NoKind \notin Kinds

GVR == [group : Groups, version : Versions, resource : Names]

\* A metav1.APIResource.  The name "pods/status" is name "pods", sub "status";
\* any other name with a "/" has sub "other".
APIResource ==
    [name : Names, sub : {"", "status", "other"}, kind : Kinds \union {NoKind},
     namespaced : BOOLEAN, singular : Singulars]

APIResourceList ==
    [gv : [group : Groups, version : Versions] \union {Malformed},
     resources : SUBSET APIResource]

\* A ServedResource before Union fills in its Clusters.
ServedResource ==
    [gvr : GVR, kind : Kinds \union {NoKind}, namespaced : BOOLEAN,
     singular : Singulars, status : BOOLEAN]

\* A ServedResource of Union's result.
MergedResource ==
    [gvr : GVR, kind : Kinds \union {NoKind}, namespaced : BOOLEAN,
     singular : Singulars, status : BOOLEAN, clusters : SUBSET Clusters]

APISelector ==
    [group : Groups \union {Wildcard}, versions : SUBSET Versions,
     resources : SUBSET (Names \union {Wildcard})]

-----------------------------------------------------------------------------
(* FromDiscovery and Filter *)

FromDiscoveryFails(lists) == \E list \in lists : list.gv = Malformed

Served(list, resource) ==
    [gvr |-> [group |-> list.gv.group, version |-> list.gv.version,
              resource |-> resource.name],
     kind |-> resource.kind,
     namespaced |-> resource.namespaced,
     singular |-> resource.singular,
     status |-> \E s \in list.resources : s.sub = "status" /\ s.name = resource.name]

FromDiscovery(lists) ==
    UNION {{Served(list, resource) :
                resource \in {r \in list.resources : r.sub = ""}} : list \in lists}

\* Only resources know a wildcard besides the group: an empty list of versions
\* or of resources means all of them.
matches(gvr, selectors) ==
    \E s \in selectors :
        /\ s.group \in {Wildcard, gvr.group}
        /\ s.versions = {} \/ gvr.version \in s.versions
        /\ s.resources = {} \/ Wildcard \in s.resources \/ gvr.resource \in s.resources

Filter(resources, selectors) == {r \in resources : matches(r.gvr, selectors)}

-----------------------------------------------------------------------------
(* Union *)

ServersOf(byCluster, gvr) == {c \in Clusters : \E r \in byCluster[c] : r.gvr = gvr}

\* Two members, or one member twice, report a GVR with another kind or scope.
UnionConflict(byCluster) ==
    \E c, d \in Clusters : \E r \in byCluster[c], s \in byCluster[d] :
        /\ r.gvr = s.gvr
        /\ r.kind # s.kind \/ r.namespaced # s.namespaced

\* "for cluster := range byCluster" visits the clusters in a random order, drawn
\* anew by every call.
IterationOrders == Injection(Clusters, 1 .. Cardinality(Clusters))

\* c is the first of the visited clusters that serve gvr.
Leads(byCluster, order, gvr, c) ==
    \A d \in ServersOf(byCluster, gvr) : order[c] <= order[d]

\* The merge of r, the entry of the cluster visited first: that entry gives the
\* singular name, all entries together the status subresource and the clusters.
Merged(byCluster, r) ==
    [gvr |-> r.gvr,
     kind |-> r.kind,
     namespaced |-> r.namespaced,
     singular |-> r.singular,
     status |-> \E c \in Clusters : \E s \in byCluster[c] : s.gvr = r.gvr /\ s.status,
     clusters |-> ServersOf(byCluster, r.gvr)]

Union(byCluster, order) ==
    UNION {{Merged(byCluster, r) :
                r \in {s \in byCluster[c] : Leads(byCluster, order, s.gvr, c)}} :
           c \in Clusters}
=============================================================================
