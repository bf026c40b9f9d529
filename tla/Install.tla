------------------------------- MODULE Install -------------------------------
(***************************************************************************)
(* What rebuild in pkg/apiserver/server.go does with the members of the    *)
(* server: the merge, then the inner server that is built for its result   *)
(* by installResources (generic.go) and installGroupVersion (install.go).  *)
(* The second loop runs over a Go map too, so the group versions come in   *)
(* any order.  Server takes all of this as one step, which fails where     *)
(* Membership!Installable says.                                            *)
(*                                                                         *)
(* The go-restful container and the discovery managers are libraries: a    *)
(* container holds one web service per root path and ends the process when *)
(* a second one is added; DiscoveryGroupManager.AddGroup replaces the      *)
(* group's entry; AddGroupVersion adds a version to the group.             *)
(***************************************************************************)
EXTENDS UnionLoop

CONSTANT Legacy     \* the core group, with the empty name

VARIABLES
    pending,     \* the group versions that are not yet installed
    endpoints,   \* the resources and status subresources with a handler
    groups,      \* DiscoveryGroupManager: the version that a group lists
    aggregated,  \* the aggregated discovery managers: the versions they list
    roots,       \* the groups with a web service at their root path
    outcome      \* "merging", "installing", "ok", "error", or "exit" of the process

installVars == <<pending, endpoints, groups, aggregated, roots, outcome>>
vars == <<unionVars, installVars>>

GroupVersion == [group : Groups, version : Versions]
GVOf(gvr) == [group |-> gvr.group, version |-> gvr.version]

\* A key of a storage map: "pods" or "pods/status" of a group version.
Endpoint == [gvr : GVR, sub : {"", "status"}]

\* The state of the merge and of the inner server keep their types, and what has an
\* endpoint is a resource of the merge.
TypeOK ==
    /\ UnionTypeOK
    /\ pending \subseteq GroupVersion
    /\ endpoints \subseteq Endpoint
    /\ {e.gvr : e \in endpoints} \subseteq DOMAIN merged
    /\ groups \in [Groups -> Versions \union {Malformed}]
    /\ aggregated \subseteq GroupVersion
    /\ roots \subseteq Groups
    /\ outcome \in {"merging", "installing", "ok", "error", "exit"}

Init ==
    /\ UnionInit
    /\ pending = {}
    /\ endpoints = {}
    /\ groups = [g \in Groups |-> Malformed]
    /\ aggregated = {}
    /\ roots = {}
    /\ outcome = "merging"

Merge ==
    /\ outcome = "merging"
    /\ UnionNext
    /\ UNCHANGED installVars

-----------------------------------------------------------------------------
(* installResources *)

Storages == Range(merged)

\* Without a resource nothing is built: the NotFound handler is installed.
NothingToInstall ==
    /\ outcome = "merging" /\ Returned /\ ~failed
    /\ Storages = {}
    /\ outcome' = "ok"
    /\ UNCHANGED <<unionVars, pending, endpoints, groups, aggregated, roots>>

\* Union returns an error, or storage.New does for a resource without a kind.
Refuse ==
    /\ outcome = "merging" /\ Returned
    /\ failed \/ \E r \in Storages : r.kind = NoKind
    /\ outcome' = "error"
    /\ UNCHANGED <<unionVars, pending, endpoints, groups, aggregated, roots>>

\* byGroupVersion: every resource has its storage.
BuildStorages ==
    /\ outcome = "merging" /\ Returned /\ ~failed
    /\ Storages # {} /\ \A r \in Storages : r.kind # NoKind
    /\ pending' = {GVOf(r.gvr) : r \in Storages}
    /\ outcome' = "installing"
    /\ UNCHANGED <<unionVars, endpoints, groups, aggregated, roots>>

\* Mutant: the storage map of a group version is made anew for each resource.
StorageMapOfLast(gv) ==
    LET last == CHOOSE r \in Storages : GVOf(r.gvr) = gv IN
    {[gvr |-> last.gvr, sub |-> sub] : sub \in IF last.status THEN {"", "status"} ELSE {""}}

StorageMap(gv) ==
    UNION {{[gvr |-> r.gvr, sub |-> sub] : sub \in IF r.status THEN {"", "status"} ELSE {""}} :
           r \in {s \in Storages : GVOf(s.gvr) = gv}}

-----------------------------------------------------------------------------
(* installGroupVersion *)

\* AddGroup, for all but the core group.
Listed(gv) ==
    IF gv.group = Legacy THEN groups ELSE [groups EXCEPT ![gv.group] = gv.version]

\* The endpoints and the discovery entries; then the web service of the group's
\* root path, of which there can be one.
InstallGroupVersion(gv) ==
    /\ outcome = "installing" /\ gv \in pending
    /\ endpoints' = endpoints \union StorageMap(gv)
    /\ aggregated' = aggregated \union {gv}
    /\ groups' = Listed(gv)
    /\ roots' = roots \union {gv.group}
    /\ pending' = pending \ {gv}
    /\ outcome' = IF gv.group \in roots THEN "exit"
                  ELSE IF pending' = {} THEN "ok" ELSE "installing"
    /\ UNCHANGED unionVars

\* rebuild returns or the process is gone.
Ended == outcome \in {"ok", "error", "exit"} /\ UNCHANGED vars

Next ==
    \/ Merge
    \/ NothingToInstall \/ Refuse \/ BuildStorages
    \/ \E gv \in GroupVersion : InstallGroupVersion(gv)
    \/ Ended

Spec == Init /\ [][Next]_vars

-----------------------------------------------------------------------------
(* Properties *)

\* What clusters serve that merges without an error is served: the process does not
\* end, every resource of every cluster has its endpoint and its status subresource
\* when a cluster has one, and both forms of discovery list its group version, in
\* whatever order the clusters and the group versions are visited ("A single entry
\* with group * serves all discovered APIs").
DiscoveredIsServed ==
    outcome \in {"ok", "exit"} =>
        \A c \in Clusters : \A r \in byCluster[c] :
            /\ outcome = "ok"
            /\ [gvr |-> r.gvr, sub |-> ""] \in endpoints
            /\ r.status => [gvr |-> r.gvr, sub |-> "status"] \in endpoints
            /\ GVOf(r.gvr) \in aggregated
            /\ r.gvr.group # Legacy => groups[r.gvr.group] = r.gvr.version
=============================================================================
