------------------------------- MODULE MCServer -------------------------------
(* Documents and selectors for the model-checking runs of Server.            *)
EXTENDS Server, TLC

CONSTANTS c1, c2

Symmetry == Permutations(Clusters)

Res(name, sub, kind, namespaced, singular) ==
    [name |-> name, sub |-> sub, kind |-> kind, namespaced |-> namespaced,
     singular |-> singular]

List(resourceSet) ==
    [gv |-> [group |-> "core", version |-> "v1"], resources |-> resourceSet]

Pods == Res("pods", "", "Pod", TRUE, "pod")
PodsStatus == Res("pods", "status", "Pod", TRUE, "pod")
ClusterPods == Res("pods", "", "Pod", FALSE, "pod")
Jobs == Res("jobs", "", "Job", TRUE, "job")
Unnamed == Res("jobs", "", NoKind, TRUE, "job")

\* One resource; two with a status subresource; a scope conflict; one that
\* cannot be installed; a list that cannot be parsed.
BasicDocs == {{List({Pods})}, {List({Pods, PodsStatus, Jobs})}, {List({ClusterPods})},
              {List({Unnamed})}, {[gv |-> Malformed, resources |-> {}]}}
LiveDocs == {{List({Pods})}, {List({Pods, PodsStatus})}, {List({ClusterPods})}}

All == {[group |-> Wildcard, versions |-> {}, resources |-> {}]}
OnlyPods == {[group |-> "core", versions |-> {"v1"}, resources |-> {"pods"}]}
OneSelector == {All}
TwoSelectors == {All, OnlyPods}
=============================================================================
