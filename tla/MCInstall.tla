------------------------------ MODULE MCInstall ------------------------------
(* Three clusters; one GVR of the core group in nine variants (kind, scope,  *)
(* status, and one with another singular name) and one without a kind, and a *)
(* GVR of a second group, in one version or in two, that is there or not, or *)
(* with another one of its group version.                                    *)
EXTENDS Install

CONSTANTS c1, c2, c3

Pods == [group |-> "core", version |-> "v1", resource |-> "pods"]

Variant(kind, namespaced, singular, status) ==
    [gvr |-> Pods, kind |-> kind, namespaced |-> namespaced,
     singular |-> singular, status |-> status]

Variants ==
    {Variant(k, n, "one", s) : k \in Kinds, n \in BOOLEAN, s \in BOOLEAN}
        \union {Variant("Pod", TRUE, "uno", FALSE), Variant(NoKind, TRUE, "one", FALSE)}

Batch(name, version) ==
    [gvr |-> [group |-> "batch", version |-> version, resource |-> name],
     kind |-> "Job", namespaced |-> TRUE, singular |-> "one", status |-> name = "jobs"]

Job(version) == Batch("jobs", version)

OneVersion ==
    {{}, {Job("v1"), Batch("pods", "v1")}}
        \union {{v} : v \in Variants} \union {{v, Job("v1")} : v \in Variants}
TwoVersions == {{}, {Job("v1")}, {Job("v2")}, {Job("v1"), Job("v2")}}
=============================================================================
