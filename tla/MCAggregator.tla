----------------------------- MODULE MCAggregator -----------------------------
(* Documents, selectors and specs for the run of Aggregator.                 *)
EXTENDS Aggregator

CONSTANTS c1, c2, k1

Res(name, kind, namespaced) ==
    [name |-> name, sub |-> "", kind |-> kind, namespaced |-> namespaced, singular |-> "one"]

List(resourceSet) ==
    [gv |-> [group |-> "core", version |-> "v1"], resources |-> resourceSet]

\* One resource, and its conflict in scope.
OneDoc == {{List({Res("pods", "Pod", TRUE)})}}
TwoDocs == OneDoc \union {{List({Res("pods", "Pod", FALSE)})}}

All == {[group |-> Wildcard, versions |-> {}, resources |-> {}]}
OnlyJobs == {[group |-> "core", versions |-> {"v1"}, resources |-> {"jobs"}]}
TwoSelectors == {All, OnlyJobs}

\* All Secrets are there, or that of a cluster which every spec names is not, so that
\* the object can go and come back beside it.
AllUsable == [c \in Clusters |-> k1]
AllOrNotOne == {AllUsable, [AllUsable EXCEPT ![c2] = Unusable]}

Of(c, apis) == [name |-> c, apis |-> apis]

\* Two clusters; one of them twice, with different selectors.
TwoSpecs == {<<Of(c1, All), Of(c2, All)>>, <<Of(c2, OnlyJobs), Of(c2, All)>>}
=============================================================================
