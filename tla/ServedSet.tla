------------------------------ MODULE ServedSet ------------------------------
(***************************************************************************)
(* What the aggregated API server of pkg/apiserver/server.go promises to   *)
(* the one caller that registers clusters on it, without handlers, inner   *)
(* servers, the mutex or the resync loop's passes:                         *)
(*                                                                         *)
(*   - a call that returns without an error has put the merge of all       *)
(*     members in service, in the step that changed the members;           *)
(*   - a call that returns an error has either changed nothing, or changed *)
(*     the members to ones whose merge has an error, and left in service   *)
(*     what was there;                                                     *)
(*   - between calls only the resources of a member can change, never the  *)
(*     members, their clients or their selectors;                          *)
(*   - what is in service never rests on anything but the merge of the     *)
(*     members, and a member never rests on what its discovery no longer   *)
(*     reports.                                                            *)
(*                                                                         *)
(* Server implements this module (Server!ImplementsServedSet), and         *)
(* Aggregator uses it in Server's place.                                   *)
(***************************************************************************)
EXTENDS Membership

VARIABLES
    members,  \* s.members
    served,   \* the resources of the installed inner server
    call,     \* a SetCluster that has resolved and is not yet in effect
    result,   \* what the last SetCluster or RemoveCluster returned
    docs,     \* what each cluster's discovery reports
    down      \* clusters whose discovery fails

vars == <<members, served, call, result, docs, down>>

NoMembers == [c \in Clusters |-> NoMember]

Init ==
    /\ members = NoMembers
    /\ served = {}
    /\ call = NoCall
    /\ result = "ok"
    /\ docs \in [Clusters -> Docs]
    /\ down = {}

-----------------------------------------------------------------------------
ResolveFails(c) == c \in down \/ FromDiscoveryFails(docs[c])

Resolve(c, selectors) == Filter(FromDiscovery(docs[c]), selectors)

\* A merge of ms is put in service, or ms has none and nothing changes.
Rebuild(ms) ==
    \/ /\ ~RebuildError(ms)
       /\ \E order \in IterationOrders : served' = Union(ByCluster(ms), order)
    \/ /\ RebuildError(ms)
       /\ served' = served

\* The result of a call that has changed the members to ms.
Outcome(ms) == IF RebuildError(ms) THEN "error" ELSE "ok"

SetClusterFails(c) ==
    /\ call = NoCall
    /\ ResolveFails(c)
    /\ result' = "error"
    /\ UNCHANGED <<members, served, call, docs, down>>

SetClusterResolve(c, client, selectors) ==
    /\ call = NoCall
    /\ ~ResolveFails(c)
    /\ call' = [name |-> c,
                member |-> [client |-> client, selectors |-> selectors,
                            resources |-> Resolve(c, selectors)]]
    /\ UNCHANGED <<members, served, result, docs, down>>

SetClusterPublish ==
    /\ call # NoCall
    /\ members' = [members EXCEPT ![call.name] = call.member]
    /\ Rebuild(members')
    /\ result' = Outcome(members')
    /\ call' = NoCall
    /\ UNCHANGED <<docs, down>>

RemoveCluster(c) ==
    /\ call = NoCall
    /\ members' = [members EXCEPT ![c] = NoMember]
    /\ Rebuild(members')
    /\ result' = Outcome(members')
    /\ UNCHANGED <<call, docs, down>>

-----------------------------------------------------------------------------
(* resync *)

\* The member's resources are not what its discovery reports.
Outdated(c) ==
    /\ members[c] # NoMember
    /\ ~ResolveFails(c)
    /\ members[c].resources # Resolve(c, members[c].selectors)

Refresh(c) ==
    /\ Outdated(c)
    /\ members' = [members EXCEPT ![c].resources = Resolve(c, members[c].selectors)]
    /\ UNCHANGED <<served, call, result, docs, down>>

\* What is in service is not the merge of the members, which has no error.
Lagging == ~RebuildError(members) /\ ~IsUnion(served, members)

\* Also without a change of the members: the merge depends on the iteration order.
Republish ==
    /\ Rebuild(members)
    /\ UNCHANGED <<members, call, result, docs, down>>

-----------------------------------------------------------------------------
(* The member clusters *)

ChangeDiscovery(c) ==
    /\ \E doc \in Docs \ {docs[c]} : docs' = [docs EXCEPT ![c] = doc]
    /\ UNCHANGED <<members, served, call, result, down>>

Fail(c) ==
    /\ c \notin down
    /\ down' = down \union {c}
    /\ UNCHANGED <<members, served, call, result, docs>>

Recover(c) ==
    /\ c \in down
    /\ down' = down \ {c}
    /\ UNCHANGED <<members, served, call, result, docs>>

-----------------------------------------------------------------------------
Next ==
    \/ \E c \in Clusters :
        \/ SetClusterFails(c)
        \/ \E client \in Clients, selectors \in SelectorLists :
               SetClusterResolve(c, client, selectors)
        \/ RemoveCluster(c)
        \/ Refresh(c)
        \/ ChangeDiscovery(c) \/ Fail(c) \/ Recover(c)
    \/ SetClusterPublish
    \/ Republish

\* Each conjunct is the weak fairness of an action that ends its own enabling:
\* SetClusterPublish, Republish when it has something to do, and Refresh.
Fairness ==
    /\ []<>(call = NoCall)
    /\ []<>~Lagging
    /\ \A c \in Clusters : []<>~Outdated(c)

Spec == Init /\ [][Next]_vars /\ Fairness
=============================================================================
