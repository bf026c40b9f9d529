-------------------------------- MODULE Server --------------------------------
(***************************************************************************)
(* The aggregated API server of pkg/apiserver/server.go: a set of member   *)
(* clusters, the merged resources they serve, and an inner generic API     *)
(* server that is rebuilt and swapped when the merge changes.              *)
(*                                                                         *)
(* Three kinds of threads meet here.  The reconciler is one caller that    *)
(* uses SetCluster and RemoveCluster one at a time.  The resync loop       *)
(* re-reads every member's discovery, holding the mutex throughout.        *)
(* Requests load the handler without the mutex, so a watch can be opened   *)
(* on a handler that has been replaced since.                              *)
(*                                                                         *)
(* Every inner server that was ever built is an element of gens; a handler *)
(* is its index, and 0 is the NotFound handler.  The index also names the  *)
(* context that ends the watches of that inner server.                     *)
(***************************************************************************)
EXTENDS Membership, Sequences

CONSTANTS
    Watchers,       \* clients of the aggregated API that watch
    MaxEvents       \* bound on calls and on changes of the clusters

ASSUME MaxEventsAssumption == MaxEvents \in Nat

VARIABLES
    members,      \* s.members
    resources,    \* s.resources
    handler,      \* s.handler
    gens,         \* the inner servers built so far
    stopWatches,  \* s.stopWatches; 0 is nil
    done,         \* the inner servers whose context is cancelled
    mu,           \* the holder of s.mu
    swapping,     \* swapHandler has stored the handler and not yet returned
    call,         \* a SetCluster that has resolved and waits for s.mu
    result,       \* what the last SetCluster or RemoveCluster returned
    todo,         \* resync: the members not yet resolved
    changed,      \* resync: a member's resources changed
    docs,         \* what each cluster's discovery reports
    down,         \* clusters whose discovery fails
    watch,        \* the watch request of each watcher
    events        \* calls and changes of the clusters so far

vars == <<members, resources, handler, gens, stopWatches, done, mu, swapping,
          call, result, todo, changed, docs, down, watch, events>>

serving == <<resources, handler, gens, stopWatches, done, swapping>>
clusterVars == <<docs, down>>

\* An inner server: the resources it serves and the client it has per cluster.
Generation == [resources : SUBSET MergedResource,
               clients : [Clusters -> Clients \union {NoMember}]]

\* The fields of Server and the locals of its calls keep their types: the handler,
\* stopWatches and the cancelled contexts are those of inner servers that rebuild
\* has built, and a nil stopWatches is never called.
TypeOK ==
    /\ members \in [Clusters -> Member \union {NoMember}]
    /\ resources \subseteq MergedResource
    /\ gens \in Seq(Generation)
    /\ handler \in 0 .. Len(gens)
    /\ stopWatches \in 0 .. Len(gens)
    /\ done \subseteq 1 .. Len(gens)
    /\ mu \in {"free", "caller", "resync"}
    /\ swapping \in BOOLEAN
    /\ call \in Call \union {NoCall}
    /\ result \in {"ok", "error"}
    /\ todo \subseteq Clusters
    /\ changed \in BOOLEAN
    /\ docs \in [Clusters -> Docs]
    /\ down \subseteq Clusters
    /\ watch \in [Watchers -> [st : {"idle", "loaded", "open"}, gen : 0 .. Len(gens)]]
    /\ events \in 0 .. MaxEvents

IdleWatch == [st |-> "idle", gen |-> 0]

\* New: no member, and the NotFound handler.
Init ==
    /\ members = [c \in Clusters |-> NoMember]
    /\ resources = {}
    /\ handler = 0
    /\ gens = << >>
    /\ stopWatches = 0
    /\ done = {}
    /\ mu = "free"
    /\ swapping = FALSE
    /\ call = NoCall
    /\ result = "ok"
    /\ todo = {}
    /\ changed = FALSE
    /\ docs \in [Clusters -> Docs]
    /\ down = {}
    /\ watch = [w \in Watchers |-> IdleWatch]
    /\ events = 0

\* One more call or change of the environment.
Event == events < MaxEvents /\ events' = events + 1

-----------------------------------------------------------------------------
(* rebuild and swapHandler *)

GenResources(h) == IF h = 0 THEN {} ELSE gens[h].resources

\* Mutant: the error of rebuild is dropped.
ReturnNil(who, err) ==
    /\ mu' = "free"
    /\ result' = IF who = "caller" THEN "ok" ELSE result
    /\ changed' = FALSE
    /\ UNCHANGED serving

\* rebuild returns err and its caller unlocks.
Return(who, err) ==
    /\ mu' = "free"
    /\ result' = IF who = "caller" THEN err ELSE result
    /\ changed' = FALSE
    /\ UNCHANGED serving

\* Mutant: only the GVRs are compared.
UnchangedGVRs(union) ==
    union # {} /\ {r.gvr : r \in union} = {r.gvr : r \in resources}

\* Mutant: every rebuild swaps.
UnchangedNever(union) == union = {} /\ resources # {}

\* reflect.DeepEqual(resources, s.resources): a union without elements is an
\* empty slice that never equals the nil that s.resources then is.
Unchanged(union) == union # {} /\ union = resources

\* The store of the new handler; FinishSwap is the rest.
StoreHandler(who, h) ==
    /\ handler' = h
    /\ swapping' = TRUE
    /\ mu' = who
    /\ UNCHANGED <<resources, stopWatches, done, result, changed>>

Rebuild(who, ms) ==
    \/ /\ UnionConflict(ByCluster(ms))
       /\ Return(who, "error")
    \/ /\ ~UnionConflict(ByCluster(ms))
       /\ \E order \in IterationOrders :
            LET union == Union(ByCluster(ms), order) IN
            \/ Unchanged(union) /\ Return(who, "ok")
            \/ /\ union = {}
               /\ StoreHandler(who, 0)
               /\ gens' = gens
            \/ /\ union # {} /\ ~Unchanged(union)
               /\ ~Installable(union, ClientsOf(ms))
               /\ Return(who, "error")
            \/ /\ union # {} /\ ~Unchanged(union)
               /\ Installable(union, ClientsOf(ms))
               /\ gens' = Append(gens, [resources |-> union, clients |-> ClientsOf(ms)])
               /\ StoreHandler(who, Len(gens) + 1)

\* Mutant: the previous watches are not ended.
CancelledNone == done

\* Mutant: stopWatches is called without the nil check.
CancelledNil == done \union {stopWatches}

\* Mutant: the new watches are ended instead of the previous ones.
CancelledNew == done \union ({handler} \ {0})

\* if s.stopWatches != nil { s.stopWatches() }
CancelledBySwap == done \union ({stopWatches} \ {0})

\* End the previous inner server's watches, record the served resources, unlock.
FinishSwap ==
    /\ swapping
    /\ done' = CancelledBySwap
    /\ stopWatches' = handler
    /\ resources' = GenResources(handler)
    /\ swapping' = FALSE
    /\ mu' = "free"
    /\ result' = IF mu = "caller" THEN "ok" ELSE result
    /\ changed' = FALSE
    /\ UNCHANGED <<members, handler, gens, call, todo, clusterVars, watch, events>>

-----------------------------------------------------------------------------
(* memberCluster.resolve *)

ResolveFails(c) == c \in down \/ FromDiscoveryFails(docs[c])

Resolve(c, selectors) == Filter(FromDiscovery(docs[c]), selectors)

-----------------------------------------------------------------------------
(* SetCluster and RemoveCluster *)

\* The caller is not in a call: it makes them one after the other.
CallerIdle == call = NoCall /\ mu # "caller"

SetClusterFails(c) ==
    /\ CallerIdle /\ Event
    /\ ResolveFails(c)
    /\ result' = "error"
    /\ UNCHANGED <<members, serving, mu, call, todo, changed, clusterVars, watch>>

\* The discovery is read before the mutex is taken.
SetClusterResolve(c, client, selectors) ==
    /\ CallerIdle /\ Event
    /\ ~ResolveFails(c)
    /\ call' = [name |-> c,
                member |-> [client |-> client, selectors |-> selectors,
                            resources |-> Resolve(c, selectors)]]
    /\ UNCHANGED <<members, serving, mu, result, todo, changed, clusterVars, watch>>

SetClusterPublish ==
    /\ call # NoCall /\ mu = "free"
    /\ members' = [members EXCEPT ![call.name] = call.member]
    /\ call' = NoCall
    /\ Rebuild("caller", members')
    /\ UNCHANGED <<todo, clusterVars, watch, events>>

\* Mutant: the rebuild is left to the resync loop.
RemoveClusterLater(c) ==
    /\ CallerIdle /\ mu = "free" /\ Event
    /\ members' = [members EXCEPT ![c] = NoMember]
    /\ result' = "ok"
    /\ UNCHANGED <<serving, mu, changed, call, todo, clusterVars, watch>>

RemoveCluster(c) ==
    /\ CallerIdle /\ mu = "free" /\ Event
    /\ members' = [members EXCEPT ![c] = NoMember]
    /\ Rebuild("caller", members')
    /\ UNCHANGED <<call, todo, clusterVars, watch>>

-----------------------------------------------------------------------------
(* resync *)

ResyncStart ==
    /\ mu = "free"
    /\ mu' = "resync"
    /\ todo' = {c \in Clusters : members[c] # NoMember}
    /\ changed' = FALSE
    /\ UNCHANGED <<members, serving, call, result, clusterVars, watch, events>>

\* The error is logged and the member keeps what it last resolved.
ResyncResolveFails(c) ==
    /\ mu = "resync" /\ ~swapping /\ c \in todo
    /\ ResolveFails(c)
    /\ todo' = todo \ {c}
    /\ UNCHANGED <<members, serving, mu, call, result, changed, clusterVars, watch, events>>

\* Mutant: the last member decides.
AnyChangedLast(memberChanged) == memberChanged

AnyChanged(memberChanged) == changed \/ memberChanged

\* resolve compares slices: the same resources in another order are a change.
\* Reordering is an event of the cluster.
ResyncResolve(c) ==
    /\ mu = "resync" /\ ~swapping /\ c \in todo
    /\ ~ResolveFails(c)
    /\ LET new == Resolve(c, members[c].selectors) IN
       /\ members' = [members EXCEPT ![c].resources = new]
       /\ \/ /\ changed' = AnyChanged(new # members[c].resources)
             /\ events' = events
          \/ /\ new = members[c].resources /\ Cardinality(new) > 1
             /\ changed' = AnyChanged(TRUE)
             /\ Event
    /\ todo' = todo \ {c}
    /\ UNCHANGED <<serving, mu, call, result, clusterVars, watch>>

ResyncUnchanged ==
    /\ mu = "resync" /\ ~swapping /\ todo = {}
    /\ ~changed
    /\ mu' = "free"
    /\ UNCHANGED <<members, serving, call, result, todo, changed, clusterVars, watch, events>>

ResyncRebuild ==
    /\ mu = "resync" /\ ~swapping /\ todo = {}
    /\ changed
    /\ Rebuild("resync", members)
    /\ UNCHANGED <<members, call, todo, clusterVars, watch, events>>

-----------------------------------------------------------------------------
(* ServeHTTP of a watch request *)

\* The handler is loaded; with the NotFound handler the request ends at once.
LoadHandler(w) ==
    /\ watch[w].st = "idle" /\ handler # 0
    /\ watch' = [watch EXCEPT ![w] = [st |-> "loaded", gen |-> handler]]
    /\ UNCHANGED <<members, serving, mu, call, result, todo, changed, clusterVars, events>>

\* The loaded handler, replaced meanwhile or not, opens the watch.
OpenWatch(w) ==
    /\ watch[w].st = "loaded"
    /\ watch' = [watch EXCEPT ![w].st = "open"]
    /\ UNCHANGED <<members, serving, mu, call, result, todo, changed, clusterVars, events>>

\* Storage.Watch ends the stream when the inner server's context is done.
EndWatch(w) ==
    /\ watch[w].st = "open" /\ watch[w].gen \in done
    /\ watch' = [watch EXCEPT ![w] = IdleWatch]
    /\ UNCHANGED <<members, serving, mu, call, result, todo, changed, clusterVars, events>>

\* The client goes away.
LeaveWatch(w) ==
    /\ watch[w].st \in {"loaded", "open"}
    /\ watch' = [watch EXCEPT ![w] = IdleWatch]
    /\ UNCHANGED <<members, serving, mu, call, result, todo, changed, clusterVars, events>>

-----------------------------------------------------------------------------
(* The member clusters *)

ChangeDiscovery(c) ==
    /\ Event
    /\ \E doc \in Docs \ {docs[c]} : docs' = [docs EXCEPT ![c] = doc]
    /\ UNCHANGED <<members, serving, mu, call, result, todo, changed, down, watch>>

Fail(c) ==
    /\ Event
    /\ c \notin down
    /\ down' = down \union {c}
    /\ UNCHANGED <<members, serving, mu, call, result, todo, changed, docs, watch>>

Recover(c) ==
    /\ c \in down
    /\ down' = down \ {c}
    /\ UNCHANGED <<members, serving, mu, call, result, todo, changed, docs, watch, events>>

-----------------------------------------------------------------------------
Resync ==
    \/ ResyncStart
    \/ \E c \in Clusters : ResyncResolveFails(c) \/ ResyncResolve(c)
    \/ ResyncUnchanged
    \/ ResyncRebuild

Next ==
    \/ \E c \in Clusters :
        \/ SetClusterFails(c)
        \/ \E client \in Clients, selectors \in SelectorLists :
               SetClusterResolve(c, client, selectors)
        \/ RemoveCluster(c)
        \/ ChangeDiscovery(c) \/ Fail(c) \/ Recover(c)
    \/ SetClusterPublish
    \/ FinishSwap
    \/ Resync
    \/ \E w \in Watchers : LoadHandler(w) \/ OpenWatch(w) \/ EndWatch(w) \/ LeaveWatch(w)

\* The ticker fires again and again and the lock holder proceeds; a caller that
\* waits for the mutex gets it although the resync loop takes it repeatedly
\* (sync.Mutex hands over to a waiter that starves); an ended context ends the
\* watch.  Nothing makes a caller, a client or a cluster act.
Fairness ==
    /\ WF_vars(Resync)
    /\ WF_vars(FinishSwap)
    /\ SF_vars(SetClusterPublish)
    /\ \A w \in Watchers : WF_vars(OpenWatch(w)) /\ WF_vars(EndWatch(w))

Spec == Init /\ [][Next]_vars /\ Fairness

-----------------------------------------------------------------------------
(* Properties *)

\* Whenever nobody is inside a call or a resync, the served set is the merge of
\* what the registered members last resolved, unless that merge has an error: no
\* interleaving of SetCluster, whose discovery precedes its lock, RemoveCluster
\* and resync loses a change (rebuild, server.go).
ServedSetIsCurrent ==
    mu = "free" => RebuildError(members) \/ IsUnion(resources, members)

\* Every inner server that was replaced has its watches ended, and the one in
\* use never has; only while swapHandler runs may two be alive.  What is
\* recorded as served is what the installed inner server serves.
WatchesFollowHandler ==
    /\ done = (1 .. Len(gens)) \ {handler, stopWatches}
    /\ ~swapping => stopWatches = handler /\ resources = GenResources(handler)

\* This step ends a SetCluster or RemoveCluster that took the mutex.
Returns == \/ mu = "caller" /\ mu' = "free"
           \/ SetClusterPublish /\ mu' = "free"
           \/ \E c \in Clusters : RemoveCluster(c) /\ mu' = "free"

\* A SetCluster or RemoveCluster that returns no error leaves the handler
\* serving the merge of all members: no failed merge goes unreported.
ReturnedOkIsServed ==
    [][Returns /\ result' = "ok" => IsUnion(GenResources(handler)', members')]_vars

\* swapHandler, which ends the watches of all clients, runs only when the merge
\* of the members is no longer what the installed inner server serves.  A
\* re-registration or a resync without news never interrupts a client.
SwapOnlyOnChange ==
    [][handler # 0 /\ handler' # handler
        => ~IsUnion(gens[handler].resources, members')]_vars

\* A watch on a replaced inner server ends, also one that was opened after the
\* replacement by a request that had loaded the old handler.
StaleWatchesEnd ==
    \A w \in Watchers :
        watch[w].st = "open" /\ watch[w].gen # handler ~> watch[w].st # "open"

\* The members as a resync would now leave them.
Refreshed ==
    [c \in Clusters |->
        IF members[c] = NoMember \/ ResolveFails(c) THEN members[c]
        ELSE [members[c] EXCEPT !.resources = Resolve(c, members[c].selectors)]]

\* Once the clusters stop changing and no call is made, the resync loop brings
\* the served set to what the members' discovery reports, whatever was missed,
\* failed or read too early before; a cluster whose discovery keeps failing
\* counts with what it last resolved.
Convergence ==
    <>[](RebuildError(Refreshed) \/ IsUnion(resources, Refreshed))

\* The caller's view of the server: what is in service is what the installed inner
\* server serves, and a call whose handler is stored will return no error.
Promise == INSTANCE ServedSet WITH
    served <- GenResources(handler),
    result <- IF mu = "caller" THEN "ok" ELSE result

\* The server keeps the promise of ServedSet: stored handlers, the early return of
\* rebuild, the resync that holds the mutex over slow discoveries and the calls
\* that wait for it look to the caller like single steps, each of which either
\* serves the merge of all members or reports an error and serves what it did.
ImplementsServedSet == Promise!Spec

\* SetCluster "adds or updates a member cluster": requests to a cluster go
\* through the client that the last SetCluster registered for it.
HandlerUsesCurrentClients ==
    mu = "free" =>
        \A r \in GenResources(handler) : \A c \in r.clusters :
            members[c] # NoMember => gens[handler].clients[c] = members[c].client
=============================================================================
