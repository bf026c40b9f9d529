----------------------------- MODULE ServerProofs -----------------------------
(***************************************************************************)
(* Proofs about Server for every set of clusters, clients, selectors,      *)
(* discovery documents and watchers, and every bound on the events.        *)
(***************************************************************************)
EXTENDS Server, FiniteSetTheorems, TLAPS

\* What the installed inner server serves; s.resources lags behind it while
\* swapHandler runs.
Effective == IF swapping THEN GenResources(handler) ELSE resources

\* The merge the server is at is the merge of the members ms, or ms has none.
CurrentFor(set, ms) == RebuildError(ms) \/ IsUnion(set, ms)

\* Who may be where: the mutex is held through a swap, a caller holds it only
\* for a swap, and resync's work list is empty outside of its loop.
LockDiscipline ==
    /\ mu = "free" => ~swapping
    /\ mu = "caller" => swapping
    /\ mu # "resync" \/ swapping => todo = {}
    /\ \A c \in todo : members[c] # NoMember

\* swapHandler installs something new: the watches it is about to end are never
\* those of the handler it has just stored.
SwapReplaces == swapping => handler = 0 \/ handler # stopWatches

\* The inductive invariant.  ServedSetIsCurrent says nothing while the mutex is
\* held, so it is strengthened to hold throughout, except from the moment
\* resync sees a change until its rebuild stores a handler or returns.
IInv ==
    /\ TypeOK
    /\ LockDiscipline
    /\ WatchesFollowHandler
    /\ SwapReplaces
    /\ mu # "resync" \/ swapping \/ ~changed => CurrentFor(Effective, members)

-----------------------------------------------------------------------------
(* What the operators return *)

\* The merge of typed resources is typed (Union, discovery.go).
LEMMA UnionType ==
    ASSUME NEW byCluster \in [Clusters -> SUBSET ServedResource], NEW order
    PROVE  Union(byCluster, order) \subseteq MergedResource
<1>1. ASSUME NEW c \in Clusters, NEW r \in byCluster[c]
      PROVE  Merged(byCluster, r) \in MergedResource
  <2>1. r \in ServedResource
    OBVIOUS
  <2>2. ServersOf(byCluster, r.gvr) \in SUBSET Clusters
    BY DEF ServersOf
  <2> QED
    BY <2>1, <2>2 DEF Merged, ServedResource, MergedResource
<1> QED
  BY <1>1 DEF Union

\* What a successful resolve leaves in a member is typed (FromDiscovery and
\* Filter, discovery.go).
LEMMA ResolveType ==
    ASSUME docs \in [Clusters -> Docs], NEW c \in Clusters, ~ResolveFails(c),
           NEW selectors
    PROVE  Resolve(c, selectors) \subseteq ServedResource
<1>1. docs[c] \subseteq APIResourceList
  BY DocsAssumption
<1>2. ASSUME NEW list \in docs[c], NEW r \in list.resources
      PROVE  Served(list, r) \in ServedResource
  <2>1. list.gv \in [group : Groups, version : Versions]
    BY <1>1 DEF ResolveFails, FromDiscoveryFails, APIResourceList
  <2>2. r \in APIResource
    BY <1>1 DEF APIResourceList
  <2> QED
    BY <2>1, <2>2 DEF Served, ServedResource, APIResource, GVR
<1>3. ASSUME NEW x \in Resolve(c, selectors)
      PROVE  x \in ServedResource
  <2>1. PICK list \in docs[c] : x \in {Served(list, r) : r \in {q \in list.resources : q.sub = ""}}
    BY DEF Resolve, Filter, FromDiscovery
  <2> QED
    BY <1>2, <2>1
<1> QED
  BY <1>3

\* The arguments rebuild passes on are typed (rebuild, server.go).
LEMMA MembersType ==
    ASSUME NEW ms \in [Clusters -> Member \union {NoMember}]
    PROVE  /\ ByCluster(ms) \in [Clusters -> SUBSET ServedResource]
           /\ ClientsOf(ms) \in [Clusters -> Clients \union {NoMember}]
BY DEF ByCluster, ClientsOf, Member

-----------------------------------------------------------------------------
\* The typed part of the state that rebuild works on.
ServingOK ==
    /\ resources \subseteq MergedResource
    /\ gens \in Seq(Generation)
    /\ handler \in 0 .. Len(gens)
    /\ stopWatches \in 0 .. Len(gens)
    /\ done \subseteq 1 .. Len(gens)
    /\ mu \in {"free", "caller", "resync"}
    /\ swapping \in BOOLEAN
    /\ result \in {"ok", "error"}
    /\ changed \in BOOLEAN

\* rebuild, in all its branches, keeps the books of the inner servers, takes the
\* mutex exactly for a swap, and leaves the server at the merge of the members
\* it was given or reports that there is none.
LEMMA RebuildStep ==
    ASSUME NEW ms \in [Clusters -> Member \union {NoMember}],
           NEW who \in {"caller", "resync"},
           ServingOK, WatchesFollowHandler, ~swapping, Rebuild(who, ms)
    PROVE  /\ ServingOK'
           /\ WatchesFollowHandler'
           /\ SwapReplaces'
           /\ Len(gens) <= Len(gens)'
           /\ swapping' => mu' = who
           /\ ~swapping' => mu' = "free"
           /\ CurrentFor(Effective', ms)
<1> DEFINE bc == ByCluster(ms)
           clients == ClientsOf(ms)
<1>t. /\ bc \in [Clusters -> SUBSET ServedResource]
      /\ clients \in [Clusters -> Clients \union {NoMember}]
  BY MembersType
<1>1. ASSUME NEW err, Return(who, err), err \in {"ok", "error"}, CurrentFor(resources, ms)
      PROVE  /\ ServingOK'
             /\ WatchesFollowHandler'
             /\ SwapReplaces'
             /\ Len(gens) <= Len(gens)'
             /\ swapping' => mu' = who
             /\ ~swapping' => mu' = "free"
             /\ CurrentFor(Effective', ms)
  <2>1. /\ mu' = "free" /\ changed' = FALSE /\ result' \in {"ok", "error"}
        /\ UNCHANGED serving
    BY <1>1 DEF Return, ServingOK
  <2>2. Effective' = resources
    BY <2>1 DEF serving, Effective
  <2>3. CurrentFor(Effective', ms)
    BY <1>1, <2>2
  <2>4. WatchesFollowHandler' /\ SwapReplaces'
    BY <2>1 DEF serving, WatchesFollowHandler, GenResources, SwapReplaces
  <2>5. /\ resources' = resources /\ handler' = handler /\ gens' = gens
        /\ stopWatches' = stopWatches /\ done' = done /\ swapping' = swapping
    BY <2>1 DEF serving
  <2>6. ServingOK'
    BY <2>1, <2>5 DEF ServingOK
  <2>7. Len(gens) <= Len(gens)'
    BY <2>5 DEF ServingOK
  <2> QED
    BY <2>1, <2>3, <2>4, <2>5, <2>6, <2>7
<1>2. CASE UnionConflict(bc) /\ Return(who, "error")
  <2>1. CurrentFor(resources, ms)
    BY <1>2 DEF CurrentFor, RebuildError
  <2> QED
    BY <1>1, <1>2, <2>1
<1>3. CASE ~UnionConflict(bc)
  <2>1. PICK order \in IterationOrders :
          LET union == Union(bc, order) IN
          \/ Unchanged(union) /\ Return(who, "ok")
          \/ union = {} /\ StoreHandler(who, 0) /\ gens' = gens
          \/ union # {} /\ ~Unchanged(union) /\ ~Installable(union, clients) /\ Return(who, "error")
          \/ /\ union # {} /\ ~Unchanged(union)
             /\ Installable(union, clients)
             /\ gens' = Append(gens, [resources |-> union, clients |-> clients])
             /\ StoreHandler(who, Len(gens) + 1)
    BY <1>3 DEF Rebuild
  <2> DEFINE union == Union(bc, order)
  <2>2. union \subseteq MergedResource
    BY <1>t, UnionType
  <2>3. IsUnion(union, ms)
    BY DEF IsUnion
  <2> HIDE DEF union, bc, clients
  <2>4. CASE Unchanged(union) /\ Return(who, "ok")
    <3>1. CurrentFor(resources, ms)
      BY <2>3, <2>4 DEF CurrentFor, Unchanged
    <3> QED
      BY <1>1, <2>4, <3>1
  <2>5. CASE union = {} /\ StoreHandler(who, 0) /\ gens' = gens
    <3>1. Effective' = union
      BY <2>5 DEF StoreHandler, Effective, GenResources
    <3>2. CurrentFor(Effective', ms)
      BY <2>3, <3>1 DEF CurrentFor
    <3> QED
      BY <2>5, <3>2 DEF StoreHandler, ServingOK, WatchesFollowHandler, GenResources, SwapReplaces
  <2>6. CASE ~Installable(union, clients) /\ Return(who, "error")
    <3>1. CurrentFor(resources, ms)
      BY <2>6 DEF CurrentFor, RebuildError, union, bc, clients
    <3> QED
      BY <1>1, <2>6, <3>1
  <2>7. CASE /\ gens' = Append(gens, [resources |-> union, clients |-> clients])
             /\ StoreHandler(who, Len(gens) + 1)
    <3> DEFINE gen == [resources |-> union, clients |-> clients]
    <3>1. gen \in Generation
      BY <1>t, <2>2 DEF Generation
    <3>2. /\ gens' \in Seq(Generation)
          /\ Len(gens)' = Len(gens) + 1
          /\ gens'[Len(gens) + 1] = gen
          /\ Len(gens) \in Nat
      BY <2>7, <3>1 DEF ServingOK
    <3>3. Effective' = union
      BY <2>7, <3>2 DEF StoreHandler, Effective, GenResources
    <3>4. CurrentFor(Effective', ms)
      BY <2>3, <3>3 DEF CurrentFor
    <3>5. WatchesFollowHandler' /\ SwapReplaces'
      BY <2>7, <3>2 DEF StoreHandler, ServingOK, WatchesFollowHandler, SwapReplaces
    <3> QED
      BY <2>7, <3>2, <3>4, <3>5 DEF StoreHandler, ServingOK
  <2> QED
    BY <2>1, <2>4, <2>5, <2>6, <2>7 DEF union
<1> QED
  BY <1>2, <1>3 DEF Rebuild

\* A map can be iterated: there is an order of the clusters.
LEMMA SomeOrder == \E order : order \in IterationOrders
<1> DEFINE n == Cardinality(Clusters)
<1>1. PICK f : f \in Bijection(1 .. n, Clusters)
  BY ClustersFinite, FS_CardinalityType DEF ExistsBijection
<1>2. /\ f \in [1 .. n -> Clusters]
      /\ \A c \in Clusters : \E i \in 1 .. n : f[i] = c
  BY <1>1 DEF Bijection, Surjection
<1> DEFINE order == [c \in Clusters |-> CHOOSE i \in 1 .. n : f[i] = c]
<1>3. \A c \in Clusters : order[c] \in 1 .. n /\ f[order[c]] = c
  BY <1>2
<1>4. order \in [Clusters -> 1 .. n]
  BY <1>3
<1>5. IsInjective(order)
  BY <1>3, <1>4 DEF IsInjective
<1> HIDE DEF order
<1> QED
  BY <1>4, <1>5 DEF IterationOrders, Injection

\* The invariant holds when New returns.
LEMMA InitInv == Init => IInv
<1> SUFFICES ASSUME Init PROVE IInv
  OBVIOUS
<1>1. TypeOK
  <2>1. gens \in Seq(Generation) /\ Len(gens) = 0
    BY DEF Init
  <2>2. watch \in [Watchers -> [st : {"idle", "loaded", "open"}, gen : 0 .. Len(gens)]]
    BY <2>1 DEF Init, IdleWatch
  <2>3. members \in [Clusters -> Member \union {NoMember}]
    BY DEF Init
  <2> QED
    <3>1. /\ handler \in 0 .. Len(gens) /\ stopWatches \in 0 .. Len(gens)
          /\ events \in 0 .. MaxEvents
      BY <2>1, MaxEventsAssumption DEF Init
    <3>2. /\ resources \subseteq MergedResource /\ done \subseteq 1 .. Len(gens)
          /\ todo \subseteq Clusters /\ down \subseteq Clusters
      BY DEF Init
    <3>3. /\ mu \in {"free", "caller", "resync"} /\ swapping \in BOOLEAN
          /\ result \in {"ok", "error"} /\ changed \in BOOLEAN
          /\ call \in Call \union {NoCall}
          /\ docs \in [Clusters -> Docs]
      BY DEF Init
    <3> QED
      BY <2>1, <2>2, <2>3, <3>1, <3>2, <3>3 DEF TypeOK
<1>2. LockDiscipline /\ WatchesFollowHandler /\ SwapReplaces
  BY DEF Init, LockDiscipline, WatchesFollowHandler, GenResources, SwapReplaces
<1>3. CurrentFor(Effective, members)
  <2>1. PICK order : order \in IterationOrders
    BY SomeOrder
  <2>2. \A c \in Clusters : ByCluster(members)[c] = {}
    BY DEF Init, ByCluster
  <2>3. Union(ByCluster(members), order) = {}
    BY <2>2 DEF Union
  <2>4. Effective = {}
    BY DEF Init, Effective
  <2> QED
    BY <2>1, <2>3, <2>4 DEF CurrentFor, IsUnion
<1> QED
  BY <1>1, <1>2, <1>3 DEF IInv

\* The steps of the environment and of requests: nothing that the invariant
\* speaks of moves, except the types of what they do change.
LEMMA OutsideStep ==
    ASSUME IInv, TypeOK',
           UNCHANGED <<members, resources, handler, gens, stopWatches, done,
                       mu, swapping, todo, changed>>
    PROVE  IInv'
<1>1. LockDiscipline'
  BY DEF IInv, LockDiscipline
<1>2. WatchesFollowHandler' /\ SwapReplaces'
  BY DEF IInv, WatchesFollowHandler, GenResources, SwapReplaces
<1>3. Effective' = Effective
  BY DEF Effective, GenResources
<1>4. (mu # "resync" \/ swapping \/ ~changed => CurrentFor(Effective, members))'
  <2>1. CurrentFor(Effective, members)' <=> CurrentFor(Effective, members)
    BY <1>3 DEF CurrentFor, RebuildError, IsUnion, ByCluster, ClientsOf
  <2> QED
    BY <2>1 DEF IInv
<1> QED
  BY <1>1, <1>2, <1>4 DEF IInv

\* A call of SetCluster up to the mutex.
LEMMA CallStep ==
    ASSUME IInv, NEW c \in Clusters, NEW client \in Clients, NEW selectors \in SelectorLists,
           SetClusterResolve(c, client, selectors)
    PROVE  IInv'
<1>1. Resolve(c, selectors) \subseteq ServedResource
  BY ResolveType DEF IInv, TypeOK, SetClusterResolve
<1>2. call' \in Call
  BY <1>1 DEF SetClusterResolve, Member, Call
<1>3. TypeOK'
  BY <1>2, MaxEventsAssumption DEF IInv, TypeOK, SetClusterResolve, Event, serving, clusterVars
<1> QED
  BY <1>3, OutsideStep DEF SetClusterResolve, serving

\* Requests.
LEMMA WatchStep ==
    ASSUME IInv, NEW w \in Watchers,
           LoadHandler(w) \/ OpenWatch(w) \/ EndWatch(w) \/ LeaveWatch(w)
    PROVE  IInv'
<1> DEFINE Request(n) == [st : {"idle", "loaded", "open"}, gen : 0 .. n]
<1>1. watch \in [Watchers -> Request(Len(gens))] /\ handler \in 0 .. Len(gens) /\ Len(gens) \in Nat
  BY DEF IInv, TypeOK
<1>2. /\ UNCHANGED <<members, serving, mu, call, result, todo, changed, clusterVars, events>>
      /\ watch' \in [Watchers -> Request(Len(gens))]
  BY <1>1 DEF LoadHandler, OpenWatch, EndWatch, LeaveWatch, IdleWatch
<1>3. TypeOK'
  BY <1>2 DEF IInv, TypeOK, serving, clusterVars
<1> QED
  BY <1>2, <1>3, OutsideStep DEF serving

\* The member clusters.
LEMMA ClusterStep ==
    ASSUME IInv, NEW c \in Clusters, ChangeDiscovery(c) \/ Fail(c) \/ Recover(c)
    PROVE  IInv'
<1>1. /\ docs' \in [Clusters -> Docs]
      /\ down' \subseteq Clusters
      /\ events' \in 0 .. MaxEvents
  <2>1. docs' \in [Clusters -> Docs] /\ down' \subseteq Clusters
    BY DEF IInv, TypeOK, ChangeDiscovery, Fail, Recover
  <2>2. Event \/ events' = events
    BY DEF ChangeDiscovery, Fail, Recover
  <2>3. events' \in 0 .. MaxEvents
    BY <2>2, MaxEventsAssumption DEF IInv, TypeOK, Event
  <2> QED
    BY <2>1, <2>3
<1>2. UNCHANGED <<members, serving, mu, call, result, todo, changed, watch>>
  BY DEF ChangeDiscovery, Fail, Recover
<1>3. TypeOK'
  BY <1>1, <1>2 DEF IInv, TypeOK, serving
<1> QED
  BY <1>2, <1>3, OutsideStep DEF serving

\* A step of SetCluster, RemoveCluster or resync that ends in rebuild.
LEMMA RebuildKeepsInv ==
    ASSUME IInv, ~swapping, NEW who \in {"caller", "resync"},
           members' \in [Clusters -> Member \union {NoMember}],
           call' \in Call \union {NoCall},
           events' \in 0 .. MaxEvents,
           todo = {},
           Rebuild(who, members'),
           UNCHANGED <<todo, clusterVars, watch>>
    PROVE  IInv'
<1>1. ServingOK /\ WatchesFollowHandler
  BY DEF IInv, TypeOK, ServingOK
<1>2. /\ ServingOK'
      /\ WatchesFollowHandler'
      /\ SwapReplaces'
      /\ Len(gens) <= Len(gens)'
      /\ swapping' => mu' = who
      /\ ~swapping' => mu' = "free"
      /\ CurrentFor(Effective', members')
  BY <1>1, RebuildStep
<1>3. Len(gens) \in Nat /\ Len(gens)' \in Nat
  BY <1>1, <1>2 DEF ServingOK
<1>4. watch' \in [Watchers -> [st : {"idle", "loaded", "open"}, gen : 0 .. Len(gens)']]
  BY <1>2, <1>3 DEF IInv, TypeOK
<1>5. TypeOK'
  BY <1>2, <1>4 DEF IInv, TypeOK, ServingOK, clusterVars
<1>6. LockDiscipline'
  BY <1>2 DEF LockDiscipline
<1> QED
  BY <1>2, <1>5, <1>6 DEF IInv

\* The three callers of rebuild.
LEMMA CallersStep ==
    ASSUME IInv,
           SetClusterPublish \/ (\E c \in Clusters : RemoveCluster(c)) \/ ResyncRebuild
    PROVE  IInv'
<1>1. CASE SetClusterPublish
  <2>1. ~swapping /\ todo = {}
    BY <1>1 DEF SetClusterPublish, IInv, LockDiscipline
  <2>2. call \in Call
    BY <1>1 DEF SetClusterPublish, IInv, TypeOK
  <2>3. members' \in [Clusters -> Member \union {NoMember}]
    BY <1>1, <2>2 DEF SetClusterPublish, IInv, TypeOK, Call
  <2> QED
    BY <1>1, <2>1, <2>3, RebuildKeepsInv DEF SetClusterPublish, IInv, TypeOK
<1>2. ASSUME NEW c \in Clusters, RemoveCluster(c)
      PROVE  IInv'
  <2>1. ~swapping /\ todo = {}
    BY <1>2 DEF RemoveCluster, IInv, LockDiscipline
  <2>2. members' \in [Clusters -> Member \union {NoMember}]
    BY <1>2 DEF RemoveCluster, IInv, TypeOK
  <2>3. events' \in 0 .. MaxEvents
    BY <1>2, MaxEventsAssumption DEF RemoveCluster, Event, IInv, TypeOK
  <2> QED
    BY <1>2, <2>1, <2>2, <2>3, RebuildKeepsInv DEF RemoveCluster, IInv, TypeOK
<1>3. CASE ResyncRebuild
  <2>1. Rebuild("resync", members')
    BY <1>3 DEF ResyncRebuild
  <2> QED
    BY <1>3, <2>1, RebuildKeepsInv DEF ResyncRebuild, IInv, TypeOK
<1> QED
  BY <1>1, <1>2, <1>3

\* The second half of swapHandler.
LEMMA SwapStep == ASSUME IInv, FinishSwap PROVE IInv'
<1>1. /\ GenResources(handler) \subseteq MergedResource
      /\ GenResources(handler)' = GenResources(handler)
  <2>1. handler # 0 => gens[handler] \in Generation
    BY DEF IInv, TypeOK
  <2>2. GenResources(handler) \subseteq MergedResource
    BY <2>1 DEF GenResources, Generation
  <2> QED
    BY <2>2 DEF FinishSwap, GenResources
<1>2. /\ Len(gens) \in Nat
      /\ handler \in 0 .. Len(gens) /\ stopWatches \in 0 .. Len(gens)
  BY DEF IInv, TypeOK
<1>3. WatchesFollowHandler' /\ SwapReplaces'
  <2>1. (1 .. Len(gens)) \ {handler}
          = ((1 .. Len(gens)) \ {handler, stopWatches}) \union ({stopWatches} \ {0})
    BY <1>2 DEF IInv, SwapReplaces, FinishSwap
  <2>2. done' = (1 .. Len(gens)) \ {handler}
    BY <2>1 DEF IInv, WatchesFollowHandler, FinishSwap, CancelledBySwap
  <2> QED
    BY <1>1, <2>2 DEF FinishSwap, WatchesFollowHandler, SwapReplaces
<1>4. TypeOK'
  <2>1. done' \subseteq 1 .. Len(gens)
    BY <1>2 DEF IInv, TypeOK, FinishSwap, CancelledBySwap
  <2>2. result' \in {"ok", "error"}
    BY DEF IInv, TypeOK, FinishSwap
  <2> QED
    BY <1>1, <1>2, <2>1, <2>2 DEF IInv, TypeOK, FinishSwap, clusterVars
<1>5. LockDiscipline'
  BY DEF IInv, FinishSwap, LockDiscipline
<1>6. Effective' = Effective
  BY <1>1 DEF FinishSwap, Effective
<1>7. CurrentFor(Effective', members')
  BY <1>6 DEF IInv, FinishSwap
<1> QED
  BY <1>3, <1>4, <1>5, <1>7 DEF IInv

\* resync up to its rebuild: the served set may fall behind the members only
\* once changed is set.
LEMMA ResyncStep ==
    ASSUME IInv,
           \/ ResyncStart
           \/ \E c \in Clusters : ResyncResolveFails(c) \/ ResyncResolve(c)
           \/ ResyncUnchanged
    PROVE  IInv'
<1>1. CASE ResyncStart
  <2>1. TypeOK'
    BY <1>1 DEF IInv, TypeOK, ResyncStart, serving, clusterVars
  <2>2. LockDiscipline'
    BY <1>1 DEF IInv, ResyncStart, LockDiscipline, serving
  <2>3. WatchesFollowHandler' /\ SwapReplaces'
    BY <1>1 DEF IInv, ResyncStart, WatchesFollowHandler, GenResources, SwapReplaces, serving
  <2>4. Effective' = Effective /\ members' = members
    BY <1>1 DEF ResyncStart, Effective, GenResources, serving
  <2>5. CurrentFor(Effective', members')
    BY <1>1, <2>4 DEF IInv, ResyncStart
  <2> QED
    BY <2>1, <2>2, <2>3, <2>5 DEF IInv
<1>2. ASSUME NEW c \in Clusters, ResyncResolveFails(c)
      PROVE  IInv'
  <2>1. TypeOK'
    BY <1>2 DEF IInv, TypeOK, ResyncResolveFails, serving, clusterVars
  <2>2. LockDiscipline'
    BY <1>2 DEF IInv, ResyncResolveFails, LockDiscipline, serving
  <2>3. WatchesFollowHandler' /\ SwapReplaces'
    BY <1>2 DEF IInv, ResyncResolveFails, WatchesFollowHandler, GenResources, SwapReplaces, serving
  <2>4. Effective' = Effective /\ UNCHANGED <<members, mu, swapping, changed>>
    BY <1>2 DEF ResyncResolveFails, Effective, GenResources, serving
  <2> QED
    BY <2>1, <2>2, <2>3, <2>4 DEF IInv
<1>3. ASSUME NEW c \in Clusters, ResyncResolve(c)
      PROVE  IInv'
  <2> DEFINE new == Resolve(c, members[c].selectors)
  <2>1. members[c] \in Member
    BY <1>3 DEF IInv, TypeOK, LockDiscipline, ResyncResolve
  <2>2. new \subseteq ServedResource
    BY <1>3, ResolveType DEF IInv, TypeOK, ResyncResolve
  <2>3. /\ members' = [members EXCEPT ![c] = [members[c] EXCEPT !.resources = new]]
        /\ [members[c] EXCEPT !.resources = new] \in Member
    BY <1>3, <2>1, <2>2 DEF ResyncResolve, Member, IInv, TypeOK
  <2>4. /\ UNCHANGED <<serving, mu, call, result, clusterVars, watch>>
        /\ mu = "resync" /\ ~swapping
        /\ todo' = todo \ {c}
        /\ changed' \in BOOLEAN
        /\ events' \in 0 .. MaxEvents
    <3>1. changed' \in BOOLEAN
      BY <1>3 DEF ResyncResolve, AnyChanged
    <3>2. events' \in 0 .. MaxEvents
      <4>1. events' = events \/ Event
        BY <1>3 DEF ResyncResolve
      <4> QED
        BY <4>1, MaxEventsAssumption DEF Event, IInv, TypeOK
    <3> QED
      BY <1>3, <3>1, <3>2 DEF ResyncResolve
  <2>5. TypeOK'
    BY <2>3, <2>4 DEF IInv, TypeOK, serving, clusterVars
  <2>6. LockDiscipline'
    <3>1. [members[c] EXCEPT !.resources = new] # NoMember
      BY <2>3, NullAssumption DEF Member
    <3> QED
      BY <2>3, <2>4, <3>1 DEF IInv, TypeOK, LockDiscipline, serving
  <2>7. WatchesFollowHandler' /\ SwapReplaces'
    BY <2>4 DEF IInv, WatchesFollowHandler, GenResources, SwapReplaces, serving
  <2>8. Effective' = Effective
    BY <2>4 DEF Effective, GenResources, serving
  <2>9. ~changed' => ~changed /\ members' = members
    <3>1. ~changed' => ~changed /\ new = members[c].resources
      BY <1>3 DEF ResyncResolve, AnyChanged, IInv, TypeOK
    <3>2. new = members[c].resources => [members[c] EXCEPT !.resources = new] = members[c]
      BY <2>1 DEF Member
    <3> HIDE DEF new
    <3> QED
      BY <2>3, <3>1, <3>2 DEF IInv, TypeOK
  <2>10. ~changed' => CurrentFor(Effective', members')
    BY <2>4, <2>8, <2>9 DEF IInv
  <2> QED
    BY <2>4, <2>5, <2>6, <2>7, <2>10 DEF IInv, serving
<1>4. CASE ResyncUnchanged
  <2>1. TypeOK'
    BY <1>4 DEF IInv, TypeOK, ResyncUnchanged, serving, clusterVars
  <2>2. LockDiscipline'
    BY <1>4 DEF IInv, ResyncUnchanged, LockDiscipline, serving
  <2>3. WatchesFollowHandler' /\ SwapReplaces'
    BY <1>4 DEF IInv, ResyncUnchanged, WatchesFollowHandler, GenResources, SwapReplaces, serving
  <2>4. Effective' = Effective /\ UNCHANGED <<members, changed>> /\ ~changed
    BY <1>4 DEF ResyncUnchanged, Effective, GenResources, serving
  <2> QED
    BY <2>1, <2>2, <2>3, <2>4 DEF IInv
<1> QED
  BY <1>1, <1>2, <1>3, <1>4

\* Every step keeps the invariant.
LEMMA StepInv == ASSUME IInv, [Next]_vars PROVE IInv'
<1>1. CASE UNCHANGED vars
  <2>1. TypeOK'
    BY <1>1 DEF IInv, TypeOK, vars
  <2> QED
    BY <1>1, <2>1, OutsideStep DEF vars
<1>2. ASSUME NEW c \in Clusters, SetClusterFails(c)
      PROVE  IInv'
  <2>1. TypeOK'
    BY <1>2, MaxEventsAssumption DEF IInv, TypeOK, SetClusterFails, Event, serving, clusterVars
  <2> QED
    BY <1>2, <2>1, OutsideStep DEF SetClusterFails, serving
<1>3. CASE FinishSwap
  BY <1>3, SwapStep
<1>4. CASE Resync
  BY <1>4, ResyncStep, CallersStep DEF Resync
<1> QED
  BY <1>1, <1>2, <1>3, <1>4, CallStep, CallersStep, ClusterStep, WatchStep DEF Next

\* IInv is an invariant of the specification.
THEOREM Invariance == Spec => []IInv
BY InitInv, StepInv, PTL DEF Spec

\* The variables of Server keep their types (server.go).
THEOREM TypeCorrect == Spec => []TypeOK
<1>1. IInv => TypeOK
  BY DEF IInv
<1> QED
  BY <1>1, Invariance, PTL

\* Whoever interleaves with whom, a server at rest serves the merge of what its
\* members last resolved, or that merge has an error (rebuild and its three
\* callers, server.go).
THEOREM ServedSetCurrent == Spec => []ServedSetIsCurrent
<1>1. IInv => ServedSetIsCurrent
  BY DEF IInv, LockDiscipline, ServedSetIsCurrent, CurrentFor, Effective
<1> QED
  BY <1>1, Invariance, PTL

\* No inner server is replaced without its watches ending, and none loses them
\* while it is installed (swapHandler, server.go).
THEOREM WatchesEndWithHandler == Spec => []WatchesFollowHandler
<1>1. IInv => WatchesFollowHandler
  BY DEF IInv
<1> QED
  BY <1>1, Invariance, PTL
=============================================================================
