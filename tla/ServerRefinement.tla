--------------------------- MODULE ServerRefinement ---------------------------
(***************************************************************************)
(* Server implements the safety part of ServedSet, and the action          *)
(* properties of Server, for every value of the constants.  Both rest on   *)
(* one fact about Union (discovery.go): without a conflict the order in    *)
(* which the map of the members is visited decides the singular names of   *)
(* the merge and nothing else.                                             *)
(***************************************************************************)
EXTENDS ServerProofs, WellFoundedInduction

\* What members can resolve at all.
Reported ==
    UNION {FromDiscovery(doc) : doc \in {d \in Docs : ~FromDiscoveryFails(d)}}

\* All documents give a resource the same singular name.  The API server of a
\* cluster takes it from the resource's own definition, but nothing makes two
\* clusters agree.
SingularsAgree ==
    \A r, s \in Reported : r.gvr = s.gvr => r.singular = s.singular

\* While swapHandler runs its handler already serves the merge of the members.
StoredIsUnion == swapping => IsUnion(GenResources(handler), members)

\* No inner server is built for nothing, nor with a resource without a kind.
GensKept ==
    \A i \in 1 .. Len(gens) :
        gens[i].resources # {} /\ \A r \in gens[i].resources : r.kind # NoKind

\* A member, registered or about to be, has what some document reports.
ReportedKept ==
    /\ \A c \in Clusters : members[c] # NoMember => members[c].resources \subseteq Reported
    /\ call # NoCall => call.member.resources \subseteq Reported

\* The inductive invariant of the refinement.
RInv == IInv /\ StoredIsUnion /\ GensKept /\ ReportedKept

-----------------------------------------------------------------------------
(* What the order of the iteration decides *)

\* Some entry of a GVR is visited first.
LEMMA SomeLeads ==
    ASSUME NEW byCluster \in [Clusters -> SUBSET ServedResource],
           NEW order \in IterationOrders,
           NEW c \in Clusters, NEW r \in byCluster[c]
    PROVE  \E d \in Clusters : \E s \in byCluster[d] :
               s.gvr = r.gvr /\ Leads(byCluster, order, s.gvr, d)
<1> DEFINE S == ServersOf(byCluster, r.gvr)
           T == {order[d] : d \in S}
           R == OpToRel(<, Nat)
<1>1. order \in [Clusters -> Nat]
  <2>1. Cardinality(Clusters) \in Nat
    BY ClustersFinite, FS_CardinalityType
  <2> QED
    BY <2>1 DEF IterationOrders, Injection
<1>2. c \in S /\ S \subseteq Clusters
  BY DEF ServersOf
<1>3. T \subseteq Nat /\ T # {}
  BY <1>1, <1>2
<1>4. IsWellFoundedOn(R, Nat)
  BY NatLessThanWellFounded
<1> HIDE DEF R, T
<1>5. PICK x \in T : \A y \in T : ~(<<y, x>> \in R)
  BY <1>3, <1>4, WFMin
<1>6. \A y \in T : x <= y
  <2>1. \A y \in T : x \in Nat /\ y \in Nat
    BY <1>3
  <2>2. \A y \in T : ~(y < x)
    BY <1>5, <2>1 DEF R, OpToRel
  <2> QED
    BY <2>1, <2>2
<1>7. PICK d \in S : order[d] = x
  BY DEF T
<1>8. Leads(byCluster, order, r.gvr, d)
  BY <1>6, <1>7 DEF Leads, T
<1> QED
  BY <1>2, <1>7, <1>8 DEF ServersOf

\* An element of the merge is the merge of an entry, and of every other entry of
\* its GVR too, up to the singular name.
LEMMA OrderDecidesSingular ==
    ASSUME NEW byCluster \in [Clusters -> SUBSET ServedResource],
           NEW o1 \in IterationOrders, NEW o2 \in IterationOrders,
           ~UnionConflict(byCluster),
           NEW m \in Union(byCluster, o1)
    PROVE  \E c, d \in Clusters : \E r \in byCluster[c], s \in byCluster[d] :
             /\ m = Merged(byCluster, r)
             /\ Merged(byCluster, s) \in Union(byCluster, o2)
             /\ r.gvr = s.gvr /\ r.kind = s.kind /\ r.namespaced = s.namespaced
<1>1. PICK c \in Clusters : \E r \in byCluster[c] : m = Merged(byCluster, r)
  BY DEF Union
<1>2. PICK r \in byCluster[c] : m = Merged(byCluster, r)
  BY <1>1
<1>3. PICK d \in Clusters : \E s \in byCluster[d] :
        s.gvr = r.gvr /\ Leads(byCluster, o2, s.gvr, d)
  BY SomeLeads
<1>4. PICK s \in byCluster[d] : s.gvr = r.gvr /\ Leads(byCluster, o2, s.gvr, d)
  BY <1>3
<1>5. Merged(byCluster, s) \in Union(byCluster, o2)
  BY <1>4 DEF Union
<1>6. r.kind = s.kind /\ r.namespaced = s.namespaced
  BY <1>4 DEF UnionConflict
<1> QED
  BY <1>2, <1>4, <1>5, <1>6

\* Where the singular names agree, so do the merges of all iterations.
LEMMA OneUnion ==
    ASSUME NEW byCluster \in [Clusters -> SUBSET ServedResource],
           NEW o1 \in IterationOrders, NEW o2 \in IterationOrders,
           ~UnionConflict(byCluster),
           \A c, d \in Clusters : \A r \in byCluster[c], s \in byCluster[d] :
               r.gvr = s.gvr => r.singular = s.singular
    PROVE  Union(byCluster, o1) \subseteq Union(byCluster, o2)
<1> SUFFICES ASSUME NEW m \in Union(byCluster, o1)
             PROVE  m \in Union(byCluster, o2)
  OBVIOUS
<1>1. PICK c \in Clusters, d \in Clusters : \E r \in byCluster[c], s \in byCluster[d] :
        /\ m = Merged(byCluster, r)
        /\ Merged(byCluster, s) \in Union(byCluster, o2)
        /\ r.gvr = s.gvr /\ r.kind = s.kind /\ r.namespaced = s.namespaced
  BY OrderDecidesSingular
<1>2. PICK r \in byCluster[c], s \in byCluster[d] :
        /\ m = Merged(byCluster, r)
        /\ Merged(byCluster, s) \in Union(byCluster, o2)
        /\ r.gvr = s.gvr /\ r.kind = s.kind /\ r.namespaced = s.namespaced
  BY <1>1
<1>3. r.singular = s.singular
  BY <1>2
<1>4. Merged(byCluster, r) = Merged(byCluster, s)
  BY <1>2, <1>3 DEF Merged
<1> QED
  BY <1>2, <1>4

\* One merge with kinds throughout is enough: no other iteration of the same
\* members would have been refused by newGenericServer.
LEMMA NoErrorInAnyOrder ==
    ASSUME NEW ms \in [Clusters -> Member \union {NoMember}],
           NEW order \in IterationOrders,
           ~UnionConflict(ByCluster(ms)),
           \A m \in Union(ByCluster(ms), order) : m.kind # NoKind
    PROVE  ~RebuildError(ms)
<1> DEFINE bc == ByCluster(ms)
<1>1. bc \in [Clusters -> SUBSET ServedResource]
  BY MembersType
<1>2. ASSUME NEW o1 \in IterationOrders, NEW m \in Union(bc, o1)
      PROVE  m.kind # NoKind /\ \A c \in m.clusters : ClientsOf(ms)[c] # NoMember
  <2>1. PICK c \in Clusters, d \in Clusters : \E r \in bc[c], s \in bc[d] :
          /\ m = Merged(bc, r)
          /\ Merged(bc, s) \in Union(bc, order)
          /\ r.gvr = s.gvr /\ r.kind = s.kind /\ r.namespaced = s.namespaced
    BY <1>1, OrderDecidesSingular
  <2>2. PICK r \in bc[c], s \in bc[d] :
          /\ m = Merged(bc, r)
          /\ Merged(bc, s) \in Union(bc, order)
          /\ r.gvr = s.gvr /\ r.kind = s.kind /\ r.namespaced = s.namespaced
    BY <2>1
  <2>3. m.kind = Merged(bc, s).kind
    BY <2>2 DEF Merged
  <2>4. m.clusters = ServersOf(bc, r.gvr)
    BY <2>2 DEF Merged
  <2>5. ASSUME NEW e \in m.clusters
        PROVE  ClientsOf(ms)[e] # NoMember
    <3>1. e \in Clusters /\ bc[e] # {}
      BY <2>4 DEF ServersOf
    <3>2. ms[e] \in Member
      BY <3>1 DEF ByCluster
    <3>3. ms[e] # NoMember /\ ms[e].client \in Clients
      BY <3>2, NullAssumption DEF Member
    <3> QED
      BY <3>1, <3>3, NullAssumption DEF ClientsOf
  <2> QED
    BY <2>2, <2>3, <2>5
<1> HIDE DEF bc
<1>3. \A o1 \in IterationOrders : Installable(Union(bc, o1), ClientsOf(ms))
  BY <1>2 DEF Installable
<1> QED
  BY <1>3 DEF RebuildError, bc

-----------------------------------------------------------------------------
(* rebuild *)

\* What rebuild comes to: an error and nothing changed, nothing to do, or a new
\* handler that serves the merge.
Refused(who, ms) == RebuildError(ms) /\ Return(who, "error")

Kept(who, ms) ==
    /\ ~RebuildError(ms) /\ IsUnion(GenResources(handler), ms)
    /\ Return(who, "ok")

Swaps(who, ms) ==
    /\ ~RebuildError(ms)
    /\ \E order \in IterationOrders :
         /\ GenResources(handler)' = Union(ByCluster(ms), order)
         /\ ~Unchanged(Union(ByCluster(ms), order))
    /\ swapping' /\ mu' = who
    /\ UNCHANGED <<resources, stopWatches, done, result, changed>>

\* rebuild has these outcomes and no other (server.go).
LEMMA RebuildOutcome ==
    ASSUME IInv, GensKept, ~swapping,
           NEW ms \in [Clusters -> Member \union {NoMember}],
           NEW who \in {"caller", "resync"}, Rebuild(who, ms)
    PROVE  /\ Refused(who, ms) \/ Kept(who, ms) \/ Swaps(who, ms)
           /\ GensKept'
<1> DEFINE bc == ByCluster(ms)
           clients == ClientsOf(ms)
<1>1. /\ gens \in Seq(Generation) /\ Len(gens) \in Nat
      /\ handler \in 0 .. Len(gens)
      /\ resources = GenResources(handler)
  BY DEF IInv, TypeOK, WatchesFollowHandler
<1>2. ASSUME NEW err, Return(who, err) PROVE GensKept'
  <2>1. gens' = gens
    BY <1>2 DEF Return, serving
  <2> QED
    BY <2>1 DEF GensKept
<1>3. CASE UnionConflict(bc) /\ Return(who, "error")
  BY <1>2, <1>3 DEF Refused, RebuildError
<1>4. CASE ~UnionConflict(bc)
  <2>1. PICK order \in IterationOrders :
          LET union == Union(bc, order) IN
          \/ Unchanged(union) /\ Return(who, "ok")
          \/ union = {} /\ StoreHandler(who, 0) /\ gens' = gens
          \/ union # {} /\ ~Unchanged(union) /\ ~Installable(union, clients) /\ Return(who, "error")
          \/ /\ union # {} /\ ~Unchanged(union)
             /\ Installable(union, clients)
             /\ gens' = Append(gens, [resources |-> union, clients |-> clients])
             /\ StoreHandler(who, Len(gens) + 1)
    BY <1>4 DEF Rebuild
  <2> DEFINE union == Union(bc, order)
  <2>2. (\A m \in union : m.kind # NoKind) => ~RebuildError(ms)
    BY <1>4, NoErrorInAnyOrder
  <2>3. IsUnion(union, ms)
    BY DEF IsUnion
  <2> HIDE DEF union, bc, clients
  <2>4. CASE Unchanged(union) /\ Return(who, "ok")
    <3>1. union = GenResources(handler) /\ union # {}
      BY <1>1, <2>4 DEF Unchanged
    <3>2. \A m \in union : m.kind # NoKind
      BY <1>1, <3>1 DEF GenResources, GensKept
    <3> QED
      BY <1>2, <2>2, <2>3, <2>4, <3>1, <3>2 DEF Kept
  <2>5. CASE union = {} /\ StoreHandler(who, 0) /\ gens' = gens
    <3>1. ~RebuildError(ms)
      BY <2>2, <2>5
    <3>2. GenResources(handler)' = union /\ ~Unchanged(union)
      BY <2>5 DEF StoreHandler, GenResources, Unchanged
    <3>3. GensKept'
      BY <2>5 DEF GensKept
    <3> QED
      BY <2>5, <3>1, <3>2, <3>3 DEF Swaps, StoreHandler, union, bc
  <2>6. CASE ~Installable(union, clients) /\ Return(who, "error")
    <3>1. RebuildError(ms)
      BY <2>6 DEF RebuildError, union, bc, clients
    <3> QED
      BY <1>2, <2>6, <3>1 DEF Refused
  <2>7. CASE /\ union # {} /\ ~Unchanged(union)
             /\ Installable(union, clients)
             /\ gens' = Append(gens, [resources |-> union, clients |-> clients])
             /\ StoreHandler(who, Len(gens) + 1)
    <3>1. \A m \in union : m.kind # NoKind
      BY <2>7 DEF Installable
    <3>2. /\ Len(gens)' = Len(gens) + 1
          /\ gens'[Len(gens) + 1].resources = union
          /\ \A i \in 1 .. Len(gens) : gens'[i] = gens[i]
      BY <1>1, <2>7
    <3>3. GenResources(handler)' = union
      BY <1>1, <2>7, <3>2 DEF StoreHandler, GenResources
    <3>4. GensKept'
      <4> SUFFICES ASSUME NEW i \in 1 .. Len(gens)'
                   PROVE  /\ gens'[i].resources # {}
                          /\ \A m \in gens'[i].resources : m.kind # NoKind
        BY DEF GensKept
      <4>1. CASE i = Len(gens) + 1
        BY <2>7, <3>1, <3>2, <4>1
      <4>2. CASE i \in 1 .. Len(gens)
        BY <3>2, <4>2 DEF GensKept
      <4> QED
        BY <1>1, <3>2, <4>1, <4>2
    <3> QED
      BY <2>2, <2>7, <3>1, <3>3, <3>4 DEF Swaps, StoreHandler, union, bc
  <2> QED
    BY <2>1, <2>4, <2>5, <2>6, <2>7 DEF union
<1> QED
  BY <1>3, <1>4 DEF Rebuild

\* A resolve reads a document (memberCluster.resolve).
LEMMA ResolveReported ==
    ASSUME docs \in [Clusters -> Docs], NEW c \in Clusters, ~ResolveFails(c),
           NEW selectors
    PROVE  Resolve(c, selectors) \subseteq Reported
<1>1. docs[c] \in {d \in Docs : ~FromDiscoveryFails(d)}
  BY DEF ResolveFails
<1>2. FromDiscovery(docs[c]) \subseteq Reported
  BY <1>1 DEF Reported
<1> QED
  BY <1>2 DEF Resolve, Filter

\* The three callers of rebuild: the members they leave, and the outcome.
Rebuilds(who) ==
    /\ ~swapping
    /\ members' \in [Clusters -> Member \union {NoMember}]
    /\ Refused(who, members') \/ Kept(who, members') \/ Swaps(who, members')

\* SetCluster, once it has the mutex.
LEMMA PublishRebuilds ==
    ASSUME RInv, SetClusterPublish
    PROVE  /\ Rebuilds("caller") /\ GensKept' /\ ReportedKept'
           /\ call \in Call /\ mu = "free"
<1>1. ~swapping /\ mu = "free"
  BY DEF SetClusterPublish, RInv, IInv, LockDiscipline
<1>2. call \in Call
  BY DEF SetClusterPublish, RInv, IInv, TypeOK
<1>3. members \in [Clusters -> Member \union {NoMember}] /\ call.name \in Clusters
  BY <1>2 DEF RInv, IInv, TypeOK, Call
<1>4. /\ members' = [members EXCEPT ![call.name] = call.member] /\ call' = NoCall
      /\ Rebuild("caller", members')
  BY DEF SetClusterPublish
<1>5. members' \in [Clusters -> Member \union {NoMember}]
  BY <1>2, <1>3, <1>4 DEF Call
<1>6. /\ Refused("caller", members') \/ Kept("caller", members') \/ Swaps("caller", members')
      /\ GensKept'
  BY <1>1, <1>4, <1>5, RebuildOutcome DEF RInv
<1>7. ReportedKept'
  <2>1. call # NoCall
    BY DEF SetClusterPublish
  <2>2. \A c \in Clusters : members'[c] = IF c = call.name THEN call.member ELSE members[c]
    BY <1>3, <1>4
  <2> QED
    BY <1>4, <2>1, <2>2 DEF RInv, ReportedKept
<1> QED
  BY <1>1, <1>2, <1>5, <1>6, <1>7 DEF Rebuilds

\* RemoveCluster.
LEMMA RemoveRebuilds ==
    ASSUME RInv, NEW c \in Clusters, RemoveCluster(c)
    PROVE  /\ Rebuilds("caller") /\ GensKept' /\ ReportedKept'
           /\ mu = "free"
<1>1. ~swapping /\ mu = "free"
  BY DEF RemoveCluster, RInv, IInv, LockDiscipline
<1>2. members \in [Clusters -> Member \union {NoMember}]
  BY DEF RInv, IInv, TypeOK
<1>3. /\ members' = [members EXCEPT ![c] = NoMember] /\ call' = call
      /\ Rebuild("caller", members')
  BY DEF RemoveCluster
<1>4. members' \in [Clusters -> Member \union {NoMember}]
  BY <1>2, <1>3
<1>5. /\ Refused("caller", members') \/ Kept("caller", members') \/ Swaps("caller", members')
      /\ GensKept'
  BY <1>1, <1>3, <1>4, RebuildOutcome DEF RInv
<1>6. ReportedKept'
  <2>1. \A d \in Clusters : members'[d] = IF d = c THEN NoMember ELSE members[d]
    BY <1>2, <1>3
  <2> QED
    BY <1>3, <2>1 DEF RInv, ReportedKept
<1> QED
  BY <1>1, <1>4, <1>5, <1>6 DEF Rebuilds

\* resync, once it has seen a change.
LEMMA ResyncRebuilds ==
    ASSUME RInv, ResyncRebuild
    PROVE  Rebuilds("resync") /\ GensKept' /\ ReportedKept' /\ mu = "resync"
<1>1. ~swapping /\ mu = "resync" /\ members' = members /\ call' = call
  BY DEF ResyncRebuild
<1>2. members \in [Clusters -> Member \union {NoMember}] /\ Rebuild("resync", members')
  BY <1>1 DEF ResyncRebuild, RInv, IInv, TypeOK
<1>3. /\ Refused("resync", members') \/ Kept("resync", members') \/ Swaps("resync", members')
      /\ GensKept'
  BY <1>1, <1>2, RebuildOutcome DEF RInv
<1>4. ReportedKept'
  BY <1>1 DEF RInv, ReportedKept
<1> QED
  BY <1>1, <1>2, <1>3, <1>4 DEF Rebuilds

\* After rebuild the handler that is being swapped in serves the merge.
LEMMA RebuildsStored ==
    ASSUME NEW who, Rebuilds(who) PROVE StoredIsUnion'
<1>1. CASE Refused(who, members') \/ Kept(who, members')
  <2>1. swapping' = swapping
    BY <1>1 DEF Refused, Kept, Return, serving
  <2> QED
    BY <2>1 DEF Rebuilds, StoredIsUnion
<1>2. CASE Swaps(who, members')
  <2>1. IsUnion(GenResources(handler)', members')
    BY <1>2 DEF Swaps, IsUnion
  <2> QED
    BY <2>1 DEF StoredIsUnion, IsUnion, ByCluster
<1> QED
  BY <1>1, <1>2 DEF Rebuilds

\* Steps that touch neither the members nor the inner servers.
LEMMA QuietStep ==
    ASSUME RInv, UNCHANGED <<members, handler, gens, call>>, swapping' => swapping
    PROVE  StoredIsUnion' /\ GensKept' /\ ReportedKept'
<1>1. GensKept' /\ ReportedKept'
  BY DEF RInv, GensKept, ReportedKept
<1>2. GenResources(handler)' = GenResources(handler)
  BY DEF GenResources
<1>3. StoredIsUnion'
  BY <1>2 DEF RInv, StoredIsUnion, IsUnion, ByCluster
<1> QED
  BY <1>1, <1>3

-----------------------------------------------------------------------------
(* The inductive invariant of the refinement *)

\* It holds when New returns.
LEMMA InitRInv == Init => RInv
<1> SUFFICES ASSUME Init PROVE RInv
  OBVIOUS
<1>1. StoredIsUnion /\ GensKept /\ ReportedKept
  BY DEF Init, StoredIsUnion, GensKept, ReportedKept
<1> QED
  BY <1>1, InitInv DEF RInv

\* Resolving a member, at its registration and in a resync.
LEMMA ResolveSteps ==
    ASSUME RInv, NEW c \in Clusters,
           \/ \E client \in Clients, selectors \in SelectorLists :
                  SetClusterResolve(c, client, selectors)
           \/ ResyncResolve(c)
    PROVE  StoredIsUnion' /\ GensKept' /\ ReportedKept'
<1>1. docs \in [Clusters -> Docs] /\ members \in [Clusters -> Member \union {NoMember}]
  BY DEF RInv, IInv, TypeOK
<1>2. ASSUME NEW client \in Clients, NEW selectors \in SelectorLists,
             SetClusterResolve(c, client, selectors)
      PROVE  StoredIsUnion' /\ GensKept' /\ ReportedKept'
  <2>1. /\ UNCHANGED <<members, handler, gens, swapping>>
        /\ call'.member.resources = Resolve(c, selectors)
        /\ ~ResolveFails(c)
    BY <1>2 DEF SetClusterResolve, serving
  <2>2. ReportedKept'
    BY <1>1, <2>1, ResolveReported DEF RInv, ReportedKept
  <2>3. GenResources(handler)' = GenResources(handler)
    BY <2>1 DEF GenResources
  <2>4. StoredIsUnion' /\ GensKept'
    BY <2>1, <2>3 DEF RInv, StoredIsUnion, GensKept, IsUnion, ByCluster
  <2> QED
    BY <2>2, <2>4
<1>3. CASE ResyncResolve(c)
  <2> DEFINE new == Resolve(c, members[c].selectors)
  <2>1. /\ UNCHANGED <<handler, gens, swapping, call>> /\ ~swapping
        /\ ~ResolveFails(c)
        /\ members' = [members EXCEPT ![c].resources = new]
    BY <1>3 DEF ResyncResolve, serving
  <2>2. members[c] \in Member
    BY <1>3 DEF RInv, IInv, TypeOK, LockDiscipline, ResyncResolve
  <2>3. new \subseteq Reported
    BY <1>1, <2>1, ResolveReported
  <2> HIDE DEF new
  <2>4. \A d \in Clusters : IF d = c THEN members'[d].resources = new
                                     ELSE members'[d] = members[d]
    BY <1>1, <2>1, <2>2 DEF Member
  <2>5. ReportedKept'
    BY <2>1, <2>3, <2>4 DEF RInv, ReportedKept
  <2> QED
    BY <2>1, <2>5 DEF RInv, StoredIsUnion, GensKept
<1> QED
  BY <1>2, <1>3

\* Every step keeps it.
LEMMA StepRInv == ASSUME RInv, [Next]_vars PROVE RInv'
<1>1. IInv'
  BY StepInv DEF RInv
<1>2. StoredIsUnion' /\ GensKept' /\ ReportedKept'
  <2>1. CASE UNCHANGED vars
    BY <2>1, QuietStep DEF vars
  <2>2. ASSUME NEW c \in Clusters,
               SetClusterFails(c) \/ ChangeDiscovery(c) \/ Fail(c) \/ Recover(c)
        PROVE  StoredIsUnion' /\ GensKept' /\ ReportedKept'
    BY <2>2, QuietStep DEF SetClusterFails, ChangeDiscovery, Fail, Recover, serving
  <2>3. ASSUME NEW w \in Watchers,
               LoadHandler(w) \/ OpenWatch(w) \/ EndWatch(w) \/ LeaveWatch(w)
        PROVE  StoredIsUnion' /\ GensKept' /\ ReportedKept'
    BY <2>3, QuietStep DEF LoadHandler, OpenWatch, EndWatch, LeaveWatch, serving
  <2>4. CASE FinishSwap
    BY <2>4, QuietStep DEF FinishSwap
  <2>5. CASE ResyncStart \/ ResyncUnchanged
    BY <2>5, QuietStep DEF ResyncStart, ResyncUnchanged, serving
  <2>6. ASSUME NEW c \in Clusters, ResyncResolveFails(c)
        PROVE  StoredIsUnion' /\ GensKept' /\ ReportedKept'
    BY <2>6, QuietStep DEF ResyncResolveFails, serving
  <2>7. CASE SetClusterPublish
    BY <2>7, PublishRebuilds, RebuildsStored
  <2>8. ASSUME NEW c \in Clusters, RemoveCluster(c)
        PROVE  StoredIsUnion' /\ GensKept' /\ ReportedKept'
    BY <2>8, RemoveRebuilds, RebuildsStored
  <2>9. CASE ResyncRebuild
    BY <2>9, ResyncRebuilds, RebuildsStored
  <2> QED
    BY <2>1, <2>2, <2>3, <2>4, <2>5, <2>6, <2>7, <2>8, <2>9, ResolveSteps DEF Next, Resync
<1> QED
  BY <1>1, <1>2 DEF RInv

\* RInv is an invariant of the specification.
THEOREM RefinementInvariance == Spec => []RInv
BY InitRInv, StepRInv, PTL DEF Spec

-----------------------------------------------------------------------------
(* The action properties *)

\* What a call of SetCluster or RemoveCluster reports as done is in service when
\* it returns, whoever else uses the server (SetCluster, RemoveCluster, server.go).
THEOREM ReturnedOkServed == Spec => ReturnedOkIsServed
<1>1. ASSUME RInv, Next, Returns, result' = "ok"
      PROVE  IsUnion(GenResources(handler)', members')
  <2>1. CASE mu = "caller" /\ mu' = "free"
    <3>1. swapping
      BY <1>1, <2>1 DEF RInv, IInv, LockDiscipline
    <3>2. FinishSwap
      BY <1>1, <2>1, <3>1 DEF Next, Resync, SetClusterFails, SetClusterResolve, RemoveCluster,
        ChangeDiscovery, Fail, Recover, SetClusterPublish, ResyncStart, ResyncResolveFails,
        ResyncResolve, ResyncUnchanged, ResyncRebuild, LoadHandler, OpenWatch, EndWatch,
        LeaveWatch, CallerIdle
    <3>3. GenResources(handler)' = GenResources(handler) /\ members' = members
      BY <3>2 DEF FinishSwap, GenResources
    <3> QED
      BY <3>1, <3>3, <1>1 DEF RInv, StoredIsUnion
  <2>2. ASSUME Rebuilds("caller"), mu' = "free"
        PROVE  IsUnion(GenResources(handler)', members')
    <3>1. Kept("caller", members')
      BY <1>1, <2>2 DEF Rebuilds, Refused, Return, Swaps
    <3>2. GenResources(handler)' = GenResources(handler)
      BY <3>1 DEF Kept, Return, serving, GenResources
    <3> QED
      BY <3>1, <3>2 DEF Kept
  <2> QED
    BY <1>1, <2>1, <2>2, PublishRebuilds, RemoveRebuilds DEF Returns
<1>2. RInv /\ [Next]_vars => [Returns /\ result' = "ok" => IsUnion(GenResources(handler)', members')]_vars
  BY <1>1
<1> QED
  BY <1>2, RefinementInvariance, PTL DEF Spec, ReturnedOkIsServed

\* A swap after rebuild is a change of what is served, where the singular names
\* agree.
LEMMA SwapChanges ==
    ASSUME SingularsAgree, RInv, ReportedKept', NEW who, Rebuilds(who),
           handler # 0, handler' # handler
    PROVE  ~IsUnion(gens[handler].resources, members')
<1> DEFINE bc == ByCluster(members')
<1>1. /\ resources = gens[handler].resources /\ resources # {}
      /\ members' \in [Clusters -> Member \union {NoMember}]
  <2>1. handler \in 1 .. Len(gens) /\ resources = GenResources(handler)
    BY DEF RInv, IInv, TypeOK, WatchesFollowHandler, Rebuilds
  <2> QED
    BY <2>1 DEF GenResources, RInv, GensKept, Rebuilds
<1>2. Swaps(who, members')
  BY DEF Rebuilds, Refused, Kept, Return, serving
<1>3. PICK order \in IterationOrders : ~Unchanged(Union(bc, order))
  BY <1>2 DEF Swaps
<1>4. ~UnionConflict(bc)
  BY <1>2 DEF Swaps, RebuildError
<1>5. bc \in [Clusters -> SUBSET ServedResource]
  BY <1>1, MembersType
<1>6. \A c, d \in Clusters : \A r \in bc[c], s \in bc[d] : r.gvr = s.gvr => r.singular = s.singular
  <2>1. \A c \in Clusters : bc[c] \subseteq Reported
    BY DEF ReportedKept, ByCluster
  <2> QED
    BY <2>1 DEF SingularsAgree
<1> HIDE DEF bc
<1>7. ASSUME NEW o \in IterationOrders, gens[handler].resources = Union(bc, o)
      PROVE  FALSE
  <2>1. Union(bc, o) = Union(bc, order)
    BY <1>4, <1>5, <1>6, OneUnion
  <2> QED
    BY <1>1, <1>3, <1>7, <2>1 DEF Unchanged
<1> QED
  BY <1>7 DEF IsUnion, bc

\* Where the clusters agree on the singular names, the watches of the clients are
\* ended only by a step after which the installed inner server would serve
\* something else than the merge (rebuild and swapHandler, server.go).
THEOREM SwapsOnlyOnChange == ASSUME SingularsAgree PROVE Spec => SwapOnlyOnChange
<1>1. ASSUME RInv, RInv', Next, handler # 0, handler' # handler
      PROVE  ~IsUnion(gens[handler].resources, members')
  <2>1. \/ SetClusterPublish \/ \E c \in Clusters : RemoveCluster(c)
        \/ ResyncRebuild
    BY <1>1 DEF Next, Resync, SetClusterFails, SetClusterResolve,
      ChangeDiscovery, Fail, Recover, ResyncStart, ResyncResolveFails,
      ResyncResolve, ResyncUnchanged, FinishSwap, LoadHandler, OpenWatch, EndWatch,
      LeaveWatch, serving
  <2>2. ReportedKept' /\ \E who : Rebuilds(who)
    BY <1>1, <2>1, PublishRebuilds, RemoveRebuilds, ResyncRebuilds
  <2> QED
    BY <1>1, <2>2, SwapChanges
<1>2. RInv /\ RInv' /\ [Next]_vars
        => [handler # 0 /\ handler' # handler
             => ~IsUnion(gens[handler].resources, members')]_vars
  BY <1>1
<1> QED
  BY <1>2, RefinementInvariance, PTL DEF Spec, SwapOnlyOnChange

-----------------------------------------------------------------------------
(* The refinement of ServedSet *)

\* The safety part of ImplementsServedSet: the abstract server's initial states
\* and steps, without its fairness.
ServesAsPromised == Promise!Init /\ [][Promise!Next]_(Promise!vars)

\* The abstract result.
ResultSeen == IF mu = "caller" THEN "ok" ELSE result

\* The abstract module has its own copy of the operators on discovery documents
\* and members; they are the same.
LEMMA SameDiscovery ==
    /\ \A d : Promise!FromDiscoveryFails(d) <=> FromDiscoveryFails(d)
    /\ \A d : Promise!FromDiscovery(d) = FromDiscovery(d)
    /\ \A r, s : Promise!Filter(r, s) = Filter(r, s)
<1>1. \A d : Promise!FromDiscoveryFails(d) <=> FromDiscoveryFails(d)
  BY DEF FromDiscoveryFails, Promise!FromDiscoveryFails
<1>2. \A l, r : Promise!Served(l, r) = Served(l, r)
  BY DEF Served, Promise!Served
<1>3. \A d : Promise!FromDiscovery(d) = FromDiscovery(d)
  <2> DEFINE F(l) == {Promise!Served(l, r) : r \in {q \in l.resources : q.sub = ""}}
             G(l) == {Served(l, r) : r \in {q \in l.resources : q.sub = ""}}
  <2>1. \A l : F(l) = G(l)
    BY <1>2
  <2>2. \A d : /\ Promise!FromDiscovery(d) = UNION {F(l) : l \in d}
               /\ FromDiscovery(d) = UNION {G(l) : l \in d}
    BY DEF FromDiscovery, Promise!FromDiscovery
  <2> HIDE DEF F, G
  <2>3. \A d : UNION {F(l) : l \in d} = UNION {G(l) : l \in d}
    BY <2>1
  <2> QED
    BY <2>2, <2>3
<1>4. \A g, s : Promise!matches(g, s) <=> matches(g, s)
  BY DEF matches, Promise!matches
<1>5. \A r, s : Promise!Filter(r, s) = Filter(r, s)
  BY <1>4 DEF Filter, Promise!Filter
<1> QED
  BY <1>1, <1>3, <1>5

\* So are the operators on members and their merge.
LEMMA SameMerge ==
    /\ \A ms : Promise!RebuildError(ms) <=> RebuildError(ms)
    /\ \A ms : Promise!ByCluster(ms) = ByCluster(ms)
    /\ \A bc, o : Promise!Union(bc, o) = Union(bc, o)
    /\ Promise!IterationOrders = IterationOrders
<1>1. \A ms : Promise!ByCluster(ms) = ByCluster(ms) /\ Promise!ClientsOf(ms) = ClientsOf(ms)
  BY DEF ByCluster, ClientsOf, Promise!ByCluster, Promise!ClientsOf
<1>2. \A bc, g : Promise!ServersOf(bc, g) = ServersOf(bc, g)
  BY DEF ServersOf, Promise!ServersOf
<1>3. \A bc, r : Promise!Merged(bc, r) = Merged(bc, r)
  BY <1>2 DEF Merged, Promise!Merged
<1>4. \A bc, o, g, c : Promise!Leads(bc, o, g, c) <=> Leads(bc, o, g, c)
  BY <1>2 DEF Leads, Promise!Leads
<1>5. \A bc, o : Promise!Union(bc, o) = Union(bc, o)
  <2> DEFINE F(bc, o, c) ==
               {Promise!Merged(bc, r) : r \in {s \in bc[c] : Promise!Leads(bc, o, s.gvr, c)}}
             G(bc, o, c) ==
               {Merged(bc, r) : r \in {s \in bc[c] : Leads(bc, o, s.gvr, c)}}
  <2>1. \A bc, o, c : F(bc, o, c) = G(bc, o, c)
    BY <1>3, <1>4
  <2>2. \A bc, o : /\ Promise!Union(bc, o) = UNION {F(bc, o, c) : c \in Clusters}
                   /\ Union(bc, o) = UNION {G(bc, o, c) : c \in Clusters}
    BY DEF Union, Promise!Union
  <2> HIDE DEF F, G
  <2>3. \A bc, o : UNION {F(bc, o, c) : c \in Clusters} = UNION {G(bc, o, c) : c \in Clusters}
    BY <2>1
  <2> QED
    BY <2>2, <2>3
<1>6. Promise!IterationOrders = IterationOrders
  <2>1. Promise!Cardinality(Clusters) = Cardinality(Clusters)
    BY DEF Cardinality, Promise!Cardinality
  <2> QED
    BY <2>1 DEF IterationOrders, Injection, IsInjective,
      Promise!IterationOrders, Promise!Injection, Promise!IsInjective
<1>7. \A bc : Promise!UnionConflict(bc) <=> UnionConflict(bc)
  BY DEF UnionConflict, Promise!UnionConflict
<1>8. \A u, clients : Promise!Installable(u, clients) <=> Installable(u, clients)
  BY DEF Installable, Promise!Installable
<1>9. \A ms : Promise!RebuildError(ms) <=> RebuildError(ms)
  BY <1>1, <1>5, <1>6, <1>7, <1>8 DEF RebuildError, Promise!RebuildError
<1> QED
  BY <1>1, <1>5, <1>6, <1>9

\* Steps the caller of the server cannot see.
LEMMA HiddenStep ==
    ASSUME UNCHANGED <<members, handler, gens, call, docs, down>>,
           ResultSeen' = ResultSeen
    PROVE  UNCHANGED Promise!vars
<1>1. GenResources(handler)' = GenResources(handler)
  BY DEF GenResources
<1> QED
  BY <1>1 DEF Promise!vars, ResultSeen

\* rebuild, as the caller sees it: a merge is in service and there is no error,
\* or there is an error and nothing has changed.
LEMMA RebuildsAbstract ==
    ASSUME RInv, NEW who \in {"caller", "resync"}, Rebuilds(who)
    PROVE  /\ Promise!Rebuild(members')
           /\ who = "caller" => ResultSeen' = Promise!Outcome(members')
           /\ who = "resync" /\ mu = "resync" => ResultSeen' = ResultSeen
<1>1. CASE Refused(who, members')
  <2>1. GenResources(handler)' = GenResources(handler) /\ RebuildError(members')
    BY <1>1 DEF Refused, Return, serving, GenResources
  <2> QED
    BY <1>1, <2>1, SameMerge DEF Refused, Return, Promise!Rebuild, Promise!Outcome, ResultSeen
<1>2. CASE Kept(who, members')
  <2>1. GenResources(handler)' = GenResources(handler) /\ ~RebuildError(members')
    BY <1>2 DEF Kept, Return, serving, GenResources
  <2>2. \E order \in IterationOrders : GenResources(handler)' = Union(ByCluster(members'), order)
    BY <1>2, <2>1 DEF Kept, IsUnion
  <2> QED
    BY <1>2, <2>1, <2>2, SameMerge DEF Kept, Return, Promise!Rebuild, Promise!Outcome, ResultSeen
<1>3. CASE Swaps(who, members')
  BY <1>3, SameMerge DEF Swaps, Promise!Rebuild, Promise!Outcome, ResultSeen
<1> QED
  BY <1>1, <1>2, <1>3 DEF Rebuilds

\* The caller's steps.
LEMMA CallerAbstract ==
    ASSUME RInv,
           \/ \E c \in Clusters :
                \/ SetClusterFails(c)
                \/ \E client \in Clients, selectors \in SelectorLists :
                       SetClusterResolve(c, client, selectors)
                \/ RemoveCluster(c)
           \/ SetClusterPublish
    PROVE  Promise!Next
<1>1. ASSUME NEW c \in Clusters, SetClusterFails(c)
      PROVE  Promise!Next
  <2>1. GenResources(handler)' = GenResources(handler)
    BY <1>1 DEF SetClusterFails, serving, GenResources
  <2>2. Promise!SetClusterFails(c)
    BY <1>1, <2>1, SameDiscovery DEF SetClusterFails, CallerIdle, ResolveFails, clusterVars,
      Promise!SetClusterFails, Promise!ResolveFails
  <2> QED
    BY <2>2 DEF Promise!Next
<1>2. ASSUME NEW c \in Clusters, NEW client \in Clients, NEW selectors \in SelectorLists,
             SetClusterResolve(c, client, selectors)
      PROVE  Promise!Next
  <2>1. GenResources(handler)' = GenResources(handler)
    BY <1>2 DEF SetClusterResolve, serving, GenResources
  <2>2. Promise!SetClusterResolve(c, client, selectors)
    BY <1>2, <2>1, SameDiscovery DEF SetClusterResolve, CallerIdle, ResolveFails, Resolve, clusterVars,
      Promise!SetClusterResolve, Promise!ResolveFails, Promise!Resolve
  <2> QED
    BY <2>2 DEF Promise!Next
<1>3. ASSUME NEW c \in Clusters, RemoveCluster(c)
      PROVE  Promise!Next
  <2>1. Promise!Rebuild(members') /\ ResultSeen' = Promise!Outcome(members')
    BY <1>3, RemoveRebuilds, RebuildsAbstract
  <2>2. Promise!RemoveCluster(c)
    BY <1>3, <2>1 DEF RemoveCluster, CallerIdle, clusterVars, Promise!RemoveCluster, ResultSeen
  <2> QED
    BY <2>2 DEF Promise!Next
<1>4. CASE SetClusterPublish
  <2>1. Promise!Rebuild(members') /\ ResultSeen' = Promise!Outcome(members')
    BY <1>4, PublishRebuilds, RebuildsAbstract
  <2>2. Promise!SetClusterPublish
    BY <1>4, <2>1 DEF SetClusterPublish, clusterVars, Promise!SetClusterPublish, ResultSeen
  <2> QED
    BY <2>2 DEF Promise!Next
<1> QED
  BY <1>1, <1>2, <1>3, <1>4

\* The resync loop: a pass is one Refresh for each member that has news and, if
\* there was any, one Republish.
LEMMA ResyncAbstract ==
    ASSUME RInv, Resync PROVE Promise!Next \/ UNCHANGED Promise!vars
<1>1. CASE ResyncStart
  BY <1>1, HiddenStep DEF ResyncStart, serving, clusterVars, ResultSeen
<1>2. ASSUME NEW c \in Clusters, ResyncResolveFails(c)
      PROVE  UNCHANGED Promise!vars
  BY <1>2, HiddenStep DEF ResyncResolveFails, serving, clusterVars, ResultSeen
<1>3. ASSUME NEW c \in Clusters, ResyncResolve(c)
      PROVE  Promise!Next \/ UNCHANGED Promise!vars
  <2> DEFINE new == Resolve(c, members[c].selectors)
  <2>1. /\ UNCHANGED <<handler, gens, call, docs, down, mu, result>>
        /\ ~ResolveFails(c)
        /\ members' = [members EXCEPT ![c].resources = new]
    BY <1>3 DEF ResyncResolve, serving, clusterVars
  <2>2. members[c] \in Member /\ members[c] # NoMember
    BY <1>3, NullAssumption DEF RInv, IInv, TypeOK, LockDiscipline, ResyncResolve
  <2>3. GenResources(handler)' = GenResources(handler)
    BY <2>1 DEF GenResources
  <2>4. CASE new = members[c].resources
    <3>1. [members[c] EXCEPT !.resources = new] = members[c]
      BY <2>2, <2>4 DEF Member
    <3>2. members \in [Clusters -> Member \union {NoMember}]
      BY DEF RInv, IInv, TypeOK
    <3> HIDE DEF new
    <3>3. members' = members
      BY <2>1, <3>1, <3>2
    <3> QED
      BY <2>1, <3>3, HiddenStep DEF ResultSeen
  <2>5. CASE new # members[c].resources
    <3>1. Promise!Refresh(c)
      BY <2>1, <2>2, <2>3, <2>5, SameDiscovery DEF ResolveFails, Resolve, Promise!Refresh, Promise!Outdated,
        Promise!ResolveFails, Promise!Resolve
    <3> QED
      BY <3>1 DEF Promise!Next
  <2> QED
    BY <2>4, <2>5
<1>4. CASE ResyncUnchanged
  BY <1>4, HiddenStep DEF ResyncUnchanged, serving, clusterVars, ResultSeen
<1>5. CASE ResyncRebuild
  <2>1. Promise!Rebuild(members') /\ ResultSeen' = ResultSeen
    BY <1>5, ResyncRebuilds, RebuildsAbstract
  <2>2. Promise!Republish
    BY <1>5, <2>1 DEF ResyncRebuild, clusterVars, Promise!Republish, Promise!Rebuild, ResultSeen
  <2> QED
    BY <2>2 DEF Promise!Next
<1> QED
  BY <1>1, <1>2, <1>3, <1>4, <1>5 DEF Resync

\* Every step of the server is a step of ServedSet or invisible to the caller.
LEMMA StepAbstract ==
    ASSUME RInv, [Next]_vars PROVE [Promise!Next]_(Promise!vars)
<1>1. CASE UNCHANGED vars
  BY <1>1, HiddenStep DEF vars, ResultSeen
<1>2. CASE FinishSwap
  <2>1. ResultSeen' = ResultSeen
    BY <1>2 DEF FinishSwap, ResultSeen
  <2> QED
    BY <1>2, <2>1, HiddenStep DEF FinishSwap, clusterVars
<1>3. ASSUME NEW w \in Watchers,
             LoadHandler(w) \/ OpenWatch(w) \/ EndWatch(w) \/ LeaveWatch(w)
      PROVE  UNCHANGED Promise!vars
  BY <1>3, HiddenStep DEF LoadHandler, OpenWatch, EndWatch, LeaveWatch, serving, clusterVars,
    ResultSeen
<1>4. ASSUME NEW c \in Clusters, ChangeDiscovery(c) \/ Fail(c) \/ Recover(c)
      PROVE  Promise!Next
  <2>1. /\ UNCHANGED <<members, call, mu, result>>
        /\ GenResources(handler)' = GenResources(handler)
    BY <1>4 DEF ChangeDiscovery, Fail, Recover, serving, GenResources
  <2>2. Promise!ChangeDiscovery(c) \/ Promise!Fail(c) \/ Promise!Recover(c)
    BY <1>4, <2>1 DEF ChangeDiscovery, Fail, Recover,
      Promise!ChangeDiscovery, Promise!Fail, Promise!Recover
  <2> QED
    BY <2>2 DEF Promise!Next
<1> QED
  BY <1>1, <1>2, <1>3, <1>4, CallerAbstract, ResyncAbstract DEF Next

\* To the one caller that registers clusters the server is ServedSet: handlers
\* stored before the watches of the old one end, the early return of rebuild, the
\* mutex and a resync that holds it over slow discoveries never show, and each call
\* either serves the merge of all members or reports an error and serves what it
\* did (SetCluster, RemoveCluster, resync and rebuild, server.go).
THEOREM Refinement == Spec => ServesAsPromised
<1>1. Init => Promise!Init
  BY DEF Init, GenResources, Promise!Init, Promise!NoMembers
<1> QED
  BY <1>1, StepAbstract, RefinementInvariance, PTL DEF Spec, ServesAsPromised
=============================================================================
