----------------------------- MODULE InstallProofs -----------------------------
(***************************************************************************)
(* Theorems about Install and the loops of UnionLoop it starts from, for   *)
(* every set of clusters and whatever they report: the types, that the     *)
(* loops compute what Discovery!Union and Discovery!UnionConflict define,  *)
(* and, where every group has one version, that all of it is served.       *)
(*                                                                         *)
(* Discovery!Union is given the order in which the map is iterated; the    *)
(* loops have no such thing, only the clusters visited so far.  The        *)
(* invariant says that there is an order of these, the current one last,   *)
(* for which merged holds the merge of the resources met so far (SoFar).   *)
(***************************************************************************)
EXTENDS Install, FiniteSetTheorems, TLAPS

-----------------------------------------------------------------------------
(* The invariant of the two loops of Union *)

Visited == Clusters \ unvisited

\* The part of the argument that the loops have worked off.
SoFar ==
    [c \in Clusters |->
        IF c \in unvisited THEN {}
        ELSE IF c = cluster THEN byCluster[c] \ remaining ELSE byCluster[c]]

\* The inner loop works on the resources of the cluster that the outer one visited last.
CurrentKept == remaining # {} => cluster \in Visited /\ remaining \subseteq byCluster[cluster]

\* A position for each visited cluster; the current one comes last.
VisitOrders ==
    {order \in Injection(Visited, 1 .. Cardinality(Visited)) :
        cluster \in Visited => \A c \in Visited : order[c] <= order[cluster]}

\* merged has an entry for what was met.
KeysKept == \A g \in GVR : g \in DOMAIN merged <=> ServersOf(SoFar, g) # {}

\* The entry for g is the merge of what was met, led by the cluster visited first.
IsEntry(order, g) ==
    \E c \in Visited : \E r \in SoFar[c] :
        /\ r.gvr = g
        /\ Leads(SoFar, order, g, c)
        /\ merged[g] = Merged(SoFar, r)

EntriesKept == \E order \in VisitOrders : \A g \in DOMAIN merged : IsEntry(order, g)

\* An error is returned for a conflict and there was none before it.
ConflictsKept ==
    /\ failed => UnionConflict(byCluster)
    /\ ~failed => ~UnionConflict(SoFar)

LoopInv ==
    /\ UnionTypeOK
    /\ CurrentKept
    /\ KeysKept
    /\ EntriesKept
    /\ ConflictsKept

-----------------------------------------------------------------------------
(* The invariant of the installation *)

\* The group versions that installResources finds in the merge.
Planned == {GVOf(r.gvr) : r \in Storages}

\* Each of them is waiting or done, and what is done has its endpoints; nothing is
\* there before the merge has returned without an error.
InstallKept ==
    /\ outcome \in {"merging", "error"} =>
         pending = {} /\ endpoints = {} /\ aggregated = {}
    /\ outcome \in {"installing", "ok", "exit"} =>
         Returned /\ ~failed /\ pending \union aggregated = Planned
    /\ outcome = "ok" => pending = {}
    /\ pending \intersect aggregated = {}
    /\ roots = {gv.group : gv \in aggregated}
    /\ \A gv \in aggregated : StorageMap(gv) \subseteq endpoints

IInv == TypeOK /\ LoopInv /\ InstallKept

\* No group comes in two versions: what installGroupVersion and the discovery of
\* groups cope with.
OneVersionPerGroup ==
    \A i, k \in Inputs : \A r \in i, s \in k :
        r.gvr.group = s.gvr.group => r.gvr.version = s.gvr.version

\* Then the process does not end, and a group's entry is not replaced.
VersionsKept ==
    /\ outcome # "exit"
    /\ \A gv \in aggregated : gv.group # Legacy => groups[gv.group] = gv.version
-----------------------------------------------------------------------------
(* One more resource in the argument of Union *)

\* How the merge of B2 differs from that of B, with r at c besides.
Grown(B, B2, c, r) ==
    /\ \A g : g # r.gvr => ServersOf(B2, g) = ServersOf(B, g)
    /\ ServersOf(B2, r.gvr) = ServersOf(B, r.gvr) \union {c}
    /\ \A s : s.gvr # r.gvr => Merged(B2, s) = Merged(B, s)
    /\ \A s : s.gvr = r.gvr => Merged(B2, s) = Extended(Merged(B, s), r, c)

\* What the merge of a map becomes when one cluster serves one more resource.
LEMMA OneMore ==
    ASSUME NEW B \in [Clusters -> SUBSET ServedResource],
           NEW c \in Clusters, NEW r \in ServedResource
    PROVE  Grown(B, [B EXCEPT ![c] = B[c] \union {r}], c, r)
<1>0. PICK B2 : B2 = [B EXCEPT ![c] = B[c] \union {r}]
  OBVIOUS
<1>1. /\ B2 \in [Clusters -> SUBSET ServedResource]
      /\ B2[c] = B[c] \union {r}
      /\ \A d \in Clusters : d # c => B2[d] = B[d]
  BY <1>0
<1>2. ASSUME NEW g, g # r.gvr
      PROVE  ServersOf(B2, g) = ServersOf(B, g)
  BY <1>1, <1>2 DEF ServersOf
<1>3. ServersOf(B2, r.gvr) = ServersOf(B, r.gvr) \union {c}
  BY <1>1 DEF ServersOf
<1>4. ASSUME NEW s, s.gvr # r.gvr
      PROVE  Merged(B2, s) = Merged(B, s)
  <2>1. (\E d \in Clusters : \E q \in B2[d] : q.gvr = s.gvr /\ q.status)
          <=> (\E d \in Clusters : \E q \in B[d] : q.gvr = s.gvr /\ q.status)
    BY <1>1, <1>4
  <2>2. ServersOf(B2, s.gvr) = ServersOf(B, s.gvr)
    BY <1>2, <1>4
  <2> QED
    BY <2>1, <2>2 DEF Merged
<1>5. ASSUME NEW s, s.gvr = r.gvr
      PROVE  Merged(B2, s) = Extended(Merged(B, s), r, c)
  <2>1. (\E d \in Clusters : \E q \in B2[d] : q.gvr = s.gvr /\ q.status)
          <=> (\E d \in Clusters : \E q \in B[d] : q.gvr = s.gvr /\ q.status) \/ r.status
    BY <1>1, <1>5
  <2>2. ServersOf(B2, s.gvr) = ServersOf(B, s.gvr) \union {c}
    BY <1>3, <1>5
  <2>3. Merged(B2, s).status = (Merged(B, s).status \/ r.status)
    BY <2>1 DEF Merged
  <2>4. Extended(Merged(B, s), r, c) =
          [gvr |-> s.gvr, kind |-> s.kind, namespaced |-> s.namespaced,
           singular |-> s.singular, status |-> (Merged(B, s).status \/ r.status),
           clusters |-> ServersOf(B, s.gvr) \union {c}]
    <3>1. PICK m : m = Merged(B, s)
      OBVIOUS
    <3>2. PICK status : status = m.status
      OBVIOUS
    <3>3. m = [gvr |-> s.gvr, kind |-> s.kind, namespaced |-> s.namespaced,
               singular |-> s.singular, status |-> status, clusters |-> ServersOf(B, s.gvr)]
      BY <3>1, <3>2 DEF Merged
    <3>4. PICK either : either = (m.status \/ r.status)
      OBVIOUS
    <3>5. Extended(m, r, c) = [m EXCEPT !.status = either, !.clusters = @ \union {c}]
      BY <3>4, Zenon DEF Extended
    <3>6. Extended(m, r, c) =
            [gvr |-> s.gvr, kind |-> s.kind, namespaced |-> s.namespaced,
             singular |-> s.singular, status |-> either,
             clusters |-> ServersOf(B, s.gvr) \union {c}]
      BY <3>3, <3>5
    <3> QED
      BY <3>1, <3>4, <3>6, Zenon
  <2>5. Merged(B2, s) =
          [gvr |-> s.gvr, kind |-> s.kind, namespaced |-> s.namespaced,
           singular |-> s.singular, status |-> Merged(B2, s).status,
           clusters |-> ServersOf(B2, s.gvr)]
    BY DEF Merged
  <2> QED
    BY <2>2, <2>3, <2>4, <2>5
<1>6. Grown(B, B2, c, r)
  BY <1>2, <1>3, <1>4, <1>5 DEF Grown
<1> QED
  BY <1>0, <1>6

\* What the loops have met is typed and part of the argument.
LEMMA SoFarType ==
    ASSUME UnionTypeOK
    PROVE  /\ byCluster \in [Clusters -> SUBSET ServedResource]
           /\ SoFar \in [Clusters -> SUBSET ServedResource]
           /\ \A c \in Clusters : SoFar[c] \subseteq byCluster[c]
<1>1. byCluster \in [Clusters -> SUBSET ServedResource]
  BY InputsAssumption DEF UnionTypeOK
<1> QED
  BY <1>1 DEF SoFar

\* The inner loop moves a resource from what remains to what was met.
LEMMA MetStep ==
    ASSUME LoopInv, NEW r \in remaining, remaining' = remaining \ {r},
           UNCHANGED <<byCluster, unvisited, cluster>>
    PROVE  /\ cluster \in Visited /\ cluster \in Clusters
           /\ r \in ServedResource /\ r \in byCluster[cluster]
           /\ VisitOrders' = VisitOrders /\ Visited' = Visited
           /\ CurrentKept'
           /\ Grown(SoFar, SoFar', cluster, r)
           /\ r \in SoFar'[cluster]
           /\ \A c \in Clusters : SoFar[c] \subseteq SoFar'[c]
           /\ \A c \in Clusters : \A s \in SoFar'[c] :
                s \in SoFar[c] \/ (c = cluster /\ s = r)
<1>1. /\ cluster \in Visited /\ cluster \in Clusters /\ cluster \notin unvisited
      /\ remaining \subseteq byCluster[cluster]
  BY DEF LoopInv, CurrentKept, Visited
<1>2. /\ r \in ServedResource /\ r \in byCluster[cluster]
      /\ SoFar \in [Clusters -> SUBSET ServedResource]
  BY <1>1, SoFarType DEF LoopInv
<1>3. SoFar' = [SoFar EXCEPT ![cluster] = SoFar[cluster] \union {r}]
  <2>1. \A c \in Clusters :
            SoFar'[c] = [SoFar EXCEPT ![cluster] = SoFar[cluster] \union {r}][c]
    BY <1>1, <1>2 DEF SoFar
  <2> QED
    BY <2>1 DEF SoFar
<1>4. VisitOrders' = VisitOrders /\ Visited' = Visited
  BY DEF VisitOrders, Visited
<1>5. CurrentKept'
  BY <1>1, <1>4 DEF CurrentKept
<1>6. Grown(SoFar, SoFar', cluster, r)
  <2>1. Grown(SoFar, [SoFar EXCEPT ![cluster] = SoFar[cluster] \union {r}], cluster, r)
    BY <1>1, <1>2, OneMore
  <2> QED
    BY <1>3, <2>1
<1>7. /\ r \in SoFar'[cluster]
      /\ \A c \in Clusters : SoFar[c] \subseteq SoFar'[c]
      /\ \A c \in Clusters : \A s \in SoFar'[c] : s \in SoFar[c] \/ (c = cluster /\ s = r)
  BY <1>1, <1>2, <1>3
<1> QED
  BY <1>1, <1>2, <1>4, <1>5, <1>6, <1>7

\* Positions are numbers.
LEMMA OrderType ==
    ASSUME NEW order \in VisitOrders
    PROVE  order \in [Visited -> Nat]
<1>1. Cardinality(Visited) \in Nat
  BY ClustersFinite, FS_Subset, FS_CardinalityType DEF Visited
<1> QED
  BY <1>1 DEF VisitOrders, Injection

-----------------------------------------------------------------------------
(* The steps of the loops *)

\* Before the first iteration nothing was met and merged is empty.
LEMMA LoopInit ==
    ASSUME Init
    PROVE  LoopInv
<1>1. /\ byCluster \in [Clusters -> Inputs] /\ merged = << >> /\ unvisited = Clusters
      /\ cluster = NoCluster /\ remaining = {} /\ failed = FALSE
  BY DEF Init, UnionInit
<1>2. UnionTypeOK
  <2>1. DOMAIN merged = {}
    BY <1>1
  <2> QED
    BY <1>1, <2>1 DEF UnionTypeOK
<1>3. SoFar = [c \in Clusters |-> {}] /\ Visited = {}
  BY <1>1 DEF SoFar, Visited
<1>4. KeysKept /\ CurrentKept /\ ConflictsKept
  BY <1>1, <1>3 DEF KeysKept, CurrentKept, ConflictsKept, ServersOf, UnionConflict
<1>5. EntriesKept
  <2>1. Cardinality(Visited) = 0
    BY <1>3, FS_EmptySet
  <2>2. << >> \in VisitOrders
    BY <1>3, <2>1 DEF VisitOrders, Injection, IsInjective
  <2> QED
    BY <1>1, <2>2 DEF EntriesKept
<1> QED
  BY <1>2, <1>4, <1>5 DEF LoopInv
\* The outer loop: a position is added to the order, and nothing is met yet.
LEMMA NextClusterStep ==
    ASSUME LoopInv, NEW c \in Clusters, NextCluster(c)
    PROVE  LoopInv'
<1>1. /\ remaining = {} /\ ~failed /\ c \in unvisited /\ cluster' = c
      /\ remaining' = byCluster[c] /\ unvisited' = unvisited \ {c}
      /\ UNCHANGED <<byCluster, merged, failed>>
      /\ unvisited \subseteq Clusters
  BY DEF NextCluster, LoopInv, UnionTypeOK
<1>2. UnionTypeOK'
  <2>1. byCluster[c] \subseteq ServedResource
    BY SoFarType DEF LoopInv
  <2> QED
    BY <1>1, <2>1 DEF LoopInv, UnionTypeOK
<1>3. SoFar' = SoFar
  <2>1. \A d \in Clusters : SoFar'[d] = SoFar[d]
    BY <1>1, SoFarType DEF SoFar, LoopInv
  <2> QED
    BY <2>1 DEF SoFar
<1>4. Visited' = Visited \union {c} /\ c \notin Visited
  BY <1>1 DEF Visited
<1>5. CurrentKept' /\ KeysKept' /\ ConflictsKept'
  BY <1>1, <1>3, <1>4 DEF LoopInv, CurrentKept, KeysKept, ConflictsKept
<1>6. EntriesKept'
  <2>1. PICK order \in VisitOrders : \A g \in DOMAIN merged : IsEntry(order, g)
    BY DEF LoopInv, EntriesKept
  <2>2. PICK n \in Nat : n = Cardinality(Visited) /\ Cardinality(Visited') = n + 1
    <3>1. IsFiniteSet(Visited)
      BY ClustersFinite, FS_Subset DEF Visited
    <3> QED
      BY <1>4, <3>1, FS_CardinalityType, FS_AddElement
  <2>3. /\ order \in [Visited -> 1 .. n]
        /\ \A a, b \in Visited : order[a] = order[b] => a = b
    BY <2>2 DEF VisitOrders, Injection, IsInjective
  <2>4. PICK longer : longer = [d \in Visited \union {c} |-> IF d = c THEN n + 1 ELSE order[d]]
    OBVIOUS
  <2>5. /\ longer \in [Visited' -> 1 .. n + 1]
        /\ \A a, b \in Visited' : longer[a] = longer[b] => a = b
        /\ \A d \in Visited' : longer[d] <= longer[c]
        /\ \A d \in Visited : longer[d] = order[d]
    BY <1>4, <2>3, <2>4
  <2>6. longer \in VisitOrders'
    BY <1>1, <2>2, <2>5 DEF VisitOrders, Injection, IsInjective
  <2>7. ASSUME NEW g \in DOMAIN merged
        PROVE  IsEntry(longer, g)'
    <3>1. PICK d \in Visited : \E r \in SoFar[d] :
              r.gvr = g /\ Leads(SoFar, order, g, d) /\ merged[g] = Merged(SoFar, r)
      BY <2>1 DEF IsEntry
    <3>2. ServersOf(SoFar, g) \subseteq Visited
      BY DEF ServersOf, SoFar, Visited
    <3>3. Leads(SoFar, longer, g, d)
      BY <2>5, <3>1, <3>2 DEF Leads
    <3> QED
      BY <1>1, <1>3, <1>4, <3>1, <3>3 DEF IsEntry
  <2> QED
    BY <1>1, <2>6, <2>7 DEF EntriesKept
<1> QED
  BY <1>2, <1>5, <1>6 DEF LoopInv

\* A resource whose GVR is met for the first time.
LEMMA AddNewStep ==
    ASSUME LoopInv, NEW r \in remaining, AddNew(r)
    PROVE  LoopInv'
<1>1. /\ ~failed /\ r.gvr \notin DOMAIN merged /\ remaining' = remaining \ {r}
      /\ UNCHANGED <<byCluster, unvisited, cluster, failed>>
  BY DEF AddNew
<1>2. /\ DOMAIN merged' = DOMAIN merged \union {r.gvr}
      /\ merged'[r.gvr] = First(r, cluster)
      /\ \A g \in DOMAIN merged : merged'[g] = merged[g]
  BY <1>1 DEF AddNew
<1>3. /\ cluster \in Visited /\ cluster \in Clusters
      /\ r \in ServedResource /\ r.gvr \in GVR
      /\ VisitOrders' = VisitOrders /\ Visited' = Visited
      /\ CurrentKept'
      /\ Grown(SoFar, SoFar', cluster, r)
  BY <1>1, MetStep DEF ServedResource
<1>4. /\ r \in SoFar'[cluster]
      /\ \A c \in Clusters : SoFar[c] \subseteq SoFar'[c]
      /\ \A c \in Clusters : \A s \in SoFar'[c] : s \in SoFar[c] \/ (c = cluster /\ s = r)
  BY <1>1, MetStep
<1>5. ServersOf(SoFar, r.gvr) = {} /\ \A c \in Clusters : \A s \in SoFar[c] : s.gvr # r.gvr
  BY <1>1, <1>3 DEF LoopInv, KeysKept, ServersOf
<1>6. /\ \A g : g # r.gvr => ServersOf(SoFar', g) = ServersOf(SoFar, g)
      /\ ServersOf(SoFar', r.gvr) = ServersOf(SoFar, r.gvr) \union {cluster}
      /\ \A s : s.gvr # r.gvr => Merged(SoFar', s) = Merged(SoFar, s)
  BY <1>3, Zenon DEF Grown
<1>7. ServersOf(SoFar', r.gvr) = {cluster}
  BY <1>5, <1>6
<1>8. Merged(SoFar', r) = First(r, cluster)
  <2>1. (\E c \in Clusters : \E s \in SoFar'[c] : s.gvr = r.gvr /\ s.status) <=> r.status
    BY <1>3, <1>4, <1>5
  <2>2. r.status \in BOOLEAN
    BY <1>3 DEF ServedResource
  <2>3. (\E c \in Clusters : \E s \in SoFar'[c] : s.gvr = r.gvr /\ s.status) = r.status
    BY <2>1, <2>2
  <2> QED
    BY <1>7, <2>3 DEF Merged, First
<1>9. UnionTypeOK'
  <2>1. First(r, cluster) \in MergedResource
    BY <1>3 DEF First, MergedResource, ServedResource
  <2> QED
    BY <1>1, <1>2, <1>3, <2>1 DEF LoopInv, UnionTypeOK
<1>10. KeysKept'
  BY <1>2, <1>6, <1>7 DEF LoopInv, KeysKept
<1>11. EntriesKept'
  <2>1. PICK order \in VisitOrders : \A g \in DOMAIN merged : IsEntry(order, g)
    BY DEF LoopInv, EntriesKept
  <2>2. IsEntry(order, r.gvr)'
    <3>1. Leads(SoFar', order, r.gvr, cluster)
      <4>1. order[cluster] \in Nat
        BY <1>3, OrderType
      <4> QED
        BY <1>7, <4>1 DEF Leads
    <3> QED
      BY <1>2, <1>3, <1>4, <1>8, <3>1 DEF IsEntry
  <2>3. ASSUME NEW g \in DOMAIN merged
        PROVE  IsEntry(order, g)'
    <3>1. PICK d \in Visited : \E s \in SoFar[d] :
              s.gvr = g /\ Leads(SoFar, order, g, d) /\ merged[g] = Merged(SoFar, s)
      BY <2>1 DEF IsEntry
    <3>2. PICK s \in SoFar[d] :
              s.gvr = g /\ Leads(SoFar, order, g, d) /\ merged[g] = Merged(SoFar, s)
      BY <3>1
    <3>3. g # r.gvr /\ d \in Clusters
      BY <1>1 DEF Visited
    <3>4. Leads(SoFar', order, g, d)
      BY <1>6, <3>2, <3>3 DEF Leads
    <3>5. merged'[g] = Merged(SoFar', s) /\ s \in SoFar'[d]
      BY <1>2, <1>4, <1>6, <3>2, <3>3
    <3> QED
      BY <1>3, <3>2, <3>4, <3>5 DEF IsEntry
  <2> QED
    BY <1>2, <1>3, <2>2, <2>3 DEF EntriesKept
<1>12. ConflictsKept'
  <2>1. ~UnionConflict(SoFar)
    BY <1>1 DEF LoopInv, ConflictsKept
  <2>2. ~UnionConflict(SoFar')
    BY <1>4, <1>5, <2>1 DEF UnionConflict
  <2> QED
    BY <1>1, <2>2 DEF ConflictsKept
<1> QED
  BY <1>3, <1>9, <1>10, <1>11, <1>12 DEF LoopInv

\* A resource that disagrees with its entry ends the loops.
LEMMA ConflictStep ==
    ASSUME LoopInv, NEW r \in remaining, Conflict(r)
    PROVE  LoopInv'
<1>1. /\ ~failed /\ failed' = TRUE /\ r.gvr \in DOMAIN merged /\ Disagrees(merged[r.gvr], r)
      /\ UNCHANGED <<byCluster, merged, unvisited, cluster, remaining>>
  BY DEF Conflict
<1>2. SoFar' = SoFar /\ Visited' = Visited /\ VisitOrders' = VisitOrders
  BY <1>1 DEF SoFar, Visited, VisitOrders
<1>3. UnionTypeOK'
  BY <1>1 DEF LoopInv, UnionTypeOK
<1>4. CurrentKept' /\ KeysKept'
  BY <1>1, <1>2 DEF LoopInv, CurrentKept, KeysKept
<1>5. EntriesKept'
  BY <1>1, <1>2 DEF LoopInv, EntriesKept, IsEntry
<1>6. UnionConflict(byCluster)
  <2>1. cluster \in Clusters /\ r \in byCluster[cluster]
    BY DEF LoopInv, CurrentKept, Visited
  <2>2. PICK c \in Clusters : \E s \in SoFar[c] :
            s.gvr = r.gvr /\ merged[r.gvr] = Merged(SoFar, s)
    BY <1>1 DEF LoopInv, EntriesKept, IsEntry, Visited
  <2>3. PICK s \in SoFar[c] : s.gvr = r.gvr /\ merged[r.gvr] = Merged(SoFar, s)
    BY <2>2
  <2>4. s \in byCluster[c]
    BY SoFarType DEF LoopInv
  <2>5. s.kind # r.kind \/ s.namespaced # r.namespaced
    BY <1>1, <2>3 DEF Disagrees, Merged
  <2> QED
    BY <2>1, <2>3, <2>4, <2>5 DEF UnionConflict
<1>7. ConflictsKept'
  BY <1>1, <1>6 DEF ConflictsKept
<1> QED
  BY <1>3, <1>4, <1>5, <1>7 DEF LoopInv

\* A resource that agrees with its entry extends it: the cluster that leads the GVR
\* is in front of the current one.
LEMMA ExtendStep ==
    ASSUME LoopInv, NEW r \in remaining, Extend(r)
    PROVE  LoopInv'
<1>1. /\ ~failed /\ r.gvr \in DOMAIN merged /\ remaining' = remaining \ {r}
      /\ ~Disagrees(merged[r.gvr], r)
      /\ UNCHANGED <<byCluster, unvisited, cluster, failed>>
  BY DEF Extend
<1>2. /\ DOMAIN merged' = DOMAIN merged
      /\ merged'[r.gvr] = Extended(merged[r.gvr], r, cluster)
      /\ \A g \in DOMAIN merged : g # r.gvr => merged'[g] = merged[g]
  BY <1>1 DEF Extend
<1>3. /\ cluster \in Visited /\ cluster \in Clusters
      /\ r \in ServedResource /\ r.gvr \in GVR
      /\ VisitOrders' = VisitOrders /\ Visited' = Visited
      /\ CurrentKept'
      /\ Grown(SoFar, SoFar', cluster, r)
  BY <1>1, MetStep DEF ServedResource
<1>4. /\ r \in SoFar'[cluster]
      /\ \A c \in Clusters : SoFar[c] \subseteq SoFar'[c]
      /\ \A c \in Clusters : \A s \in SoFar'[c] : s \in SoFar[c] \/ (c = cluster /\ s = r)
  BY <1>1, MetStep
<1>5. /\ \A g : g # r.gvr => ServersOf(SoFar', g) = ServersOf(SoFar, g)
      /\ ServersOf(SoFar', r.gvr) = ServersOf(SoFar, r.gvr) \union {cluster}
      /\ \A s : s.gvr # r.gvr => Merged(SoFar', s) = Merged(SoFar, s)
      /\ \A s : s.gvr = r.gvr => Merged(SoFar', s) = Extended(Merged(SoFar, s), r, cluster)
  BY <1>3, Zenon DEF Grown
<1>6. UnionTypeOK'
  <2>1. merged[r.gvr] \in MergedResource
    BY <1>1 DEF LoopInv, UnionTypeOK
  <2>2. (merged[r.gvr].status \/ r.status) \in BOOLEAN
    OBVIOUS
  <2>3. merged[r.gvr].clusters \union {cluster} \in SUBSET Clusters
    BY <1>3, <2>1 DEF MergedResource
  <2>4. PICK either \in BOOLEAN : either = (merged[r.gvr].status \/ r.status)
    BY <2>2
  <2>5. merged'[r.gvr] = [merged[r.gvr] EXCEPT !.status = either,
                                                !.clusters = @ \union {cluster}]
    BY <1>2, <2>4, Zenon DEF Extended
  <2>6. merged'[r.gvr] \in MergedResource
    BY <2>1, <2>3, <2>5 DEF MergedResource
  <2> QED
    BY <1>1, <1>2, <2>6 DEF LoopInv, UnionTypeOK
<1>7. KeysKept'
  BY <1>1, <1>2, <1>5 DEF LoopInv, KeysKept
<1>8. PICK order \in VisitOrders : \A g \in DOMAIN merged : IsEntry(order, g)
  BY DEF LoopInv, EntriesKept
<1>9. EntriesKept'
  <2>1. ASSUME NEW g \in DOMAIN merged
        PROVE  IsEntry(order, g)'
    <3>1. PICK d \in Visited : \E s \in SoFar[d] :
              s.gvr = g /\ Leads(SoFar, order, g, d) /\ merged[g] = Merged(SoFar, s)
      BY <1>8 DEF IsEntry
    <3>2. PICK s \in SoFar[d] :
              s.gvr = g /\ Leads(SoFar, order, g, d) /\ merged[g] = Merged(SoFar, s)
      BY <3>1
    <3>3. d \in Clusters /\ s \in SoFar'[d]
      BY <1>4 DEF Visited
    <3>4. merged'[g] = Merged(SoFar', s)
      BY <1>2, <1>5, <3>2
    <3>5. Leads(SoFar', order, g, d)
      <4>1. order[d] <= order[cluster]
        BY <1>3 DEF VisitOrders
      <4> QED
        BY <1>5, <3>2, <4>1 DEF Leads
    <3> QED
      BY <1>3, <3>2, <3>3, <3>4, <3>5 DEF IsEntry
  <2> QED
    BY <1>2, <1>3, <2>1 DEF EntriesKept
<1>10. ConflictsKept'
  <2>1. ~UnionConflict(SoFar)
    BY <1>1 DEF LoopInv, ConflictsKept
  <2>2. PICK d \in Clusters : \E q \in SoFar[d] :
            q.gvr = r.gvr /\ q.kind = r.kind /\ q.namespaced = r.namespaced
    BY <1>1, <1>8 DEF IsEntry, Visited, Disagrees, Merged
  <2>3. \A c \in Clusters : \A s \in SoFar[c] :
            s.gvr = r.gvr => s.kind = r.kind /\ s.namespaced = r.namespaced
    BY <2>1, <2>2 DEF UnionConflict
  <2>4. ~UnionConflict(SoFar')
    BY <1>4, <2>1, <2>3 DEF UnionConflict
  <2> QED
    BY <1>1, <2>4 DEF ConflictsKept
<1> QED
  BY <1>3, <1>6, <1>7, <1>9, <1>10 DEF LoopInv
-----------------------------------------------------------------------------
(* The result of the loops *)

\* When the loops end without an error they have met all of the argument.
LEMMA AllMet ==
    ASSUME LoopInv, Returned, ~failed
    PROVE  SoFar = byCluster /\ Visited = Clusters
<1>1. unvisited = {} /\ remaining = {}
  BY DEF Returned
<1>2. byCluster \in [Clusters -> SUBSET ServedResource]
  BY SoFarType DEF LoopInv
<1>3. \A c \in Clusters : SoFar[c] = byCluster[c]
  BY <1>1, <1>2 DEF SoFar
<1>4. SoFar \in [Clusters -> SUBSET ServedResource]
  BY SoFarType DEF LoopInv
<1> QED
  BY <1>1, <1>2, <1>3, <1>4 DEF Visited

\* The order of the visits is one that Discovery!Union knows, and a cluster that leads
\* a GVR in it leads it alone.
LEMMA LoopResult ==
    ASSUME LoopInv
    PROVE  LoopComputesUnion
<1> SUFFICES ASSUME Returned, ~failed
             PROVE  /\ ~UnionConflict(byCluster)
                    /\ \E order \in IterationOrders : Range(merged) = Union(byCluster, order)
  BY DEF LoopComputesUnion, LoopInv, ConflictsKept, UnionTypeOK
<1>1. SoFar = byCluster /\ Visited = Clusters
  BY AllMet
<1>2. byCluster \in [Clusters -> SUBSET ServedResource] /\ byCluster \in [Clusters -> Inputs]
  BY SoFarType DEF LoopInv, UnionTypeOK
<1>3. ~UnionConflict(byCluster)
  BY <1>1 DEF LoopInv, ConflictsKept
<1>4. PICK order \in VisitOrders : \A g \in DOMAIN merged : IsEntry(order, g)
  BY DEF LoopInv, EntriesKept
<1>5. /\ order \in IterationOrders
      /\ \A c, d \in Clusters : order[c] = order[d] => c = d
  BY <1>1 DEF VisitOrders, IterationOrders, Injection, IsInjective
<1>6. order \in [Clusters -> Nat]
  BY <1>1, OrderType
<1>7. ASSUME NEW g \in DOMAIN merged
      PROVE  merged[g] \in Union(byCluster, order)
  BY <1>1, <1>4 DEF IsEntry, Union
<1>8. ASSUME NEW m \in Union(byCluster, order)
      PROVE  m \in Range(merged)
  <2>1. PICK c \in Clusters : \E r \in byCluster[c] :
            Leads(byCluster, order, r.gvr, c) /\ m = Merged(byCluster, r)
    BY DEF Union
  <2>2. PICK r \in byCluster[c] :
            Leads(byCluster, order, r.gvr, c) /\ m = Merged(byCluster, r)
    BY <2>1
  <2>3. r.gvr \in GVR /\ c \in ServersOf(byCluster, r.gvr)
    BY <1>2 DEF ServedResource, ServersOf
  <2>4. r.gvr \in DOMAIN merged
    BY <1>1, <2>3 DEF LoopInv, KeysKept
  <2>5. PICK d \in Clusters : \E s \in byCluster[d] :
            /\ s.gvr = r.gvr /\ Leads(byCluster, order, r.gvr, d)
            /\ merged[r.gvr] = Merged(byCluster, s)
    BY <1>1, <1>4, <2>4 DEF IsEntry
  <2>6. PICK s \in byCluster[d] :
            /\ s.gvr = r.gvr /\ Leads(byCluster, order, r.gvr, d)
            /\ merged[r.gvr] = Merged(byCluster, s)
    BY <2>5
  <2>7. d \in ServersOf(byCluster, r.gvr)
    BY <2>6 DEF ServersOf
  <2>8. order[c] <= order[d] /\ order[d] <= order[c]
    BY <2>2, <2>3, <2>6, <2>7 DEF Leads
  <2>9. c = d
    BY <1>5, <1>6, <2>8
  <2>10. r = s
    BY <1>2, <2>6, <2>9, InputsAssumption
  <2> QED
    BY <2>2, <2>4, <2>6, <2>10 DEF Range
<1>9. Range(merged) = Union(byCluster, order)
  BY <1>7, <1>8 DEF Range
<1> QED
  BY <1>3, <1>5, <1>9

\* The entry of merged for what a cluster serves: it has its key, and the status
\* subresource when the cluster's resource has one.
LEMMA ServedHasEntry ==
    ASSUME LoopInv, Returned, ~failed, NEW c \in Clusters, NEW r \in byCluster[c]
    PROVE  /\ r.gvr \in DOMAIN merged
           /\ merged[r.gvr].gvr = r.gvr
           /\ r.status => merged[r.gvr].status
<1>1. SoFar = byCluster /\ Visited = Clusters
  BY AllMet
<1>2. r.gvr \in GVR /\ c \in ServersOf(byCluster, r.gvr)
  BY SoFarType DEF LoopInv, ServedResource, ServersOf
<1>3. r.gvr \in DOMAIN merged
  BY <1>1, <1>2 DEF LoopInv, KeysKept
<1>4. PICK s : s.gvr = r.gvr /\ merged[r.gvr] = Merged(byCluster, s)
  BY <1>1, <1>3 DEF LoopInv, EntriesKept, IsEntry
<1> QED
  BY <1>3, <1>4 DEF Merged

\* Conversely an entry is there because a cluster serves it.
LEMMA EntryIsServed ==
    ASSUME LoopInv, NEW g \in DOMAIN merged
    PROVE  merged[g].gvr = g /\ \E c \in Clusters : \E r \in byCluster[c] : r.gvr = g
<1>1. PICK c \in Clusters : \E s \in SoFar[c] : s.gvr = g /\ merged[g] = Merged(SoFar, s)
  BY DEF LoopInv, EntriesKept, IsEntry, Visited
<1> QED
  BY <1>1, SoFarType DEF LoopInv, Merged

-----------------------------------------------------------------------------
(* The steps of the installation *)

\* The endpoints of a group version are those of its resources.
LEMMA StorageMapType ==
    ASSUME LoopInv, NEW gv, NEW e \in StorageMap(gv)
    PROVE  e \in Endpoint /\ e.gvr \in DOMAIN merged
<1>1. PICK r \in Storages : \E sub \in {"", "status"} : e = [gvr |-> r.gvr, sub |-> sub]
  BY DEF StorageMap
<1>2. PICK g \in DOMAIN merged : r = merged[g]
  BY DEF Storages, Range
<1>3. r.gvr = g /\ g \in GVR
  BY <1>2, EntryIsServed DEF LoopInv, UnionTypeOK
<1>4. PICK sub \in {"", "status"} : e = [gvr |-> g, sub |-> sub]
  BY <1>1, <1>3
<1> QED
  BY <1>3, <1>4 DEF Endpoint

\* A resource has its endpoint, and one for its status subresource where it has that.
LEMMA StorageMapHas ==
    ASSUME NEW m \in Storages
    PROVE  /\ [gvr |-> m.gvr, sub |-> ""] \in StorageMap(GVOf(m.gvr))
           /\ m.status => [gvr |-> m.gvr, sub |-> "status"] \in StorageMap(GVOf(m.gvr))
<1> DEFINE Of(r) == {[gvr |-> r.gvr, sub |-> sub] :
                        sub \in IF r.status THEN {"", "status"} ELSE {""}}
<1>1. Of(m) \subseteq StorageMap(GVOf(m.gvr))
  BY DEF StorageMap
<1>2. [gvr |-> m.gvr, sub |-> ""] \in Of(m)
  OBVIOUS
<1>3. m.status => [gvr |-> m.gvr, sub |-> "status"] \in Of(m)
  OBVIOUS
<1> QED
  BY <1>1, <1>2, <1>3

\* A group version of the plan is that of a resource which a cluster serves.
LEMMA PlannedIsServed ==
    ASSUME LoopInv, NEW gv \in Planned
    PROVE  /\ gv \in GroupVersion
           /\ \E i \in Inputs : \E r \in i : gv = GVOf(r.gvr)
<1>1. PICK g \in DOMAIN merged : gv = GVOf(merged[g].gvr)
  BY DEF Planned, Storages, Range
<1>2. PICK c \in Clusters : \E r \in byCluster[c] : r.gvr = g /\ merged[g].gvr = g
  BY EntryIsServed
<1>3. byCluster[c] \in Inputs /\ g \in GVR
  BY DEF LoopInv, UnionTypeOK
<1> QED
  BY <1>1, <1>2, <1>3 DEF GVOf, GVR, GroupVersion

\* rebuild starts with the merge and an empty inner server.
LEMMA InitIInv ==
    ASSUME Init
    PROVE  IInv
<1>1. LoopInv
  BY LoopInit
<1>2. /\ pending = {} /\ endpoints = {} /\ aggregated = {} /\ roots = {}
      /\ groups = [g \in Groups |-> Malformed] /\ outcome = "merging"
  BY DEF Init
<1>3. TypeOK
  BY <1>1, <1>2 DEF TypeOK, LoopInv
<1>4. InstallKept
  BY <1>2 DEF InstallKept
<1> QED
  BY <1>1, <1>3, <1>4 DEF IInv

\* Nothing is installed while the loops run.
LEMMA MergeStep ==
    ASSUME IInv, Merge
    PROVE  IInv'
<1>1. outcome = "merging" /\ UnionNext /\ UNCHANGED installVars
  BY DEF Merge
<1>2. LoopInv'
  BY <1>1, NextClusterStep, AddNewStep, ConflictStep, ExtendStep DEF UnionNext, IInv
<1>3. /\ UNCHANGED <<pending, endpoints, groups, aggregated, roots, outcome>>
      /\ pending = {} /\ endpoints = {} /\ aggregated = {} /\ outcome = "merging"
  BY <1>1 DEF installVars, IInv, InstallKept
<1>4. TypeOK'
  BY <1>2, <1>3 DEF IInv, TypeOK, LoopInv
<1>5. InstallKept'
  BY <1>3 DEF IInv, InstallKept
<1> QED
  BY <1>2, <1>4, <1>5 DEF IInv

\* The loops are over: merged and all that is said of it stay.
LEMMA LoopStays ==
    ASSUME LoopInv, UNCHANGED unionVars
    PROVE  /\ LoopInv'
           /\ Storages' = Storages /\ Planned' = Planned
           /\ Returned' = Returned /\ merged' = merged /\ failed' = failed
           /\ \A gv : StorageMap(gv)' = StorageMap(gv)
<1>1. UNCHANGED <<byCluster, merged, unvisited, cluster, remaining, failed>>
  BY DEF unionVars
<1>2. Storages' = Storages /\ Planned' = Planned /\ Returned' = Returned
  BY <1>1 DEF Storages, Planned, Returned
<1>3. \A gv : StorageMap(gv)' = StorageMap(gv)
  BY <1>2 DEF StorageMap
<1>4. SoFar' = SoFar /\ Visited' = Visited /\ VisitOrders' = VisitOrders
  BY <1>1 DEF SoFar, Visited, VisitOrders
<1>5. UnionTypeOK' /\ CurrentKept'
  BY <1>1, <1>4 DEF LoopInv, UnionTypeOK, CurrentKept
<1>6. KeysKept' /\ ConflictsKept'
  BY <1>1, <1>4 DEF LoopInv, KeysKept, ConflictsKept
<1>7. EntriesKept'
  BY <1>1, <1>4 DEF LoopInv, EntriesKept, IsEntry
<1> QED
  BY <1>1, <1>2, <1>3, <1>5, <1>6, <1>7 DEF LoopInv

\* installResources up to its loop.
LEMMA BuildStep ==
    ASSUME IInv, NothingToInstall \/ Refuse \/ BuildStorages
    PROVE  IInv'
<1>1. /\ outcome = "merging" /\ Returned
      /\ UNCHANGED <<unionVars, endpoints, groups, aggregated, roots>>
      /\ pending = {} /\ endpoints = {} /\ aggregated = {}
      /\ LoopInv
  BY DEF NothingToInstall, Refuse, BuildStorages, IInv, InstallKept
<1>2. /\ LoopInv' /\ Storages' = Storages /\ Planned' = Planned
      /\ Returned' = Returned /\ merged' = merged /\ failed' = failed
      /\ \A gv : StorageMap(gv)' = StorageMap(gv)
  BY <1>1, LoopStays
<1>3. CASE NothingToInstall
  <2>1. /\ ~failed /\ Planned = {} /\ outcome' = "ok" /\ pending' = pending
    BY <1>3 DEF NothingToInstall, Planned
  <2>2. TypeOK'
    BY <1>1, <1>2, <2>1 DEF IInv, TypeOK, LoopInv
  <2>3. InstallKept'
    BY <1>1, <1>2, <2>1 DEF IInv, InstallKept
  <2> QED
    BY <1>2, <2>2, <2>3 DEF IInv
<1>4. CASE Refuse
  <2>1. outcome' = "error" /\ pending' = pending
    BY <1>4 DEF Refuse
  <2>2. TypeOK'
    BY <1>1, <1>2, <2>1 DEF IInv, TypeOK, LoopInv
  <2>3. InstallKept'
    BY <1>1, <1>2, <2>1 DEF IInv, InstallKept
  <2> QED
    BY <1>2, <2>2, <2>3 DEF IInv
<1>5. CASE BuildStorages
  <2>1. ~failed /\ outcome' = "installing" /\ pending' = Planned
    BY <1>5 DEF BuildStorages, Planned
  <2>2. TypeOK'
    BY <1>1, <1>2, <2>1, PlannedIsServed DEF IInv, TypeOK, LoopInv
  <2>3. InstallKept'
    BY <1>1, <1>2, <2>1 DEF IInv, InstallKept
  <2> QED
    BY <1>2, <2>2, <2>3 DEF IInv
<1> QED
  BY <1>3, <1>4, <1>5

\* installGroupVersion.
LEMMA InstallStep ==
    ASSUME IInv, NEW gv \in GroupVersion, InstallGroupVersion(gv)
    PROVE  IInv'
<1>1. /\ outcome = "installing" /\ gv \in pending
      /\ endpoints' = endpoints \union StorageMap(gv)
      /\ aggregated' = aggregated \union {gv}
      /\ groups' = Listed(gv)
      /\ roots' = roots \union {gv.group}
      /\ pending' = pending \ {gv}
      /\ outcome' = IF gv.group \in roots THEN "exit"
                    ELSE IF pending' = {} THEN "ok" ELSE "installing"
      /\ UNCHANGED unionVars
  BY DEF InstallGroupVersion
<1>2. LoopInv
  BY DEF IInv
<1>3. /\ LoopInv' /\ Storages' = Storages /\ Planned' = Planned
      /\ Returned' = Returned /\ merged' = merged /\ failed' = failed
      /\ \A v : StorageMap(v)' = StorageMap(v)
  BY <1>1, <1>2, LoopStays
<1>4. gv.group \in Groups /\ gv.version \in Versions
  BY DEF GroupVersion
<1>5. TypeOK'
  <2>1. groups' \in [Groups -> Versions \union {Malformed}]
    BY <1>1, <1>4 DEF Listed, IInv, TypeOK
  <2>2. endpoints' \subseteq Endpoint /\ {e.gvr : e \in endpoints'} \subseteq DOMAIN merged'
    BY <1>1, <1>2, <1>3, StorageMapType DEF IInv, TypeOK
  <2>3. outcome' \in {"installing", "ok", "exit"}
    BY <1>1
  <2>4. pending' \subseteq GroupVersion /\ aggregated' \subseteq GroupVersion
        /\ roots' \subseteq Groups
    BY <1>1, <1>4 DEF IInv, TypeOK
  <2> QED
    BY <1>3, <2>1, <2>2, <2>3, <2>4 DEF TypeOK, LoopInv
<1>6. InstallKept'
  <2>1. /\ outcome' \in {"installing", "ok", "exit"} /\ (outcome' = "ok" => pending' = {})
        /\ Returned' /\ ~failed'
    BY <1>1, <1>3 DEF IInv, InstallKept
  <2>2. pending' \union aggregated' = Planned' /\ pending' \intersect aggregated' = {}
    BY <1>1, <1>3 DEF IInv, InstallKept
  <2>3. roots' = {v.group : v \in aggregated'}
    BY <1>1 DEF IInv, InstallKept
  <2>4. \A v \in aggregated' : StorageMap(v)' \subseteq endpoints'
    BY <1>1, <1>3 DEF IInv, InstallKept
  <2> QED
    BY <2>1, <2>2, <2>3, <2>4 DEF InstallKept
<1> QED
  BY <1>3, <1>5, <1>6 DEF IInv

\* Every step of rebuild keeps the invariant.
LEMMA NextStep ==
    ASSUME IInv, [Next]_vars
    PROVE  IInv'
<1>1. CASE UNCHANGED vars
  <2>1. UNCHANGED unionVars /\ UNCHANGED <<pending, endpoints, groups, aggregated, roots, outcome>>
    BY <1>1 DEF vars, installVars
  <2>2. /\ LoopInv' /\ Planned' = Planned /\ Returned' = Returned /\ merged' = merged
        /\ failed' = failed /\ \A v : StorageMap(v)' = StorageMap(v)
    BY <2>1, LoopStays DEF IInv
  <2>3. TypeOK'
    BY <2>1, <2>2 DEF IInv, TypeOK, LoopInv
  <2>4. InstallKept'
    BY <2>1, <2>2 DEF IInv, InstallKept
  <2> QED
    BY <2>2, <2>3, <2>4 DEF IInv
<1> QED
  BY <1>1, MergeStep, BuildStep, InstallStep DEF Next, Ended

-----------------------------------------------------------------------------
(* Theorems *)

\* The invariant of rebuild: the merge of what was met, then the installation of it.
THEOREM Invariance == Spec => []IInv
<1>1. IInv /\ [Next]_vars => IInv'
  BY NextStep
<1> QED
  BY InitIInv, <1>1, PTL DEF Spec

\* The state of Union, installResources and installGroupVersion keeps its types, and
\* an endpoint is that of a resource of the merge.
THEOREM TypeCorrect == Spec => []TypeOK
<1>1. IInv => TypeOK
  BY DEF IInv
<1> QED
  BY <1>1, Invariance, PTL

\* In whatever order Go iterates the map and each slice, the nested loops of Union
\* return an error exactly for a conflict, and otherwise the merge that Discovery!Union
\* defines: the one-step view of Union that Server takes is right.
THEOREM LoopsCompute == Spec => []LoopComputesUnion
<1>1. IInv => LoopComputesUnion
  BY LoopResult DEF IInv
<1> QED
  BY <1>1, Invariance, PTL

\* Where no group comes in two versions, all that the clusters report is served under
\* its endpoints and listed by both forms of discovery, in whatever order installResources
\* visits the group versions, and the process goes on.
THEOREM AllServed ==
    ASSUME OneVersionPerGroup
    PROVE  Spec => []DiscoveredIsServed
<1>1. Init => VersionsKept
  BY DEF Init, VersionsKept
<1>2. ASSUME IInv, VersionsKept, [Next]_vars
      PROVE  VersionsKept'
  <2>1. CASE UNCHANGED vars
    BY <1>2, <2>1 DEF vars, installVars, VersionsKept
  <2>2. CASE Merge
    BY <1>2, <2>2 DEF Merge, installVars, VersionsKept
  <2>3. CASE NothingToInstall \/ Refuse \/ BuildStorages
    BY <1>2, <2>3 DEF NothingToInstall, Refuse, BuildStorages, VersionsKept
  <2>4. ASSUME NEW gv \in GroupVersion, InstallGroupVersion(gv)
        PROVE  VersionsKept'
    <3>1. /\ gv \in pending /\ aggregated' = aggregated \union {gv} /\ groups' = Listed(gv)
          /\ outcome' = IF gv.group \in roots THEN "exit"
                        ELSE IF pending' = {} THEN "ok" ELSE "installing"
          /\ gv \in Planned /\ aggregated \subseteq Planned
          /\ gv \notin aggregated /\ roots = {v.group : v \in aggregated}
          /\ LoopInv
      BY <1>2, <2>4 DEF InstallGroupVersion, IInv, InstallKept
    <3>2. ASSUME NEW v \in aggregated
          PROVE  v.group # gv.group /\ v \in GroupVersion
      <4>1. /\ v \in GroupVersion
            /\ \E i \in Inputs : \E r \in i : v = GVOf(r.gvr)
        BY <3>1, PlannedIsServed
      <4>2. \E i \in Inputs : \E r \in i : gv = GVOf(r.gvr)
        BY <3>1, PlannedIsServed
      <4>3. v.group = gv.group => v.version = gv.version
        BY <4>1, <4>2 DEF OneVersionPerGroup, GVOf
      <4>4. v # gv
        BY <3>1
      <4> QED
        BY <4>1, <4>3, <4>4 DEF GroupVersion
    <3>3. outcome' # "exit"
      BY <3>1, <3>2
    <3>4. groups \in [Groups -> Versions \union {Malformed}] /\ gv.group \in Groups
      BY <1>2 DEF IInv, TypeOK, GroupVersion
    <3>5. ASSUME NEW v \in aggregated', v.group # Legacy
          PROVE  groups'[v.group] = v.version
      <4>1. CASE v = gv
        BY <3>1, <3>4, <3>5, <4>1 DEF Listed
      <4>2. CASE v \in aggregated
        <5>1. groups[v.group] = v.version /\ v.group # gv.group /\ v.group \in Groups
          BY <1>2, <3>2, <3>5, <4>2 DEF VersionsKept, GroupVersion
        <5> QED
          BY <3>1, <3>4, <5>1 DEF Listed
      <4> QED
        BY <3>1, <4>1, <4>2
    <3> QED
      BY <3>3, <3>5 DEF VersionsKept
  <2>5. CASE Ended
    BY <1>2, <2>5 DEF Ended, vars, installVars, VersionsKept
  <2> QED
    BY <1>2, <2>1, <2>2, <2>3, <2>4, <2>5 DEF Next
<1>3. ASSUME IInv, VersionsKept
      PROVE  DiscoveredIsServed
  <2> SUFFICES ASSUME outcome = "ok", NEW c \in Clusters, NEW r \in byCluster[c]
               PROVE  /\ [gvr |-> r.gvr, sub |-> ""] \in endpoints
                      /\ r.status => [gvr |-> r.gvr, sub |-> "status"] \in endpoints
                      /\ GVOf(r.gvr) \in aggregated
                      /\ r.gvr.group # Legacy => groups[r.gvr.group] = r.gvr.version
    BY <1>3 DEF DiscoveredIsServed, VersionsKept
  <2>1. /\ Returned /\ ~failed /\ aggregated = Planned /\ LoopInv
        /\ \A gv \in aggregated : StorageMap(gv) \subseteq endpoints
    BY <1>3 DEF IInv, InstallKept
  <2>2. PICK m \in Storages : m.gvr = r.gvr /\ (r.status => m.status)
    BY <2>1, ServedHasEntry DEF Storages, Range
  <2>3. GVOf(r.gvr) \in aggregated
    BY <2>1, <2>2 DEF Planned
  <2>4. [gvr |-> r.gvr, sub |-> ""] \in StorageMap(GVOf(r.gvr))
    BY <2>2, StorageMapHas
  <2>5. r.status => [gvr |-> r.gvr, sub |-> "status"] \in StorageMap(GVOf(r.gvr))
    BY <2>2, StorageMapHas
  <2>6. r.gvr.group # Legacy => groups[r.gvr.group] = r.gvr.version
    BY <1>3, <2>3 DEF VersionsKept, GVOf
  <2> QED
    BY <2>1, <2>3, <2>4, <2>5, <2>6
<1> QED
  BY <1>1, <1>2, <1>3, Invariance, PTL DEF Spec
=============================================================================
