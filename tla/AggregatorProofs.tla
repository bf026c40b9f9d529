--------------------------- MODULE AggregatorProofs ---------------------------
(***************************************************************************)
(* Theorems about Aggregator, for every set of clusters, every set of      *)
(* specs, clients, selectors and documents, and any number of events and   *)
(* faults: the types, that a pass about to report Ready has earned it, and *)
(* that the composed process uses the API server as ServedSet says.        *)
(*                                                                         *)
(* ReadyIsEarned speaks of the end of a pass.  The invariant carries it    *)
(* there through the loop over the entries (EntriesKept), the wait for the *)
(* server inside one entry (PublishKept), and the removal after the loop   *)
(* (RemovalKept), while the resync loop changes members in between and     *)
(* discovery, Secrets and the object change under the pass.                *)
(***************************************************************************)
EXTENDS Aggregator, TLAPS

\* The server's part of the state keeps its type.
ServerTypeOK ==
    /\ members \in [Clusters -> Member \union {NoMember}]
    /\ call \in Call \union {NoCall}
    /\ docs \in [Clusters -> Docs]

\* The cluster is registered with the selectors of an entry of spec.
RegisteredAsIn(spec, c) ==
    /\ members[c] # NoMember
    /\ \E i \in DOMAIN spec : spec[i] = [name |-> c, apis |-> members[c].selectors]

\* As long as nothing failed, the cluster of every entry that the loop has passed is
\* registered; where a name is repeated a later entry may have replaced the selectors.
EntriesKept ==
    pass # Idle /\ pass.failed = {} =>
        \A j \in DOMAIN pass.api.spec :
            j < pass.next => RegisteredAsIn(pass.api.spec, pass.api.spec[j].name)

\* The loop counts its entries from 1.
IndexKept == pass # Idle => pass.next >= 1

\* The SetCluster that waits for the server is that of the current entry.
PublishKept ==
    At("publish") =>
        /\ pass.next \in DOMAIN pass.api.spec
        /\ call.name = Entry.name
        /\ call.member.selectors = Entry.apis

\* After the loop every entry has been passed and every stale cluster is gone.
RemovalKept ==
    At("apply") \/ At("commit") =>
        /\ pass.next > Len(pass.api.spec)
        /\ Registered \subseteq SpecClusters(pass.api.spec)

IInv ==
    /\ TypeOK
    /\ ServerTypeOK
    /\ EntriesKept
    /\ IndexKept
    /\ PublishKept
    /\ RemovalKept
-----------------------------------------------------------------------------
(* Types *)

\* An entry of a spec that a pass reads (ClusterSpec, apis/v1alpha1).
LEMMA SpecType ==
    ASSUME NEW spec \in Specs
    PROVE  /\ Len(spec) \in Nat
           /\ DOMAIN spec = 1 .. Len(spec)
           /\ \A i \in DOMAIN spec : spec[i] \in [name : Clusters, apis : SelectorLists]
<1> DEFINE Entries == [name : Clusters, apis : SelectorLists]
<1>1. spec \in Seq(Entries)
  BY SpecsAssumption
<1> HIDE DEF Entries
<1>2. /\ Len(spec) \in Nat
      /\ DOMAIN spec = 1 .. Len(spec)
      /\ \A i \in DOMAIN spec : spec[i] \in Entries
  BY <1>1
<1> QED
  BY <1>2 DEF Entries

\* What a successful resolve hands to the server is typed (FromDiscovery and Filter,
\* discovery.go).
LEMMA ResolveType ==
    ASSUME docs \in [Clusters -> Docs], NEW c \in Clusters, ~Server!ResolveFails(c),
           NEW selectors
    PROVE  Server!Resolve(c, selectors) \subseteq ServedResource
<1>1. docs[c] \subseteq APIResourceList
  BY DocsAssumption
<1>2. ASSUME NEW list \in docs[c], NEW r \in list.resources
      PROVE  Server!Served(list, r) \in ServedResource
  <2>1. list.gv \in [group : Groups, version : Versions]
    BY <1>1 DEF Server!ResolveFails, Server!FromDiscoveryFails, APIResourceList
  <2>2. r \in APIResource
    BY <1>1 DEF APIResourceList
  <2> QED
    BY <2>1, <2>2 DEF Server!Served, ServedResource, APIResource, GVR
<1>3. ASSUME NEW x \in Server!Resolve(c, selectors)
      PROVE  x \in ServedResource
  <2>1. PICK list \in docs[c] :
            x \in {Server!Served(list, r) : r \in {q \in list.resources : q.sub = ""}}
    BY DEF Server!Resolve, Server!Filter, Server!FromDiscovery
  <2> QED
    BY <1>2, <2>1
<1> QED
  BY <1>3

\* The merge patch of commitStatus leaves a status, of whichever fields it takes.
LEMMA MergePatchType ==
    ASSUME NEW actual \in Status, NEW old \in Status, NEW new \in Status
    PROVE  MergePatch(actual, old, new) \in Status
<1>1. DOMAIN actual = {"condition", "url", "secret"}
  BY DEF Status
<1> DEFINE patch == MergePatch(actual, old, new)
<1>2. patch = [condition |-> patch.condition, url |-> patch.url, secret |-> patch.secret]
  BY <1>1 DEF MergePatch
<1>3. patch.condition \in Condition
  BY <1>1 DEF MergePatch, Status
<1>4. patch.url \in BOOLEAN
  BY <1>1 DEF MergePatch, Status
<1>5. patch.secret \in BOOLEAN
  BY <1>1 DEF MergePatch, Status
<1> QED
  BY <1>2, <1>3, <1>4, <1>5 DEF Status

-----------------------------------------------------------------------------
(* Steps *)

\* A step outside the pass that keeps who is registered, and with which selectors.
LEMMA OutsideStep ==
    ASSUME IInv, TypeOK', ServerTypeOK', pass' = pass, call' = call,
           \A c \in Clusters : /\ members'[c] = NoMember <=> members[c] = NoMember
                               /\ members[c] # NoMember =>
                                    members'[c].selectors = members[c].selectors
    PROVE  IInv'
<1>1. pass # Idle =>
        /\ pass.api.spec \in Specs
        /\ \A j \in DOMAIN pass.api.spec : pass.api.spec[j].name \in Clusters
  BY SpecType DEF IInv, TypeOK, Pass, AggregatedAPI
<1>2. EntriesKept'
  BY <1>1 DEF IInv, EntriesKept, RegisteredAsIn
<1>3. PublishKept' /\ IndexKept'
  BY DEF IInv, PublishKept, IndexKept, At, Entry
<1>4. RemovalKept'
  BY DEF IInv, RemovalKept, At, Registered
<1> QED
  BY <1>2, <1>3, <1>4 DEF IInv

\* After a step that ends the pass nothing is said of one.
LEMMA IdleStep ==
    ASSUME TypeOK', ServerTypeOK', pass' = Idle
    PROVE  IInv'
BY DEF IInv, EntriesKept, IndexKept, PublishKept, RemovalKept, At
\* Users, the garbage collector and the watches of the caches.
LEMMA ClusterStep ==
    ASSUME IInv,
           \/ EditSpec \/ DeleteAPI \/ CreateAPI \/ DeleteKubeconfig \/ CollectKubeconfig
           \/ SyncAPI \/ \E c \in Clusters : EditSecret(c) \/ SyncSecret(c)
    PROVE  IInv'
<1>1. UNCHANGED <<server, pass, faults>>
  BY DEF EditSpec, DeleteAPI, CreateAPI, DeleteKubeconfig, CollectKubeconfig, SyncAPI,
         EditSecret, SyncSecret
<1>2. events' \in 0 .. MaxEvents
  <2>1. Event \/ events' = events
    BY DEF EditSpec, DeleteAPI, CreateAPI, DeleteKubeconfig, CollectKubeconfig, SyncAPI,
           EditSecret, SyncSecret
  <2> QED
    BY <2>1, AggregatorBounds DEF IInv, TypeOK, Event
<1>3. api' \in AggregatedAPI \union {NoAPI}
  <2>1. CASE EditSpec
    <3>1. api \in AggregatedAPI
      BY <2>1 DEF IInv, TypeOK, EditSpec
    <3>2. PICK spec \in Specs : api' = [api EXCEPT !.spec = spec, !.generation = @ + 1]
      BY <2>1 DEF EditSpec
    <3>3. api' = [uid |-> api.uid, spec |-> spec, generation |-> api.generation + 1,
                  status |-> api.status]
      BY <3>1, <3>2 DEF AggregatedAPI
    <3> QED
      BY <3>1, <3>3 DEF AggregatedAPI
  <2>2. CASE CreateAPI
    <3>1. events + 1 \in Nat
      BY AggregatorBounds DEF IInv, TypeOK
    <3>2. NewStatus \in Status
      BY DEF NewStatus, Status, NoCondition, Condition
    <3> QED
      BY <2>2, <3>1, <3>2 DEF CreateAPI, AggregatedAPI
  <2>3. CASE DeleteAPI
    BY <2>3 DEF DeleteAPI
  <2>4. CASE api' = api
    BY <2>4 DEF IInv, TypeOK
  <2> QED
    BY <2>1, <2>2, <2>3, <2>4
    DEF DeleteKubeconfig, CollectKubeconfig, SyncAPI, EditSecret, SyncSecret, cluster
<1>4. cache' \in AggregatedAPI \union {NoAPI}
  BY DEF IInv, TypeOK, EditSpec, DeleteAPI, CreateAPI, DeleteKubeconfig, CollectKubeconfig,
         SyncAPI, EditSecret, SyncSecret, caches
<1>5. secrets' \in [Clusters -> Secret]
  BY DEF IInv, TypeOK, EditSpec, DeleteAPI, CreateAPI, DeleteKubeconfig, CollectKubeconfig,
         SyncAPI, EditSecret, SyncSecret, cluster
<1>6. secretCache' \in [Clusters -> Secret]
  BY DEF IInv, TypeOK, EditSpec, DeleteAPI, CreateAPI, DeleteKubeconfig, CollectKubeconfig,
         SyncAPI, EditSecret, SyncSecret, caches
<1>7. kubeconfig' \in Nat
  <2>1. kubeconfig' = kubeconfig \/ kubeconfig' = 0
    BY DEF EditSpec, DeleteAPI, CreateAPI, DeleteKubeconfig, CollectKubeconfig, SyncAPI,
           EditSecret, SyncSecret, cluster
  <2> QED
    BY <2>1 DEF IInv, TypeOK
<1>8. queued' \in BOOLEAN
  <2>1. queued' = queued \/ queued' = TRUE
    BY DEF IInv, TypeOK, EditSpec, DeleteAPI, CreateAPI, DeleteKubeconfig, CollectKubeconfig,
           SyncAPI, Queues, EditSecret, SyncSecret
  <2> QED
    BY <2>1 DEF IInv, TypeOK
<1>9. TypeOK'
  BY <1>1, <1>2, <1>3, <1>4, <1>5, <1>6, <1>7, <1>8 DEF IInv, TypeOK, server
<1>10. ServerTypeOK'
  BY <1>1 DEF IInv, ServerTypeOK, server
<1> QED
  BY <1>1, <1>9, <1>10, OutsideStep DEF server

\* The member clusters and the resync loop: a refresh keeps a member's client and
\* selectors, nothing else touches a member.
LEMMA ServerStep ==
    ASSUME IInv,
           Resync \/ \E c \in Clusters : DiscoveryChanges(c) \/ DiscoveryRecovers(c)
    PROVE  IInv'
<1>1. UNCHANGED <<cluster, caches, queued, pass, faults>> /\ call' = call
  BY DEF Resync, DiscoveryChanges, DiscoveryRecovers, Server!Republish, Server!Refresh,
         Server!ChangeDiscovery, Server!Fail, Server!Recover
<1>2. events' \in 0 .. MaxEvents
  <2>1. Event \/ events' = events
    BY DEF Resync, DiscoveryChanges, DiscoveryRecovers
  <2> QED
    BY <2>1, AggregatorBounds DEF IInv, TypeOK, Event
<1>3. TypeOK'
  BY <1>1, <1>2 DEF IInv, TypeOK, cluster, caches
<1>4. docs' \in [Clusters -> Docs]
  BY DEF IInv, ServerTypeOK, Resync, DiscoveryChanges, DiscoveryRecovers, Server!Republish,
         Server!Refresh, Server!ChangeDiscovery, Server!Fail, Server!Recover
<1>5. CASE members' = members
  BY <1>1, <1>3, <1>4, <1>5, OutsideStep DEF IInv, ServerTypeOK
<1>6. ASSUME NEW c \in Clusters, Server!Refresh(c)
      PROVE  IInv'
  <2>1. PICK new : new = Server!Resolve(c, members[c].selectors)
    OBVIOUS
  <2>2. new \subseteq ServedResource
    BY <1>6, <2>1, ResolveType DEF IInv, ServerTypeOK, Server!Refresh, Server!Outdated
  <2>3. members[c] \in Member
    BY <1>6 DEF IInv, ServerTypeOK, Server!Refresh, Server!Outdated
  <2>4. PICK member : member = [members[c] EXCEPT !.resources = new]
    OBVIOUS
  <2>5. member \in Member /\ member.selectors = members[c].selectors
    BY <2>2, <2>3, <2>4 DEF Member
  <2>6. members' = [members EXCEPT ![c] = member]
    BY <1>6, <2>1, <2>4 DEF Server!Refresh
  <2>7. ServerTypeOK'
    BY <1>1, <1>4, <2>5, <2>6 DEF IInv, ServerTypeOK
  <2>8. member # NoMember
    BY <2>5, NullAssumption
  <2>9. \A d \in Clusters :
            /\ members'[d] = NoMember <=> members[d] = NoMember
            /\ members[d] # NoMember => members'[d].selectors = members[d].selectors
    BY <1>6, <2>3, <2>5, <2>6, <2>8, NullAssumption DEF IInv, ServerTypeOK
  <2> QED
    BY <1>1, <1>3, <2>7, <2>9, OutsideStep
<1> QED
  BY <1>5, <1>6 DEF Resync, DiscoveryChanges, DiscoveryRecovers, Server!Republish,
                    Server!ChangeDiscovery, Server!Fail, Server!Recover
\* fetchAggregatedAPI.
LEMMA FetchStep ==
    ASSUME IInv, FetchNothing \/ Fetch
    PROVE  IInv'
<1>1. UNCHANGED <<server, cluster, caches, events, faults>> /\ queued' = FALSE /\ call = NoCall
  BY DEF FetchNothing, Fetch, IInv, TypeOK
<1>2. ServerTypeOK'
  BY <1>1 DEF IInv, ServerTypeOK, server
<1>3. CASE FetchNothing
  <2>1. pass' = pass
    BY <1>3 DEF FetchNothing
  <2>2. TypeOK'
    BY <1>1, <2>1 DEF IInv, TypeOK, server, cluster, caches
  <2> QED
    BY <1>1, <1>2, <2>1, <2>2, OutsideStep DEF server
<1>4. CASE Fetch
  <2>1. cache \in AggregatedAPI
    BY <1>4 DEF Fetch, IInv, TypeOK
  <2>2. cache.status \in Status /\ cache.spec \in Specs
    BY <2>1 DEF AggregatedAPI
  <2>3. pass' = [api |-> cache, step |-> "register", next |-> 1, failed |-> {},
                 status |-> cache.status, err |-> FALSE]
    BY <1>4 DEF Fetch
  <2>4. pass' \in Pass
    BY <2>1, <2>2, <2>3 DEF Pass
  <2>5. TypeOK'
    BY <1>1, <2>3, <2>4 DEF IInv, TypeOK, server, cluster, caches
  <2>6. EntriesKept'
    <3>1. pass'.next = 1 /\ pass'.api.spec = cache.spec
      BY <2>3
    <3>2. DOMAIN cache.spec = 1 .. Len(cache.spec) /\ Len(cache.spec) \in Nat
      BY <2>2, SpecType
    <3> QED
      BY <3>1, <3>2 DEF EntriesKept
  <2>7. IndexKept' /\ PublishKept' /\ RemovalKept'
    BY <2>3 DEF IndexKept, PublishKept, RemovalKept, At
  <2> QED
    BY <1>2, <2>5, <2>6, <2>7 DEF IInv
<1> QED
  BY <1>3, <1>4

\* The loop passes an entry: it failed before the server changed a member, or its
\* cluster has become a member with the entry's selectors, and then every other cluster
\* is registered as it was (run, controller.go).
LEMMA EntryStep ==
    ASSUME IInv, pass # Idle, pass.next \in DOMAIN pass.api.spec,
           pass.step \in {"register", "publish"},
           NEW failed \in SUBSET Clusters, EntryDone(failed),
           UNCHANGED <<cluster, caches, queued, events, faults, docs>>, call' = NoCall,
           \/ failed # {} /\ members' = members
           \/ \E m \in Member : /\ m.selectors = Entry.apis
                                /\ members' = [members EXCEPT ![Entry.name] = m]
    PROVE  IInv'
<1>1. pass \in Pass /\ pass.api.spec \in Specs /\ pass.next \in Nat
  BY DEF IInv, TypeOK, Pass, AggregatedAPI
<1>2. PICK spec \in Specs : spec = pass.api.spec
  BY <1>1
<1>3. PICK n \in Nat : n = pass.next
  BY <1>1
<1>4. /\ Len(spec) \in Nat
      /\ DOMAIN spec = 1 .. Len(spec)
      /\ \A i \in DOMAIN spec : spec[i] \in [name : Clusters, apis : SelectorLists]
  BY SpecType
<1>5. n \in DOMAIN spec /\ Entry = spec[n]
  BY <1>2, <1>3 DEF Entry
<1>6. pass' = [pass EXCEPT !.step = "register", !.next = n + 1,
                           !.failed = pass.failed \union failed]
  BY <1>3 DEF EntryDone
<1>7. pass' \in Pass
  <2>1. pass' = [api |-> pass.api, step |-> "register", next |-> n + 1,
                 failed |-> pass.failed \union failed, status |-> pass.status,
                 err |-> pass.err]
    BY <1>1, <1>6 DEF Pass
  <2>2. n + 1 \in Nat /\ pass.failed \union failed \in SUBSET Clusters
    BY <1>1 DEF Pass
  <2> QED
    BY <1>1, <2>1, <2>2 DEF Pass
<1>8. /\ pass'.api = pass.api /\ pass'.step = "register" /\ pass'.next = n + 1
      /\ pass'.failed = pass.failed \union failed
  BY <1>1, <1>6 DEF Pass
<1>9. TypeOK'
  BY <1>7, <1>8 DEF IInv, TypeOK, cluster, caches
<1>10. ServerTypeOK'
  <2>1. members' \in [Clusters -> Member \union {NoMember}]
    BY <1>4, <1>5 DEF IInv, ServerTypeOK
  <2> QED
    BY <2>1 DEF IInv, ServerTypeOK
<1>11. EntriesKept'
  <2>1. CASE failed # {}
    BY <1>8, <2>1 DEF EntriesKept
  <2>2. ASSUME failed = {}, pass.failed = {}, NEW j \in DOMAIN spec, j < n + 1
        PROVE  RegisteredAsIn(spec, spec[j].name)'
    <3>1. PICK m \in Member : /\ m.selectors = spec[n].apis
                              /\ members' = [members EXCEPT ![spec[n].name] = m]
      BY <1>5, <2>2
    <3>2. m # NoMember /\ spec[n].name \in Clusters /\ spec[j].name \in Clusters
      BY <1>4, <1>5, <2>2, NullAssumption
    <3>3. CASE spec[j].name = spec[n].name
      <4>1. members'[spec[j].name] = m
        BY <3>1, <3>2, <3>3 DEF IInv, ServerTypeOK
      <4>2. spec[n] = [name |-> spec[j].name, apis |-> m.selectors]
        BY <1>4, <1>5, <3>1, <3>3
      <4> QED
        BY <1>5, <3>2, <4>1, <4>2 DEF RegisteredAsIn
    <3>4. CASE spec[j].name # spec[n].name
      <4>1. members'[spec[j].name] = members[spec[j].name]
        BY <3>1, <3>2, <3>4 DEF IInv, ServerTypeOK
      <4>2. j < n
        BY <1>4, <2>2, <3>4
      <4>3. RegisteredAsIn(spec, spec[j].name)
        BY <1>2, <1>3, <2>2, <4>2 DEF IInv, EntriesKept
      <4> QED
        BY <4>1, <4>3 DEF RegisteredAsIn
    <3> QED
      BY <3>3, <3>4
  <2> QED
    BY <1>2, <1>8, <2>1, <2>2 DEF EntriesKept
<1>12. IndexKept' /\ PublishKept' /\ RemovalKept'
  BY <1>8 DEF IndexKept, PublishKept, RemovalKept, At
<1> QED
  BY <1>9, <1>10, <1>11, <1>12 DEF IInv

\* registerCluster.
LEMMA RegisterStep ==
    ASSUME IInv, RegisterWithoutClient \/ RegisterFails \/ RegisterResolve \/ RegisterPublish
    PROVE  IInv'
<1>1. pass \in Pass /\ pass # Idle /\ pass.api.spec \in Specs /\ pass.next \in Nat
  BY DEF RegisterWithoutClient, RegisterFails, RegisterResolve, RegisterPublish, At,
         IInv, TypeOK, Pass, AggregatedAPI
<1>2. pass.next \in DOMAIN pass.api.spec
  <2>1. CASE At("publish")
    BY <2>1 DEF IInv, PublishKept
  <2>2. CASE pass.next <= Len(pass.api.spec)
    BY <1>1, <2>2, SpecType DEF IInv, IndexKept
  <2> QED
    BY <2>1, <2>2
    DEF RegisterWithoutClient, RegisterFails, RegisterResolve, RegisterPublish
<1>3. Entry.name \in Clusters /\ Entry.apis \in SelectorLists
  <2>1. Entry \in [name : Clusters, apis : SelectorLists]
    BY <1>1, <1>2, SpecType DEF Entry
  <2> QED
    BY <2>1
<1>4. CASE RegisterWithoutClient
  <2>1. call = NoCall
    BY <1>4 DEF RegisterWithoutClient, At, IInv, TypeOK
  <2>2. /\ EntryDone({Entry.name}) /\ pass.step = "register"
        /\ UNCHANGED <<server, cluster, caches, queued, events, faults>>
    BY <1>4 DEF RegisterWithoutClient, At
  <2> QED
    BY <1>1, <1>2, <1>3, <2>1, <2>2, EntryStep DEF server
<1>5. CASE RegisterFails
  <2>1. /\ EntryDone({Entry.name}) /\ pass.step = "register"
        /\ UNCHANGED <<members, call, docs, cluster, caches, queued, events, faults>>
        /\ call = NoCall
    BY <1>5 DEF RegisterFails, At, Server!SetClusterFails
  <2> QED
    BY <1>1, <1>2, <1>3, <2>1, EntryStep
<1>6. CASE RegisterPublish
  <2>1. /\ pass.step = "publish"
        /\ members' = [members EXCEPT ![call.name] = call.member]
        /\ call # NoCall /\ call' = NoCall /\ docs' = docs
        /\ UNCHANGED <<cluster, caches, queued, events, faults>>
    BY <1>6 DEF RegisterPublish, At, Server!SetClusterPublish
  <2>2. /\ call.member \in Member /\ call.name = Entry.name
        /\ call.member.selectors = Entry.apis
    BY <1>1, <2>1 DEF IInv, ServerTypeOK, Call, PublishKept, At
  <2>3. PICK failed \in SUBSET Clusters : EntryDone(failed)
    BY <1>3, <1>6 DEF RegisterPublish
  <2> QED
    BY <1>1, <1>2, <2>1, <2>2, <2>3, EntryStep
<1>7. CASE RegisterResolve
  <2>1. /\ pass.step = "register" /\ ~Server!ResolveFails(Entry.name)
        /\ secretCache[Entry.name] \in Clients
        /\ pass' = [pass EXCEPT !.step = "publish"]
        /\ UNCHANGED <<members, docs, cluster, caches, queued, events, faults>>
        /\ call' = [name |-> Entry.name,
                    member |-> [client |-> secretCache[Entry.name], selectors |-> Entry.apis,
                                resources |-> Server!Resolve(Entry.name, Entry.apis)]]
    BY <1>7 DEF RegisterResolve, At, Server!SetClusterResolve
  <2>2. Server!Resolve(Entry.name, Entry.apis) \subseteq ServedResource
    BY <1>3, <2>1, ResolveType DEF IInv, ServerTypeOK
  <2>3. call' \in Call
    BY <1>3, <2>1, <2>2 DEF Call, Member
  <2>4. call' # NoCall
    BY <2>3, NullAssumption
  <2>5. /\ pass' \in Pass /\ pass' # Idle /\ pass'.step = "publish"
        /\ pass'.api = pass.api /\ pass'.next = pass.next /\ pass'.failed = pass.failed
    BY <1>1, <2>1, IdleAssumption DEF Pass
  <2>6. TypeOK'
    BY <2>1, <2>4, <2>5 DEF IInv, TypeOK, cluster, caches
  <2>7. ServerTypeOK'
    BY <2>1, <2>3 DEF IInv, ServerTypeOK
  <2>8. EntriesKept'
    BY <1>1, <2>1, <2>5 DEF IInv, EntriesKept, RegisteredAsIn
  <2>9. PublishKept'
    <3>1. Entry' = Entry
      BY <2>5 DEF Entry
    <3>2. call'.name = Entry.name /\ call'.member.selectors = Entry.apis
      BY <2>1
    <3> QED
      BY <1>2, <2>5, <3>1, <3>2 DEF PublishKept
  <2>10. IndexKept' /\ RemovalKept'
    BY <1>1, <2>5 DEF IInv, IndexKept, RemovalKept, At
  <2> QED
    BY <2>6, <2>7, <2>8, <2>9, <2>10 DEF IInv
<1> QED
  BY <1>4, <1>5, <1>6, <1>7
\* The removal of the clusters that left the spec: those of its entries stay.
LEMMA RemoveStep ==
    ASSUME IInv, NEW c \in Clusters, RemoveStale(c)
    PROVE  IInv'
<1>1. /\ pass \in Pass /\ pass # Idle /\ pass.step = "register"
      /\ pass.api.spec \in Specs /\ call = NoCall
  BY DEF RemoveStale, At, IInv, TypeOK, Pass, AggregatedAPI
<1>2. PICK failed \in SUBSET Clusters :
          pass' = [pass EXCEPT !.failed = pass.failed \union failed]
  BY DEF RemoveStale
<1>3. /\ pass' \in Pass /\ pass'.step = "register" /\ pass'.api = pass.api
      /\ pass'.next = pass.next /\ pass'.failed = pass.failed \union failed
  <2>1. pass' = [api |-> pass.api, step |-> pass.step, next |-> pass.next,
                 failed |-> pass.failed \union failed, status |-> pass.status,
                 err |-> pass.err]
    BY <1>1, <1>2 DEF Pass
  <2>2. pass.failed \union failed \in SUBSET Clusters
    BY <1>1 DEF Pass
  <2> QED
    BY <1>1, <2>1, <2>2 DEF Pass
<1>4. /\ members' = [members EXCEPT ![c] = NoMember]
      /\ UNCHANGED <<call, docs, cluster, caches, queued, events, faults>>
      /\ c \notin SpecClusters(pass.api.spec)
  BY DEF RemoveStale, Server!RemoveCluster
<1>5. TypeOK'
  BY <1>1, <1>3, <1>4 DEF IInv, TypeOK, cluster, caches
<1>6. ServerTypeOK'
  BY <1>4 DEF IInv, ServerTypeOK
<1>7. EntriesKept'
  <2>1. ASSUME pass.failed = {}, NEW j \in DOMAIN pass.api.spec, j < pass.next
        PROVE  RegisteredAsIn(pass.api.spec, pass.api.spec[j].name)'
    <3>1. RegisteredAsIn(pass.api.spec, pass.api.spec[j].name)
      BY <1>1, <2>1 DEF IInv, EntriesKept
    <3>2. pass.api.spec[j].name \in Clusters /\ pass.api.spec[j].name # c
      BY <1>1, <1>4, SpecType DEF SpecClusters
    <3>3. members'[pass.api.spec[j].name] = members[pass.api.spec[j].name]
      BY <1>4, <3>2 DEF IInv, ServerTypeOK
    <3> QED
      BY <1>3, <3>1, <3>3 DEF RegisteredAsIn
  <2> QED
    BY <1>3, <2>1 DEF EntriesKept
<1>8. IndexKept' /\ PublishKept' /\ RemovalKept'
  BY <1>1, <1>3 DEF IInv, IndexKept, PublishKept, RemovalKept, At
<1> QED
  BY <1>5, <1>6, <1>7, <1>8 DEF IInv

\* setConditionReady and the kubeconfig Secret: the pass goes on to write what the
\* registrations came to.
LEMMA ReadyStep ==
    ASSUME IInv, SetReady \/ ApplyKubeconfig \/ ApplyFails
    PROVE  IInv'
<1>1. /\ pass \in Pass /\ pass # Idle /\ pass.api \in AggregatedAPI
      /\ pass.api.spec \in Specs /\ pass.next \in Nat /\ call = NoCall
  BY DEF SetReady, ApplyKubeconfig, ApplyFails, At, IInv, TypeOK, Pass, AggregatedAPI
<1>2. /\ UNCHANGED <<server, api, secrets, caches, events>>
      /\ pass'.api = pass.api /\ pass'.next = pass.next /\ pass'.failed = pass.failed
      /\ pass'.step \in {"apply", "commit"}
  BY <1>1 DEF SetReady, ApplyKubeconfig, ApplyFails, cluster, Pass
<1>3. pass' \in Pass
  <2>1. pass.status \in Status /\ pass.failed \in SUBSET Clusters
    BY <1>1 DEF Pass
  <2>2. CASE SetReady
    <3>1. NewCondition \in Condition
      BY <1>1, <2>1 DEF NewCondition, Condition, AggregatedAPI
    <3>2. PICK status : status = [condition |-> NewCondition, url |-> TRUE,
                                  secret |-> pass.status.secret]
      OBVIOUS
    <3>3. status \in Status
      BY <2>1, <3>1, <3>2 DEF Status
    <3>4. pass' = [api |-> pass.api, step |-> "apply", next |-> pass.next,
                   failed |-> pass.failed, status |-> status, err |-> (pass.failed # {})]
      BY <1>1, <2>1, <2>2, <3>2 DEF SetReady, Pass, Status
    <3>5. (pass.failed # {}) \in BOOLEAN
      OBVIOUS
    <3> QED
      BY <1>1, <2>1, <3>3, <3>4, <3>5 DEF Pass
  <2>3. CASE ApplyKubeconfig
    <3>1. PICK status : status = [pass.status EXCEPT !.secret = TRUE]
      OBVIOUS
    <3>2. status \in Status
      BY <2>1, <3>1 DEF Status
    <3>3. pass' = [pass EXCEPT !.step = "commit", !.status = status]
      BY <1>1, <2>1, <2>3, <3>1 DEF ApplyKubeconfig, Pass
    <3> QED
      BY <1>1, <3>2, <3>3 DEF Pass
  <2>4. CASE ApplyFails
    BY <1>1, <2>4 DEF ApplyFails, Pass
  <2> QED
    BY <2>2, <2>3, <2>4
<1>4. kubeconfig' \in Nat
  BY <1>1 DEF IInv, TypeOK, SetReady, ApplyKubeconfig, ApplyFails, cluster, AggregatedAPI
<1>5. queued' \in BOOLEAN
  BY DEF IInv, TypeOK, SetReady, ApplyKubeconfig, ApplyFails
<1>6. faults' \in 0 .. MaxFaults
  BY AggregatorBounds DEF IInv, TypeOK, SetReady, ApplyKubeconfig, ApplyFails, Fault
<1>7. TypeOK'
  BY <1>1, <1>2, <1>3, <1>4, <1>5, <1>6 DEF IInv, TypeOK, server, caches
<1>8. ServerTypeOK'
  BY <1>2 DEF IInv, ServerTypeOK, server
<1>9. EntriesKept' /\ IndexKept' /\ PublishKept'
  BY <1>1, <1>2 DEF IInv, EntriesKept, IndexKept, PublishKept, RegisteredAsIn, At, server
<1>10. RemovalKept'
  <2>1. pass.next > Len(pass.api.spec) /\ Registered \subseteq SpecClusters(pass.api.spec)
    BY DEF SetReady, ApplyKubeconfig, ApplyFails, IInv, RemovalKept
  <2> QED
    BY <1>2, <2>1 DEF RemovalKept, Registered, server
<1> QED
  BY <1>7, <1>8, <1>9, <1>10 DEF IInv

\* commitStatus, and the death of the process: the pass is over.
LEMMA EndStep ==
    ASSUME IInv, CommitNothing \/ CommitPatch \/ CommitNotFound \/ CommitFails \/ Restart
    PROVE  IInv'
<1>1. pass' = Idle
  BY DEF CommitNothing, CommitPatch, CommitNotFound, CommitFails, Return, Restart
<1>2. call' = NoCall
  BY DEF CommitNothing, CommitPatch, CommitNotFound, CommitFails, Restart, At,
         IInv, TypeOK, server
<1>3. ServerTypeOK'
  <2>1. members' \in [Clusters -> Member \union {NoMember}]
    BY DEF CommitNothing, CommitPatch, CommitNotFound, CommitFails, Restart, server,
           Server!NoMembers, IInv, ServerTypeOK
  <2>2. docs' = docs
    BY DEF CommitNothing, CommitPatch, CommitNotFound, CommitFails, Restart, server
  <2> QED
    BY <1>2, <2>1, <2>2 DEF IInv, ServerTypeOK
<1>4. api' \in AggregatedAPI \union {NoAPI}
  <2>1. CASE CommitPatch
    <3>1. api \in AggregatedAPI /\ pass \in Pass
      BY <2>1 DEF CommitPatch, At, IInv, TypeOK
    <3>2. api.status \in Status /\ pass.api.status \in Status /\ pass.status \in Status
      BY <3>1 DEF AggregatedAPI, Pass
    <3>3. MergePatch(api.status, pass.api.status, pass.status) \in Status
      BY <3>2, MergePatchType
    <3> QED
      BY <2>1, <3>1, <3>3 DEF CommitPatch, AggregatedAPI
  <2>2. CASE api' = api
    BY <2>2 DEF IInv, TypeOK
  <2> QED
    BY <2>1, <2>2 DEF CommitNothing, CommitNotFound, CommitFails, Restart, cluster
<1>5. UNCHANGED <<secrets, kubeconfig, events>>
  BY DEF CommitNothing, CommitPatch, CommitNotFound, CommitFails, Restart, cluster
<1>6. cache' \in AggregatedAPI \union {NoAPI} /\ secretCache' \in [Clusters -> Secret]
  BY DEF CommitNothing, CommitPatch, CommitNotFound, CommitFails, Restart, caches,
         IInv, TypeOK
<1>7. faults' \in 0 .. MaxFaults
  <2>1. Fault \/ faults' = faults
    BY DEF CommitNothing, CommitPatch, CommitNotFound, CommitFails, Restart
  <2> QED
    BY <2>1, AggregatorBounds DEF Fault, IInv, TypeOK
<1>8. queued' \in BOOLEAN
  <2>1. queued' = TRUE \/ queued' = (queued \/ pass.err)
    BY DEF CommitNothing, CommitPatch, CommitNotFound, CommitFails, Return, Restart
  <2> QED
    BY <2>1
<1>9. TypeOK'
  BY <1>1, <1>2, <1>4, <1>5, <1>6, <1>7, <1>8 DEF IInv, TypeOK
<1> QED
  BY <1>1, <1>3, <1>9, IdleStep

\* The process starts with an empty server, fresh caches and no pass.
LEMMA InitIInv ==
    ASSUME Init
    PROVE  IInv
<1>1. PICK spec \in Specs :
          api = [uid |-> 1, spec |-> spec, generation |-> 1, status |-> NewStatus]
  BY DEF Init
<1>2. NewStatus \in Status
  BY DEF NewStatus, Status, NoCondition, Condition
<1>3. api \in AggregatedAPI /\ cache \in AggregatedAPI
  BY <1>1, <1>2 DEF Init, AggregatedAPI
<1>4. secrets \in [Clusters -> Secret] /\ secretCache \in [Clusters -> Secret]
  BY StartAssumption DEF Init, Secret
<1>5. pass = Idle /\ call = NoCall
  BY DEF Init, Server!Init
<1>6. TypeOK
  BY <1>3, <1>4, <1>5, AggregatorBounds DEF TypeOK, Init
<1>7. ServerTypeOK
  BY DEF ServerTypeOK, Init, Server!Init, Server!NoMembers
<1> QED
  BY <1>5, <1>6, <1>7 DEF IInv, EntriesKept, IndexKept, PublishKept, RemovalKept, At

\* The invariant of the api-aggregator process: whatever users, clusters, caches, the
\* resync loop and failures do between two steps of a reconcile, what it has registered
\* so far stays registered with an entry's selectors.
THEOREM Invariance == Spec => []IInv
<1>1. IInv /\ [Next]_vars => IInv'
  <2> SUFFICES ASSUME IInv, [Next]_vars
               PROVE  IInv'
    OBVIOUS
  <2>1. CASE UNCHANGED vars
    <3>1. TypeOK'
      BY <2>1 DEF IInv, TypeOK, vars, server, cluster, caches
    <3>2. ServerTypeOK'
      BY <2>1 DEF IInv, ServerTypeOK, vars, server
    <3> QED
      BY <2>1, <3>1, <3>2, OutsideStep DEF vars, server
  <2> QED
    BY <2>1, ClusterStep, ServerStep, FetchStep, RegisterStep, RemoveStep, ReadyStep, EndStep
    DEF Next, Reconcile
<1> QED
  BY InitIInv, <1>1, PTL DEF Spec

\* The object, the caches and the reconcile keep their types, and a SetCluster waits for
\* the server exactly while the reconcile waits for its answer (registerCluster).
THEOREM TypeCorrect == Spec => []TypeOK
<1>1. IInv => TypeOK
  BY DEF IInv
<1> QED
  BY <1>1, Invariance, PTL

\* A pass about to report Ready has registered exactly the clusters of the spec that it
\* read, each with the selectors of an entry (run and setConditionReady, controller.go).
THEOREM ReadyEarned == Spec => []ReadyIsEarned
<1>1. ASSUME IInv
      PROVE  ReadyIsEarned
  <2> SUFFICES ASSUME pass # Idle, pass.step \in {"apply", "commit"}, pass.failed = {}
               PROVE  /\ Registered = SpecClusters(pass.api.spec)
                      /\ \A c \in Registered : \E i \in DOMAIN pass.api.spec :
                           pass.api.spec[i] = [name |-> c, apis |-> members[c].selectors]
    BY DEF ReadyIsEarned, At
  <2>1. PICK spec \in Specs : spec = pass.api.spec
    BY <1>1 DEF IInv, TypeOK, Pass, AggregatedAPI
  <2>2. Registered \subseteq SpecClusters(spec) /\ pass.next > Len(spec) /\ pass.next \in Nat
    BY <1>1, <2>1 DEF IInv, TypeOK, Pass, RemovalKept, At
  <2>3. ASSUME NEW c \in SpecClusters(spec)
        PROVE  /\ c \in Registered
               /\ \E i \in DOMAIN spec : spec[i] = [name |-> c, apis |-> members[c].selectors]
    <3>1. PICK j \in DOMAIN spec : c = spec[j].name
      BY DEF SpecClusters
    <3>2. j < pass.next /\ c \in Clusters
      BY <2>2, <3>1, SpecType
    <3>3. RegisteredAsIn(spec, c)
      BY <1>1, <2>1, <3>1, <3>2 DEF IInv, EntriesKept
    <3> QED
      BY <3>2, <3>3 DEF RegisteredAsIn, Registered
  <2> QED
    BY <2>1, <2>2, <2>3
<1> QED
  BY <1>1, Invariance, PTL
-----------------------------------------------------------------------------
(* The composition with ServedSet *)

\* A step of the process does to the server what ServedSet allows its caller, its
\* resync loop and the clusters, or the process dies and all of it is gone.
UsesServer == Server!Next \/ Restart

\* The process uses the API server within what ServedSet, which module Server is shown
\* to implement, promises: one call at a time, of clusters, clients and selectors that it
\* knows (registerCluster and run, controller.go).
THEOREM ServerUsedAsPromised == Spec => Server!Init /\ [][UsesServer]_server
<1>1. Init => Server!Init
  BY DEF Init
<1>2. IInv /\ [Next]_vars => [UsesServer]_server
  <2> SUFFICES ASSUME IInv, [Next]_vars
               PROVE  Server!Next \/ Restart \/ UNCHANGED server
    BY DEF UsesServer
  <2>1. ASSUME NEW c \in Clusters,
               DiscoveryChanges(c) \/ DiscoveryRecovers(c) \/ RemoveStale(c)
        PROVE  Server!Next
    BY <2>1 DEF DiscoveryChanges, DiscoveryRecovers, RemoveStale, Server!Next
  <2>2. CASE Resync
    BY <2>2 DEF Resync, Server!Next
  <2>3. CASE RegisterPublish
    BY <2>3 DEF RegisterPublish, Server!Next
  <2>4. ASSUME RegisterFails \/ RegisterResolve
        PROVE  Server!Next
    <3>1. /\ pass.api.spec \in Specs /\ pass.next \in Nat /\ pass.next >= 1
          /\ pass.next <= Len(pass.api.spec)
      BY <2>4 DEF RegisterFails, RegisterResolve, At, IInv, TypeOK, IndexKept, Pass,
                  AggregatedAPI
    <3>2. pass.api.spec[pass.next] \in [name : Clusters, apis : SelectorLists]
      BY <3>1, SpecType
    <3>3. Entry.name \in Clusters /\ Entry.apis \in SelectorLists
      BY <3>2 DEF Entry
    <3>4. CASE RegisterFails
      BY <3>3, <3>4 DEF RegisterFails, Server!Next
    <3>5. CASE RegisterResolve
      BY <3>3, <3>5 DEF RegisterResolve, Server!Next
    <3> QED
      BY <2>4, <3>4, <3>5
  <2> QED
    BY <2>1, <2>2, <2>3, <2>4
    DEF Next, Reconcile, vars, EditSpec, DeleteAPI, CreateAPI, DeleteKubeconfig,
        CollectKubeconfig, EditSecret, SyncSecret, SyncAPI, FetchNothing, Fetch,
        RegisterWithoutClient, SetReady, ApplyKubeconfig, ApplyFails, CommitNothing,
        CommitPatch, CommitNotFound, CommitFails
<1> QED
  BY <1>1, <1>2, Invariance, PTL DEF Spec
=============================================================================
