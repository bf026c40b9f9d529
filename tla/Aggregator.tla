------------------------------ MODULE Aggregator ------------------------------
(***************************************************************************)
(* The api-aggregator process: the reconciler of                           *)
(* pkg/controllers/api-aggregator/aggregatedapi composed with the API      *)
(* server it registers clusters on.  The server is used through ServedSet, *)
(* which module Server implements.                                         *)
(*                                                                         *)
(* The reconciler serves one AggregatedAPI, so its queue holds one key or  *)
(* none.  It reads that object and the kubeconfig Secrets from caches that *)
(* lag behind the API server, each on its own, and writes the status and   *)
(* the generated kubeconfig Secret to the API server, without preconditions*)
(* on the version.  Its own writes come back as events that queue the key. *)
(* Users, the member clusters, failing calls and the death of the process  *)
(* act in between any two of its steps.                                    *)
(***************************************************************************)
EXTENDS Membership, Sequences, FiniteSetsExt

CONSTANTS
    Specs,      \* spec.clusters: sequences of [name, apis]; names can repeat
    Unusable,   \* no Secret, or one without a kubeconfig to build clients from
    StartSecrets,  \* the Secrets there can be when the process first starts
    StartDocs,  \* what clusters can report then
    NoAPI,      \* no AggregatedAPI
    Idle,       \* no reconcile is under way
    MaxEvents,  \* bound on what users and clusters do
    MaxFaults   \* bound on failing calls and restarts

ASSUME AggregatorBounds == MaxEvents \in Nat /\ MaxFaults \in Nat
ASSUME SpecsAssumption == Specs \subseteq Seq([name : Clusters, apis : SelectorLists])
ASSUME SecretsAssumption == Unusable \notin Clients
ASSUME StartAssumption ==
    /\ StartSecrets \subseteq [Clusters -> Clients \union {Unusable}]
    /\ StartDocs \subseteq Docs

VARIABLES
    members, served, call, result, docs, down,  \* the server, see ServedSet
    api,          \* the AggregatedAPI in the API server
    secrets,      \* the kubeconfig Secrets in the API server
    kubeconfig,   \* the owner of the generated Secret; 0 when there is none
    cache,        \* the AggregatedAPI in the cache of the process
    secretCache,  \* the kubeconfig Secrets in the cache
    queued,       \* the key is in the work queue
    pass,         \* the reconcile under way
    events, faults

server == <<members, served, call, result, docs, down>>
cluster == <<api, secrets, kubeconfig>>
caches == <<cache, secretCache>>
vars == <<server, cluster, caches, queued, pass, events, faults>>

Server == INSTANCE ServedSet

\* The Ready condition; observed is 0 before it is first set.  It is True when no
\* cluster failed; otherwise its message names those that did.
Condition == [observed : Nat, failed : SUBSET Clusters]
NoCondition == [observed |-> 0, failed |-> {}]

\* AggregatedAPIStatus; url and secret are what the process always writes, or not set.
Status == [condition : Condition, url : BOOLEAN, secret : BOOLEAN]
NewStatus == [condition |-> NoCondition, url |-> FALSE, secret |-> FALSE]

AggregatedAPI == [uid : Nat, spec : Specs, generation : Nat, status : Status]

Secret == Clients \union {Unusable}

\* A reconcile: the cached object it works on, its step, the index of the entry that is
\* registered next, the clusters that failed and the status that it will write.
Pass == [api : AggregatedAPI, step : {"register", "publish", "apply", "commit"},
         next : Nat, failed : SUBSET Clusters, status : Status, err : BOOLEAN]

ASSUME IdleAssumption == Idle \notin Pass

\* The object, the caches and the reconcile under way keep their types; a SetCluster
\* waits for the server exactly when the reconcile is at that step.
TypeOK ==
    /\ api \in AggregatedAPI \union {NoAPI}
    /\ cache \in AggregatedAPI \union {NoAPI}
    /\ secrets \in [Clusters -> Secret]
    /\ secretCache \in [Clusters -> Secret]
    /\ kubeconfig \in Nat
    /\ queued \in BOOLEAN
    /\ pass \in Pass \union {Idle}
    /\ call # NoCall <=> pass # Idle /\ pass.step = "publish"
    /\ events \in 0 .. MaxEvents
    /\ faults \in 0 .. MaxFaults

\* The process starts: the object that it was deployed for exists, some Secrets do.
Init ==
    /\ Server!Init
    /\ docs \in [Clusters -> StartDocs]
    /\ \E spec \in Specs :
         api = [uid |-> 1, spec |-> spec, generation |-> 1, status |-> NewStatus]
    /\ secrets \in StartSecrets
    /\ kubeconfig = 0
    /\ cache = api
    /\ secretCache = secrets
    /\ queued = TRUE
    /\ pass = Idle
    /\ events = 0
    /\ faults = 0

-----------------------------------------------------------------------------
(* Users, the member clusters and the garbage collector *)

Event == events < MaxEvents /\ events' = events + 1

EditSpec ==
    /\ Event
    /\ api # NoAPI
    /\ \E spec \in Specs \ {api.spec} :
         api' = [api EXCEPT !.spec = spec, !.generation = @ + 1]
    /\ UNCHANGED <<server, secrets, kubeconfig, caches, queued, pass, faults>>

DeleteAPI ==
    /\ Event
    /\ api # NoAPI
    /\ api' = NoAPI
    /\ UNCHANGED <<server, secrets, kubeconfig, caches, queued, pass, faults>>

\* Created again under its name; the number of events so far serves as the new uid.
CreateAPI ==
    /\ Event
    /\ api = NoAPI
    /\ \E spec \in Specs :
         api' = [uid |-> events + 1, spec |-> spec, generation |-> 1, status |-> NewStatus]
    /\ UNCHANGED <<server, secrets, kubeconfig, caches, queued, pass, faults>>

EditSecret(c) ==
    /\ Event
    /\ \E secret \in Secret \ {secrets[c]} : secrets' = [secrets EXCEPT ![c] = secret]
    /\ UNCHANGED <<server, api, kubeconfig, caches, queued, pass, faults>>

\* A watch event of any other Secret, the generated one included, queues the key.
DeleteKubeconfig ==
    /\ Event
    /\ kubeconfig # 0
    /\ kubeconfig' = 0
    /\ queued' = TRUE
    /\ UNCHANGED <<server, api, secrets, caches, pass, faults>>

\* The garbage collector deletes a Secret whose owner is gone.
CollectKubeconfig ==
    /\ kubeconfig \notin {0, IF api = NoAPI THEN 0 ELSE api.uid}
    /\ kubeconfig' = 0
    /\ queued' = TRUE
    /\ UNCHANGED <<server, api, secrets, caches, pass, events, faults>>

DiscoveryChanges(c) ==
    /\ Event
    /\ Server!ChangeDiscovery(c) \/ Server!Fail(c)
    /\ UNCHANGED <<cluster, caches, queued, pass, faults>>

DiscoveryRecovers(c) ==
    /\ Server!Recover(c)
    /\ UNCHANGED <<cluster, caches, queued, pass, events, faults>>

\* The resync loop of the server.
Resync ==
    /\ Server!Republish \/ \E c \in Clusters : Server!Refresh(c)
    /\ UNCHANGED <<cluster, caches, queued, pass, events, faults>>

-----------------------------------------------------------------------------
(* SetupWithManager: watches of the AggregatedAPI and of every Secret *)

\* Mutant: a predicate drops the event of a creation, as if the object were only ever
\* created before the process starts.
QueuesOnUpdate(before, after) == before # NoAPI

\* For(AggregatedAPI) has no predicate: every update queues the key, also that of
\* the status.
Queues(before, after) == TRUE

SyncAPI ==
    /\ cache # api
    /\ cache' = api
    /\ queued' = (queued \/ Queues(cache, api))
    /\ UNCHANGED <<server, cluster, secretCache, pass, events, faults>>

SyncSecret(c) ==
    /\ secretCache[c] # secrets[c]
    /\ secretCache' = [secretCache EXCEPT ![c] = secrets[c]]
    /\ queued' = TRUE
    /\ UNCHANGED <<server, cluster, cache, pass, events, faults>>

-----------------------------------------------------------------------------
(* fetchAggregatedAPI *)

FetchNothing ==
    /\ pass = Idle /\ queued
    /\ cache = NoAPI
    /\ queued' = FALSE
    /\ UNCHANGED <<server, cluster, caches, pass, events, faults>>

Fetch ==
    /\ pass = Idle /\ queued
    /\ cache # NoAPI
    /\ queued' = FALSE
    /\ pass' = [api |-> cache, step |-> "register", next |-> 1, failed |-> {},
                status |-> cache.status, err |-> FALSE]
    /\ UNCHANGED <<server, cluster, caches, events, faults>>

-----------------------------------------------------------------------------
(* run: registerCluster for every entry of the spec *)

At(step) == pass # Idle /\ pass.step = step

Entry == pass.api.spec[pass.next]

\* Mutant: the first failure ends the pass.
EntryDoneStops(failed) ==
    pass' = [pass EXCEPT !.step = "register", !.failed = @ \union failed,
                         !.next = IF failed = {} THEN @ + 1 ELSE Len(pass.api.spec) + 1]

\* Mutant: only the last failure counts.
EntryDoneForgets(failed) ==
    pass' = [pass EXCEPT !.step = "register", !.next = @ + 1, !.failed = failed]

\* The loop goes on with the next entry, whether this one failed or not.
EntryDone(failed) ==
    pass' = [pass EXCEPT !.step = "register", !.next = @ + 1, !.failed = @ \union failed]

\* The Secret is missing or no clients can be built from it.
RegisterWithoutClient ==
    /\ At("register") /\ pass.next <= Len(pass.api.spec)
    /\ secretCache[Entry.name] \notin Clients
    /\ EntryDone({Entry.name})
    /\ UNCHANGED <<server, cluster, caches, queued, events, faults>>

RegisterFails ==
    /\ At("register") /\ pass.next <= Len(pass.api.spec)
    /\ secretCache[Entry.name] \in Clients
    /\ Server!SetClusterFails(Entry.name)
    /\ EntryDone({Entry.name})
    /\ UNCHANGED <<cluster, caches, queued, events, faults>>

\* Mutant: the pass does not wait for the server.
RegisterResolveAsync ==
    /\ At("register") /\ pass.next <= Len(pass.api.spec)
    /\ secretCache[Entry.name] \in Clients
    /\ Server!SetClusterResolve(Entry.name, secretCache[Entry.name], Entry.apis)
    /\ EntryDone({})
    /\ UNCHANGED <<cluster, caches, queued, events, faults>>

RegisterResolve ==
    /\ At("register") /\ pass.next <= Len(pass.api.spec)
    /\ secretCache[Entry.name] \in Clients
    /\ Server!SetClusterResolve(Entry.name, secretCache[Entry.name], Entry.apis)
    /\ pass' = [pass EXCEPT !.step = "publish"]
    /\ UNCHANGED <<cluster, caches, queued, events, faults>>

RegisterPublish ==
    /\ At("publish")
    /\ Server!SetClusterPublish
    /\ EntryDone(IF result' = "ok" THEN {} ELSE {Entry.name})
    /\ UNCHANGED <<cluster, caches, queued, events, faults>>

-----------------------------------------------------------------------------
(* run: removal, the condition and the Secret *)

SpecClusters(spec) == {spec[i].name : i \in DOMAIN spec}

Registered == {c \in Clusters : members[c] # NoMember}

\* Server.Clusters() is read once; only this loop changes the names in it.  They
\* are removed in sorted order, here in any order.
RemoveStale(c) ==
    /\ At("register") /\ pass.next > Len(pass.api.spec)
    /\ c \in Registered \ SpecClusters(pass.api.spec)
    /\ Server!RemoveCluster(c)
    /\ pass' = [pass EXCEPT !.failed = @ \union (IF result' = "ok" THEN {} ELSE {c})]
    /\ UNCHANGED <<cluster, caches, queued, events, faults>>

\* setConditionReady: Ready is True when nothing failed, of the generation that was read.
NewCondition == [observed |-> pass.api.generation, failed |-> pass.failed]

SetReady ==
    /\ At("register") /\ pass.next > Len(pass.api.spec)
    /\ Registered \subseteq SpecClusters(pass.api.spec)
    /\ pass' = [pass EXCEPT !.step = "apply", !.err = (pass.failed # {}),
                            !.status.condition = NewCondition, !.status.url = TRUE]
    /\ UNCHANGED <<server, cluster, caches, queued, events, faults>>

\* Server-side apply, owned by the AggregatedAPI that was read.  Applying what is
\* there raises no event.
ApplyKubeconfig ==
    /\ At("apply")
    /\ kubeconfig' = pass.api.uid
    /\ queued' = (queued \/ kubeconfig # pass.api.uid)
    /\ pass' = [pass EXCEPT !.step = "commit", !.status.secret = TRUE]
    /\ UNCHANGED <<server, api, secrets, caches, events, faults>>

Fault == faults < MaxFaults /\ faults' = faults + 1

ApplyFails ==
    /\ Fault
    /\ At("apply")
    /\ pass' = [pass EXCEPT !.step = "commit", !.err = TRUE]
    /\ UNCHANGED <<server, cluster, caches, queued, events>>

-----------------------------------------------------------------------------
(* commitStatus *)

\* The merge patch holds the fields that differ from the object that was read; the
\* API server sets these in the object that it has now.
MergePatch(actual, old, new) ==
    [field \in DOMAIN actual |-> IF new[field] = old[field] THEN actual[field] ELSE new[field]]

\* Mutant: an error of run is dropped.
ReturnDropsErr(err) == queued' = queued /\ pass' = Idle

\* Reconcile returns; the queue takes the key back after an error.
Return(err) == queued' = (queued \/ err) /\ pass' = Idle

CommitNothing ==
    /\ At("commit")
    /\ pass.status = pass.api.status
    /\ Return(pass.err)
    /\ UNCHANGED <<server, cluster, caches, events, faults>>

CommitPatch ==
    /\ At("commit")
    /\ pass.status # pass.api.status
    /\ api # NoAPI
    /\ api' = [api EXCEPT !.status = MergePatch(@, pass.api.status, pass.status)]
    /\ Return(pass.err)
    /\ UNCHANGED <<server, secrets, kubeconfig, caches, events, faults>>

\* The object is gone.
CommitNotFound ==
    /\ At("commit")
    /\ pass.status # pass.api.status
    /\ api = NoAPI
    /\ Return(TRUE)
    /\ UNCHANGED <<server, cluster, caches, events, faults>>

CommitFails ==
    /\ Fault
    /\ At("commit")
    /\ pass.status # pass.api.status
    /\ Return(TRUE)
    /\ UNCHANGED <<server, cluster, caches, events>>

\* The process dies and another one starts, with nothing registered and caches
\* that are listed anew; the list of Secrets, or of the object, queues the key.
Restart ==
    /\ Fault
    /\ members' = Server!NoMembers
    /\ served' = {}
    /\ call' = NoCall
    /\ result' = "ok"
    /\ cache' = api
    /\ secretCache' = secrets
    /\ queued' = TRUE
    /\ pass' = Idle
    /\ UNCHANGED <<docs, down, cluster, events>>

-----------------------------------------------------------------------------
Reconcile ==
    \/ FetchNothing \/ Fetch
    \/ RegisterWithoutClient \/ RegisterFails \/ RegisterResolve \/ RegisterPublish
    \/ \E c \in Clusters : RemoveStale(c)
    \/ SetReady \/ ApplyKubeconfig
    \/ CommitNothing \/ CommitPatch \/ CommitNotFound

Next ==
    \/ EditSpec \/ DeleteAPI \/ CreateAPI \/ DeleteKubeconfig \/ CollectKubeconfig
    \/ \E c \in Clusters :
         EditSecret(c) \/ DiscoveryChanges(c) \/ DiscoveryRecovers(c) \/ SyncSecret(c)
    \/ Resync \/ SyncAPI
    \/ Reconcile \/ ApplyFails \/ CommitFails \/ Restart

\* The controller works off its queue, the caches' watches deliver, the resync
\* ticker fires and the garbage collector runs.  Nothing makes a user act or a
\* cluster recover.
Fairness ==
    /\ WF_vars(Reconcile)
    /\ WF_vars(SyncAPI)
    /\ \A c \in Clusters : WF_vars(SyncSecret(c))
    /\ WF_vars(Resync)
    /\ WF_vars(CollectKubeconfig)

Spec == Init /\ [][Next]_vars /\ Fairness

-----------------------------------------------------------------------------
(* Properties *)

\* A pass that is about to report Ready has earned it: the clusters registered on
\* the server are then exactly those of the spec that it read, each with an entry's
\* selectors, whatever was registered before, failed earlier or changed in the
\* caches meanwhile ("reports whether all spec clusters are registered").
ReadyIsEarned ==
    (At("apply") \/ At("commit")) /\ pass.failed = {} =>
        /\ Registered = SpecClusters(pass.api.spec)
        /\ \A c \in Registered : \E i \in DOMAIN pass.api.spec :
             pass.api.spec[i] = [name |-> c, apis |-> members[c].selectors]

\* The clusters can be reached through the Secret that the spec names.
Registrable(c) == secrets[c] \in Clients /\ ~Server!ResolveFails(c)

\* Once the environment pauses, every cluster of the spec that can be registered is,
\* with its current Secret, and no cluster that left the spec is: neither a cluster
\* that keeps failing, nor a conflict, nor a status or Secret that was read too early
\* blocks the others ("one failing cluster must not block the others").
MembershipConverges ==
    <>[](api # NoAPI =>
          /\ Registered \subseteq SpecClusters(api.spec)
          /\ \A c \in SpecClusters(api.spec) : Registrable(c) =>
               /\ c \in Registered
               /\ members[c].client = secrets[c]
               /\ \E i \in DOMAIN api.spec :
                    api.spec[i] = [name |-> c, apis |-> members[c].selectors])

\* A spec cluster without a usable Secret is reported: Ready does not stay True, nor at
\* an earlier generation, although the status is compared with a cached one and
\* patched without its version.
FailureIsReported ==
    <>[](api # NoAPI /\ (\E c \in SpecClusters(api.spec) : secrets[c] \notin Clients) =>
          /\ api.status.condition.failed # {}
          /\ api.status.condition.observed = api.generation)

\* The members that the spec asks for, as discovery reports them now.
Desired ==
    [c \in Clusters |->
        IF c \in SpecClusters(api.spec)
        THEN LET entry == api.spec[Max({i \in DOMAIN api.spec : api.spec[i].name = c})] IN
             [client |-> secrets[c], selectors |-> entry.apis,
              resources |-> Server!Resolve(c, entry.apis)]
        ELSE NoMember]

\* Every spec cluster can be registered and their merge served.
AllGood ==
    /\ api # NoAPI
    /\ Cardinality(SpecClusters(api.spec)) = Len(api.spec)
    /\ \A c \in SpecClusters(api.spec) : Registrable(c)
    /\ ~RebuildError(Desired)

\* When all is good in the end, everything is in place and at rest: the members and
\* what is served are those of the spec, Ready is True for it, the kubeconfig Secret
\* exists and belongs to this object, and the controller's own writes no longer wake
\* it ("a transient failure must not leave Ready stuck at False").
Settles ==
    <>[](AllGood =>
          /\ members = Desired
          /\ IsUnion(served, Desired)
          /\ api.status = [condition |-> [observed |-> api.generation, failed |-> {}],
                           url |-> TRUE, secret |-> TRUE]
          /\ kubeconfig = api.uid
          /\ pass = Idle /\ ~queued)
=============================================================================
