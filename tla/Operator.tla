------------------------------- MODULE Operator -------------------------------
(***************************************************************************)
(* The operator of pkg/controllers/operator/aggregatedapi: it runs a       *)
(* Deployment and a Service for every AggregatedAPI, and a finalizer makes *)
(* sure that they are deleted with it.  Owner references cannot do that:   *)
(* the children live in the operator's namespace.                          *)
(*                                                                         *)
(* An operator process reads AggregatedAPIs from a cache that lags behind  *)
(* the API server and reconciles one of them at a time; it makes one API   *)
(* call after the other, any of which can fail, and can crash in between.  *)
(* Users create and delete AggregatedAPIs and remove children meanwhile.   *)
(***************************************************************************)
EXTENDS Integers, Sequences, FiniteSets

CONSTANTS
    Objs,       \* AggregatedAPIs: [namespace, name], each a sequence of segments
    Refused,    \* applies that the API server never takes: <<object, step>>
    Processes,  \* operator processes; the manager elects no leader
    None,       \* no child
    Idle,       \* no reconcile is under way
    MaxChanges, \* bound on what users do
    MaxFaults   \* bound on failed calls and crashes

ASSUME BoundsAssumption == MaxChanges \in Nat /\ MaxFaults \in Nat
ASSUME NoneAssumption == None \notin Objs
ASSUME RefusedAssumption == Refused \subseteq Objs \X {"applyDeployment", "applyService"}

VARIABLES
    api,         \* the AggregatedAPIs in the API server
    cache,       \* the AggregatedAPIs in the cache of each process
    pending,     \* owners of children whose watch event a process has not had yet
    queue,       \* the work queue of each process
    work,        \* the reconcile each process is in
    deployment,  \* the AggregatedAPI a child Deployment is labelled with
    service,     \* the AggregatedAPI a child Service is labelled with
    changes, faults

vars == <<api, cache, pending, queue, work, deployment, service, changes, faults>>

\* Mutant: the name of a child does not carry the namespace.
childNameBare(o) == o.name

\* childName: "aggregator-" + namespace + "-" + name.  Segments are what "-"
\* separates, so joining two names with "-" concatenates their segments.
childName(o) == o.namespace \o o.name

Children == {childName(o) : o \in Objs}

Versioned == [st : {"absent", "live", "deleting"}, finalizer : BOOLEAN, version : Nat]

Steps == {"addFinalizer", "applyDeployment", "applyService",
          "deleteDeployment", "deleteService", "removeFinalizer"}

\* A reconcile: its object, the call it is at and the version that the cache had.
Pass == [obj : Objs, step : Steps, version : Nat]

\* The API server's objects, the caches and the reconciles under way keep their
\* types: a reconcile is at one of the calls of reconcile and finalize.
TypeOK ==
    /\ api \in [Objs -> Versioned]
    /\ cache \in [Processes -> [Objs -> Versioned]]
    /\ pending \in [Processes -> SUBSET Objs]
    /\ queue \in [Processes -> SUBSET Objs]
    /\ work \in [Processes -> Pass \union {Idle}]
    /\ deployment \in [Children -> Objs \union {None}]
    /\ service \in [Children -> Objs \union {None}]
    /\ changes \in 0 .. MaxChanges
    /\ faults \in 0 .. MaxFaults

Absent == [st |-> "absent", finalizer |-> FALSE, version |-> 0]

Init ==
    /\ api = [o \in Objs |-> Absent]
    /\ cache = [p \in Processes |-> api]
    /\ pending = [p \in Processes |-> {}]
    /\ queue = [p \in Processes |-> {}]
    /\ work = [p \in Processes |-> Idle]
    /\ deployment = [n \in Children |-> None]
    /\ service = [n \in Children |-> None]
    /\ changes = 0
    /\ faults = 0

-----------------------------------------------------------------------------
(* Users and the API server *)

Change == changes < MaxChanges /\ changes' = changes + 1

Create(o) ==
    /\ Change
    /\ api[o].st = "absent"
    /\ api' = [api EXCEPT ![o].st = "live", ![o].version = @ + 1]
    /\ UNCHANGED <<cache, pending, queue, work, deployment, service, faults>>

\* With a finalizer the object stays, marked with a deletion timestamp.
Delete(o) ==
    /\ Change
    /\ api[o].st = "live"
    /\ api' = [api EXCEPT ![o].st = IF api[o].finalizer THEN "deleting" ELSE "absent",
                          ![o].version = @ + 1]
    /\ UNCHANGED <<cache, pending, queue, work, deployment, service, faults>>

\* Mutant: what has no instance label is mapped as well.
NotifyUnlabelled(before, after) ==
    pending' = [p \in Processes |->
        IF before = after THEN pending[p] ELSE pending[p] \union {before, after}]

\* A changed child raises an event; toAggregatedAPI maps the instance label before
\* and after the change to the AggregatedAPI.  An apply of what is there is none.
Notify(before, after) ==
    pending' = [p \in Processes |->
        IF before = after THEN pending[p] ELSE pending[p] \union ({before, after} \ {None})]

DeleteDeployment(n) ==
    /\ Change
    /\ deployment[n] # None
    /\ deployment' = [deployment EXCEPT ![n] = None]
    /\ Notify(deployment[n], None)
    /\ UNCHANGED <<api, cache, queue, work, service, faults>>

DeleteService(n) ==
    /\ Change
    /\ service[n] # None
    /\ service' = [service EXCEPT ![n] = None]
    /\ Notify(service[n], None)
    /\ UNCHANGED <<api, cache, queue, work, deployment, faults>>

\* The cache catches up, which queues the object.
Sync(p, o) ==
    /\ cache[p][o] # api[o]
    /\ cache' = [cache EXCEPT ![p][o] = api[o]]
    /\ queue' = [queue EXCEPT ![p] = @ \union {o}]
    /\ UNCHANGED <<api, pending, work, deployment, service, changes, faults>>

\* The event of a child arrives.
Deliver(p, o) ==
    /\ o \in pending[p]
    /\ pending' = [pending EXCEPT ![p] = @ \ {o}]
    /\ queue' = [queue EXCEPT ![p] = @ \union {o}]
    /\ UNCHANGED <<api, cache, work, deployment, service, changes, faults>>

-----------------------------------------------------------------------------
(* reconcile *)

\* Mutant: the children are applied before the finalizer is there.
FirstStepApplies(cached) ==
    IF cached.st = "deleting" THEN "deleteDeployment" ELSE "applyDeployment"

\* An object that is being deleted is finalized; any other one gets the
\* finalizer first.
FirstStep(cached) ==
    IF cached.st = "deleting" THEN "deleteDeployment"
    ELSE IF cached.finalizer THEN "applyDeployment" ELSE "addFinalizer"

Dequeue(p, o) ==
    /\ work[p] = Idle /\ o \in queue[p]
    /\ queue' = [queue EXCEPT ![p] = @ \ {o}]
    /\ UNCHANGED <<api, cache, pending, deployment, service, changes, faults>>

\* The cached object is gone, or deleted and without our finalizer.
ReconcileNothing(p, o) ==
    /\ Dequeue(p, o)
    /\ cache[p][o].st = "absent" \/ (cache[p][o].st = "deleting" /\ ~cache[p][o].finalizer)
    /\ work' = work

ReconcileBegins(p, o) ==
    /\ Dequeue(p, o)
    /\ \/ cache[p][o].st = "live"
       \/ cache[p][o].st = "deleting" /\ cache[p][o].finalizer
    /\ work' = [work EXCEPT ![p] = [obj |-> o, step |-> FirstStep(cache[p][o]),
                                    version |-> cache[p][o].version]]

At(p, step) == work[p] # Idle /\ work[p].step = step

Goto(p, step) == work' = [work EXCEPT ![p].step = step]

Return(p) == work' = [work EXCEPT ![p] = Idle]

\* The API server takes an update of the version that it has; a Deployment's
\* selector, which holds the instance label, cannot be changed.  A child is refused
\* for its name or label: an instance label and the name of a Service are limited to
\* 63 characters, and a Service name has no dot.
Accepted(p) ==
    LET o == work[p].obj IN
    /\ <<o, work[p].step>> \notin Refused
    /\ work[p].step \in {"addFinalizer", "removeFinalizer"} =>
           api[o].st # "absent" /\ api[o].version = work[p].version
    /\ work[p].step = "applyDeployment" => deployment[childName(o)] \in {None, o}

AddFinalizer(p) ==
    /\ At(p, "addFinalizer") /\ Accepted(p)
    /\ api' = [api EXCEPT ![work[p].obj].finalizer = TRUE, ![work[p].obj].version = @ + 1]
    /\ Goto(p, "applyDeployment")
    /\ UNCHANGED <<cache, pending, queue, deployment, service, changes, faults>>

ApplyDeployment(p) ==
    /\ At(p, "applyDeployment") /\ Accepted(p)
    /\ deployment' = [deployment EXCEPT ![childName(work[p].obj)] = work[p].obj]
    /\ Notify(deployment[childName(work[p].obj)], work[p].obj)
    /\ Goto(p, "applyService")
    /\ UNCHANGED <<api, cache, queue, service, changes, faults>>

ApplyService(p) ==
    /\ At(p, "applyService") /\ Accepted(p)
    /\ service' = [service EXCEPT ![childName(work[p].obj)] = work[p].obj]
    /\ Notify(service[childName(work[p].obj)], work[p].obj)
    /\ Return(p)
    /\ UNCHANGED <<api, cache, queue, deployment, changes, faults>>

\* finalize: a child that is not there is no error.
FinalizeDeployment(p) ==
    /\ At(p, "deleteDeployment")
    /\ deployment' = [deployment EXCEPT ![childName(work[p].obj)] = None]
    /\ Notify(deployment[childName(work[p].obj)], None)
    /\ Goto(p, "deleteService")
    /\ UNCHANGED <<api, cache, queue, service, changes, faults>>

FinalizeService(p) ==
    /\ At(p, "deleteService")
    /\ service' = [service EXCEPT ![childName(work[p].obj)] = None]
    /\ Notify(service[childName(work[p].obj)], None)
    /\ Goto(p, "removeFinalizer")
    /\ UNCHANGED <<api, cache, queue, deployment, changes, faults>>

\* The last finalizer of a deleted object goes, and the object with it.
RemoveFinalizer(p) ==
    /\ At(p, "removeFinalizer") /\ Accepted(p)
    /\ api' = [api EXCEPT ![work[p].obj].st = "absent", ![work[p].obj].finalizer = FALSE,
                          ![work[p].obj].version = @ + 1]
    /\ Return(p)
    /\ UNCHANGED <<cache, pending, queue, deployment, service, changes, faults>>

\* Mutant: a failed reconcile is not repeated.
RetryNot(p) == queue' = queue

\* An error of reconcile puts the object back into the queue.
Retry(p) == queue' = [queue EXCEPT ![p] = @ \union {work[p].obj}]

CallRefused(p) ==
    /\ work[p] # Idle /\ ~Accepted(p)
    /\ Retry(p)
    /\ Return(p)
    /\ UNCHANGED <<api, cache, pending, deployment, service, changes, faults>>

Fault == faults < MaxFaults /\ faults' = faults + 1

CallFails(p) ==
    /\ Fault
    /\ work[p] # Idle
    /\ Retry(p)
    /\ Return(p)
    /\ UNCHANGED <<api, cache, pending, deployment, service, changes>>

\* The process dies and starts again: its cache is listed anew, and every
\* object in it and the owner of every child are queued.
Crash(p) ==
    /\ Fault
    /\ Return(p)
    /\ cache' = [cache EXCEPT ![p] = api]
    /\ pending' = [pending EXCEPT ![p] = {}]
    /\ queue' = [queue EXCEPT ![p] =
           {o \in Objs : api[o].st # "absent" \/ \E n \in Children : o \in {deployment[n], service[n]}}]
    /\ UNCHANGED <<api, deployment, service, changes>>

-----------------------------------------------------------------------------
Begin(p, o) == ReconcileNothing(p, o) \/ ReconcileBegins(p, o)

Reconcile(p) ==
    \/ \E o \in Objs : Begin(p, o)
    \/ AddFinalizer(p) \/ ApplyDeployment(p) \/ ApplyService(p)
    \/ FinalizeDeployment(p) \/ FinalizeService(p) \/ RemoveFinalizer(p)
    \/ CallRefused(p)

Next ==
    \/ \E o \in Objs : Create(o) \/ Delete(o)
    \/ \E n \in Children : DeleteDeployment(n) \/ DeleteService(n)
    \/ \E p \in Processes :
         \/ \E o \in Objs : Sync(p, o) \/ Deliver(p, o)
         \/ Reconcile(p) \/ CallFails(p) \/ Crash(p)

\* A process that runs works off its queue, and its watches deliver.  The queue is
\* first in, first out, so an object that fails again and again does not keep
\* another one waiting.
Fairness ==
    \A p \in Processes :
        /\ WF_vars(Reconcile(p))
        /\ \A o \in Objs : SF_vars(Begin(p, o))
        /\ \A o \in Objs : WF_vars(Sync(p, o)) /\ WF_vars(Deliver(p, o))

Spec == Init /\ [][Next]_vars /\ Fairness

-----------------------------------------------------------------------------
(* Properties *)

\* A child exists only while its AggregatedAPI does and holds the finalizer, so
\* none is orphaned: not by a stale cache, a delete between two calls, a failed
\* call or a crash.  finalize "deletes the child workloads and releases the
\* finalizer", in this order.
ChildrenAreGuarded ==
    \A n \in Children : \A o \in {deployment[n], service[n]} \ {None} :
        api[o].st # "absent" /\ api[o].finalizer

\* The operator never takes a child from an AggregatedAPI that is not being
\* deleted.  Names of children carry "the AggregatedAPI's namespace: all
\* children share one namespace".
LiveKeepsChildren ==
    [][\A p \in Processes, o \in Objs : Reconcile(p) /\ api[o].st = "live" =>
        /\ deployment[childName(o)] = o => deployment'[childName(o)] = o
        /\ service[childName(o)] = o => service'[childName(o)] = o]_vars

\* The children that the API server lets an AggregatedAPI have.
HasDeployment(o) == api[o].st = "live" /\ <<o, "applyDeployment">> \notin Refused
HasService(o) == HasDeployment(o) /\ <<o, "applyService">> \notin Refused

\* When users and faults pause, every AggregatedAPI has its children or is gone
\* with them: nothing is left half deleted or half created, except that an object
\* whose children are refused lacks those.  It neither holds up the others nor its
\* own deletion.
EventuallySettled ==
    <>[]\A o \in Objs :
        /\ api[o].st # "deleting"
        /\ deployment[childName(o)] = (IF HasDeployment(o) THEN o ELSE None)
        /\ service[childName(o)] = (IF HasService(o) THEN o ELSE None)
=============================================================================
