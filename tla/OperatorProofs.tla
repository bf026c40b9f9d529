---------------------------- MODULE OperatorProofs ----------------------------
(***************************************************************************)
(* Proofs about Operator for every set of AggregatedAPIs, every set of     *)
(* refused applies and every bound on what users do and on faults.         *)
(*                                                                         *)
(* The properties hold for one operator process at a time, and the         *)
(* theorems say so: two processes, whose caches lag each on its own, break *)
(* both.                                                                   *)
(***************************************************************************)
EXTENDS Operator, TLAPS

\* One operator process reconciles at a time.
SingleProcess == \A p, q \in Processes : p = q

\* No two AggregatedAPIs share the name of their children.
NamesDiffer == \A o, q \in Objs : childName(o) = childName(q) => o = q

Finalizing == {"deleteDeployment", "deleteService", "removeFinalizer"}

Guarded(o) == api[o].st # "absent" /\ api[o].finalizer

\* Only an object that is there has the finalizer.
NoneOfAbsent == \A o \in Objs : api[o].st = "absent" => ~api[o].finalizer

\* A child carries the name that childName gives to its owner.
OwnName ==
    \A n \in Children :
        /\ deployment[n] # None => childName(deployment[n]) = n
        /\ service[n] # None => childName(service[n]) = n

\* What a lagging cache still says of the API server: it is no newer, and a
\* version has one content; a cached object that lives with its finalizer is
\* guarded to this day; and while the cache has a deleted object, nobody has put
\* the finalizer on the one that has taken its place.
CacheFollows ==
    \A p \in Processes, o \in Objs :
        /\ cache[p][o].version <= api[o].version
        /\ cache[p][o].version = api[o].version => cache[p][o] = api[o]
        /\ cache[p][o].st = "live" /\ cache[p][o].finalizer => Guarded(o)
        /\ cache[p][o].st = "deleting" /\ api[o].st = "live" => ~api[o].finalizer

\* What a reconcile under way can rely on although it read the cache before its
\* first call: its version is no newer than the cache, and if it is the cache's,
\* the cached object is still in the state that it chose its steps by; children
\* are applied for guarded objects only; those of an object that is finalized are
\* gone once they were deleted.
WorkFollows ==
    \A p \in Processes : work[p] # Idle =>
        LET o == work[p].obj
            step == work[p].step
        IN  /\ work[p].version <= cache[p][o].version
            /\ work[p].version = cache[p][o].version =>
                 /\ step = "addFinalizer" => cache[p][o].st = "live"
                 /\ step \in Finalizing => cache[p][o].st = "deleting"
            /\ step \in {"applyDeployment", "applyService"} => Guarded(o)
            /\ step \in Finalizing /\ api[o].st = "live" => ~api[o].finalizer
            /\ step \in {"deleteService", "removeFinalizer"} => deployment[childName(o)] # o
            /\ step = "removeFinalizer" => service[childName(o)] # o

\* The inductive invariant.  ChildrenAreGuarded alone is not: a reconcile that
\* releases the finalizer looks at neither child, and one that applies a child
\* looks at no finalizer.
IInv ==
    /\ TypeOK
    /\ NoneOfAbsent
    /\ OwnName
    /\ CacheFollows
    /\ WorkFollows
    /\ ChildrenAreGuarded

-----------------------------------------------------------------------------
(* Types *)

\* childName gives the name of a child.
LEMMA ChildNames == \A o \in Objs : childName(o) \in Children
BY DEF Children

\* Child events queue AggregatedAPIs only.
LEMMA NotifyType ==
    ASSUME pending \in [Processes -> SUBSET Objs],
           NEW before \in Objs \union {None}, NEW after \in Objs \union {None},
           Notify(before, after)
    PROVE  pending' \in [Processes -> SUBSET Objs]
BY DEF Notify

\* What a reconcile that is not idle looks like.
LEMMA WorkType ==
    ASSUME TypeOK, NEW p \in Processes, work[p] # Idle
    PROVE  /\ work[p] \in Pass
           /\ work[p].obj \in Objs /\ work[p].step \in Steps /\ work[p].version \in Nat
           /\ childName(work[p].obj) \in Children
BY ChildNames DEF TypeOK, Pass

\* Users and the API server keep the types (the watches of SetupWithManager).
LEMMA UserTypes ==
    ASSUME TypeOK, NEW o \in Objs, NEW n \in Children,
           Create(o) \/ Delete(o) \/ DeleteDeployment(n) \/ DeleteService(n)
    PROVE  TypeOK'
<1>1. changes' \in 0 .. MaxChanges
  BY BoundsAssumption DEF TypeOK, Create, Delete, DeleteDeployment, DeleteService, Change
<1>2. CASE Create(o) \/ Delete(o)
  <2>1. api' \in [Objs -> Versioned]
    BY <1>2 DEF TypeOK, Create, Delete, Versioned
  <2> QED
    BY <1>1, <1>2, <2>1 DEF TypeOK, Create, Delete
<1>3. CASE DeleteDeployment(n)
  <2>1. pending' \in [Processes -> SUBSET Objs]
    BY <1>3, NotifyType DEF TypeOK, DeleteDeployment
  <2> QED
    BY <1>1, <1>3, <2>1 DEF TypeOK, DeleteDeployment
<1>4. CASE DeleteService(n)
  <2>1. pending' \in [Processes -> SUBSET Objs]
    BY <1>4, NotifyType DEF TypeOK, DeleteService
  <2> QED
    BY <1>1, <1>4, <2>1 DEF TypeOK, DeleteService
<1> QED
  BY <1>2, <1>3, <1>4

\* The watches and the beginning of a reconcile keep the types.
LEMMA QueueTypes ==
    ASSUME TypeOK, NEW p \in Processes, NEW o \in Objs,
           Sync(p, o) \/ Deliver(p, o) \/ Begin(p, o)
    PROVE  TypeOK'
<1>1. CASE Sync(p, o)
  <2>1. cache' \in [Processes -> [Objs -> Versioned]]
    BY <1>1 DEF TypeOK, Sync
  <2> QED
    BY <1>1, <2>1 DEF TypeOK, Sync
<1>2. CASE Deliver(p, o)
  BY <1>2 DEF TypeOK, Deliver
<1>3. CASE ReconcileNothing(p, o)
  BY <1>3 DEF TypeOK, ReconcileNothing, Dequeue
<1>4. CASE ReconcileBegins(p, o)
  <2>1. cache[p][o] \in Versioned
    BY DEF TypeOK
  <2>2. [obj |-> o, step |-> FirstStep(cache[p][o]), version |-> cache[p][o].version] \in Pass
    BY <2>1 DEF FirstStep, Pass, Steps, Versioned
  <2>3. work' \in [Processes -> Pass \union {Idle}]
    BY <1>4, <2>2 DEF TypeOK, ReconcileBegins
  <2> QED
    BY <1>4, <2>3 DEF TypeOK, ReconcileBegins, Dequeue
<1> QED
  BY <1>1, <1>2, <1>3, <1>4 DEF Begin

\* The next call of the same reconcile, or none.
LEMMA WorkMoves ==
    ASSUME TypeOK, NEW p \in Processes,
           \/ Return(p)
           \/ work[p] # Idle /\ \E step \in Steps : Goto(p, step)
    PROVE  work' \in [Processes -> Pass \union {Idle}]
<1>1. CASE Return(p)
  BY <1>1 DEF TypeOK, Return
<1>2. ASSUME work[p] # Idle, NEW step \in Steps, Goto(p, step)
      PROVE  work' \in [Processes -> Pass \union {Idle}]
  <2>1. work[p] \in Pass
    BY <1>2, WorkType
  <2>2. [work[p] EXCEPT !.step = step] \in Pass
    BY <2>1 DEF Pass
  <2> QED
    BY <1>2, <2>2 DEF TypeOK, Goto
<1> QED
  BY <1>1, <1>2

\* The calls of reconcile and finalize keep the types.
LEMMA CallTypes ==
    ASSUME TypeOK, NEW p \in Processes,
           \/ AddFinalizer(p) \/ ApplyDeployment(p) \/ ApplyService(p)
           \/ FinalizeDeployment(p) \/ FinalizeService(p) \/ RemoveFinalizer(p)
    PROVE  TypeOK'
<1>1. work[p] # Idle
  BY DEF AddFinalizer, ApplyDeployment, ApplyService, FinalizeDeployment, FinalizeService,
         RemoveFinalizer, At
<1> DEFINE o == work[p].obj
<1>2. o \in Objs /\ childName(o) \in Children
  BY <1>1, WorkType
<1>3. work' \in [Processes -> Pass \union {Idle}]
  BY <1>1, WorkMoves DEF AddFinalizer, ApplyDeployment, ApplyService, FinalizeDeployment,
     FinalizeService, RemoveFinalizer, Steps
<1> HIDE DEF o
<1>4. CASE AddFinalizer(p) \/ RemoveFinalizer(p)
  <2>1. api' \in [Objs -> Versioned]
    BY <1>2, <1>4, SMTT(60) DEF TypeOK, AddFinalizer, RemoveFinalizer, Versioned, o
  <2> QED
    BY <1>3, <1>4, <2>1 DEF TypeOK, AddFinalizer, RemoveFinalizer
<1>5. CASE ApplyDeployment(p) \/ FinalizeDeployment(p)
  <2>1. pending' \in [Processes -> SUBSET Objs]
    BY <1>2, <1>5, NotifyType DEF TypeOK, ApplyDeployment, FinalizeDeployment, o
  <2>2. deployment' \in [Children -> Objs \union {None}]
    BY <1>2, <1>5 DEF TypeOK, ApplyDeployment, FinalizeDeployment, o
  <2> QED
    BY <1>3, <1>5, <2>1, <2>2 DEF TypeOK, ApplyDeployment, FinalizeDeployment
<1>6. CASE ApplyService(p) \/ FinalizeService(p)
  <2>1. pending' \in [Processes -> SUBSET Objs]
    BY <1>2, <1>6, NotifyType DEF TypeOK, ApplyService, FinalizeService, o
  <2>2. service' \in [Children -> Objs \union {None}]
    BY <1>2, <1>6 DEF TypeOK, ApplyService, FinalizeService, o
  <2> QED
    BY <1>3, <1>6, <2>1, <2>2 DEF TypeOK, ApplyService, FinalizeService
<1> QED
  BY <1>4, <1>5, <1>6

\* A reconcile that fails or dies keeps the types.
LEMMA EndTypes ==
    ASSUME TypeOK, NEW p \in Processes, CallRefused(p) \/ CallFails(p) \/ Crash(p)
    PROVE  TypeOK'
<1>1. work' \in [Processes -> Pass \union {Idle}]
  BY WorkMoves DEF CallRefused, CallFails, Crash
<1>2. faults' \in 0 .. MaxFaults
  BY BoundsAssumption DEF TypeOK, CallRefused, CallFails, Crash, Fault
<1>3. CASE CallRefused(p) \/ CallFails(p)
  <2> DEFINE o == work[p].obj
  <2>1. o \in Objs
    BY <1>3, WorkType DEF CallRefused, CallFails
  <2>2. queue' = [queue EXCEPT ![p] = @ \union {o}]
    BY <1>3 DEF CallRefused, CallFails, Retry
  <2> HIDE DEF o
  <2>3. queue' \in [Processes -> SUBSET Objs]
    BY <2>1, <2>2 DEF TypeOK
  <2> QED
    BY <1>1, <1>2, <1>3, <2>3 DEF TypeOK, CallRefused, CallFails
<1>4. CASE Crash(p)
  BY <1>1, <1>2, <1>4 DEF TypeOK, Crash
<1> QED
  BY <1>3, <1>4

\* Every step of Operator keeps the types.
LEMMA TypeStep == ASSUME TypeOK, [Next]_vars PROVE TypeOK'
<1>1. CASE UNCHANGED vars
  BY <1>1 DEF TypeOK, vars
<1>2. ASSUME NEW o \in Objs, Create(o) \/ Delete(o)
      PROVE  TypeOK'
  BY <1>2, ChildNames, UserTypes
<1>3. ASSUME NEW n \in Children, DeleteDeployment(n) \/ DeleteService(n)
      PROVE  TypeOK'
  BY <1>3, UserTypes DEF Children
<1> QED
  BY <1>1, <1>2, <1>3, QueueTypes, CallTypes, EndTypes DEF Next, Reconcile

-----------------------------------------------------------------------------
(* The invariant, action by action *)

\* The types the steps below reason about, without the sets around them.
LEMMA Fields ==
    ASSUME TypeOK
    PROVE  /\ \A o \in Objs : api[o] \in Versioned
           /\ \A p \in Processes, o \in Objs : cache[p][o] \in Versioned
           /\ \A n \in Children : deployment[n] \in Objs \union {None}
           /\ \A n \in Children : service[n] \in Objs \union {None}
BY DEF TypeOK

\* Users create and delete AggregatedAPIs: an object goes only without a finalizer.
LEMMA UserStep ==
    ASSUME IInv, NEW o \in Objs, Create(o) \/ Delete(o)
    PROVE  IInv'
<1>1. TypeOK'
  BY ChildNames, UserTypes DEF IInv
<1>2. /\ TypeOK /\ NoneOfAbsent /\ OwnName /\ CacheFollows /\ WorkFollows /\ ChildrenAreGuarded
      /\ UNCHANGED <<cache, work, deployment, service>>
  BY DEF IInv, Create, Delete
<1>3. /\ \A q \in Objs \ {o} : api'[q] = api[q]
      /\ api'[o].version = api[o].version + 1
      /\ api'[o].finalizer = api[o].finalizer
      /\ \/ api[o].st = "absent" /\ api'[o].st = "live"
         \/ api[o].st = "live" /\ api[o].finalizer /\ api'[o].st = "deleting"
         \/ api[o].st = "live" /\ ~api[o].finalizer /\ api'[o].st = "absent"
  BY <1>2, Fields DEF Create, Delete, TypeOK, Versioned
<1>4. NoneOfAbsent'
  BY <1>2, <1>3 DEF NoneOfAbsent
<1>5. \A q \in Objs : Guarded(q) => Guarded(q)'
  BY <1>2, <1>3 DEF Guarded
<1>6. OwnName'
  BY <1>2 DEF OwnName
<1>7. ChildrenAreGuarded'
  <2>1. ASSUME NEW n \in Children, NEW q \in {deployment[n], service[n]} \ {None}
        PROVE  Guarded(q)'
    <3>1. q \in Objs
      BY <1>2, Fields
    <3>2. Guarded(q)
      BY <1>2 DEF ChildrenAreGuarded, Guarded
    <3> QED
      BY <3>1, <3>2, <1>5
  <2> QED
    BY <1>2, <2>1 DEF ChildrenAreGuarded, Guarded
<1>8. CacheFollows'
  <2> SUFFICES ASSUME NEW p \in Processes, NEW q \in Objs
               PROVE  /\ cache[p][q].version <= api'[q].version
                      /\ cache[p][q].version = api'[q].version => cache[p][q] = api'[q]
                      /\ cache[p][q].st = "live" /\ cache[p][q].finalizer => Guarded(q)'
                      /\ cache[p][q].st = "deleting" /\ api'[q].st = "live" => ~api'[q].finalizer
    BY <1>2 DEF CacheFollows
  <2>1. cache[p][q].version \in Nat /\ api[q].version \in Nat
    BY <1>2, Fields DEF Versioned
  <2> QED
    BY <1>2, <1>3, <1>5, <2>1 DEF CacheFollows, NoneOfAbsent
<1>9. WorkFollows'
  <2> SUFFICES ASSUME NEW p \in Processes, work[p] # Idle, WorkFollows
               PROVE  LET q == work[p].obj IN
                      /\ work[p].step \in {"applyDeployment", "applyService"} => Guarded(q)'
                      /\ work[p].step \in Finalizing /\ api'[q].st = "live" => ~api'[q].finalizer
    BY <1>2 DEF WorkFollows
  <2>1. work[p].obj \in Objs
    BY <1>2, WorkType
  <2> QED
    BY <1>2, <1>3, <1>5, <2>1 DEF WorkFollows, NoneOfAbsent
<1> QED
  BY <1>1, <1>4, <1>6, <1>7, <1>8, <1>9 DEF IInv

\* A child goes, by a user's hand or by finalize.
LEMMA ChildGoes ==
    ASSUME IInv, TypeOK',
           UNCHANGED <<api, cache>>,
           \A n \in Children : deployment'[n] \in {deployment[n], None},
           \A n \in Children : service'[n] \in {service[n], None}
    PROVE  NoneOfAbsent' /\ OwnName' /\ CacheFollows' /\ ChildrenAreGuarded'
<1>1. NoneOfAbsent' /\ CacheFollows'
  BY DEF IInv, NoneOfAbsent, CacheFollows, Guarded
<1>2. OwnName' /\ ChildrenAreGuarded'
  BY DEF IInv, OwnName, ChildrenAreGuarded
<1> QED
  BY <1>1, <1>2

\* Users remove children.
LEMMA UserChildStep ==
    ASSUME IInv, NEW n \in Children, DeleteDeployment(n) \/ DeleteService(n)
    PROVE  IInv'
<1>1. TypeOK'
  BY UserTypes DEF IInv, Children
<1>2. /\ UNCHANGED <<api, cache, work>>
      /\ \A m \in Children : deployment'[m] \in {deployment[m], None}
      /\ \A m \in Children : service'[m] \in {service[m], None}
  BY DEF DeleteDeployment, DeleteService, IInv, TypeOK
<1>3. WorkFollows'
  <2> SUFFICES ASSUME NEW p \in Processes, work[p] # Idle, WorkFollows
               PROVE  LET q == work[p].obj IN
                      /\ work[p].step \in {"deleteService", "removeFinalizer"}
                           => deployment'[childName(q)] # q
                      /\ work[p].step = "removeFinalizer" => service'[childName(q)] # q
    BY <1>2 DEF WorkFollows, IInv, Guarded
  <2>1. work[p].obj \in Objs /\ childName(work[p].obj) \in Children
    BY WorkType DEF IInv
  <2> QED
    BY <1>2, <2>1, NoneAssumption DEF WorkFollows
<1> QED
  BY <1>1, <1>2, <1>3, ChildGoes DEF IInv

\* The cache catches up, or the event of a child arrives.
LEMMA WatchStep ==
    ASSUME IInv, NEW p \in Processes, NEW o \in Objs, Sync(p, o) \/ Deliver(p, o)
    PROVE  IInv'
<1>1. TypeOK' /\ TypeOK
  BY QueueTypes DEF IInv
<1>2. UNCHANGED <<api, work, deployment, service>>
  BY DEF Sync, Deliver
<1>3. NoneOfAbsent' /\ OwnName' /\ ChildrenAreGuarded'
  BY <1>2 DEF IInv, NoneOfAbsent, OwnName, ChildrenAreGuarded
<1>4. \A q \in Processes, r \in Objs : cache'[q][r] = cache[q][r] \/ cache'[q][r] = api[r]
  BY <1>1 DEF Sync, Deliver, TypeOK
<1>5. CacheFollows'
  <2> SUFFICES ASSUME NEW q \in Processes, NEW r \in Objs
               PROVE  /\ cache'[q][r].version <= api[r].version
                      /\ cache'[q][r].version = api[r].version => cache'[q][r] = api[r]
                      /\ cache'[q][r].st = "live" /\ cache'[q][r].finalizer => Guarded(r)
                      /\ cache'[q][r].st = "deleting" /\ api[r].st = "live" => ~api[r].finalizer
    BY <1>2 DEF CacheFollows, Guarded
  <2>1. api[r].version \in Nat
    BY <1>1, Fields DEF Versioned
  <2> QED
    BY <1>4, <2>1 DEF IInv, CacheFollows, Guarded
<1>6. WorkFollows'
  <2> SUFFICES ASSUME NEW q \in Processes, work[q] # Idle, WorkFollows, CacheFollows
               PROVE  LET r == work[q].obj IN
                      /\ work[q].version <= cache'[q][r].version
                      /\ work[q].version = cache'[q][r].version =>
                           /\ work[q].step = "addFinalizer" => cache'[q][r].st = "live"
                           /\ work[q].step \in Finalizing => cache'[q][r].st = "deleting"
    BY <1>2 DEF WorkFollows, IInv, Guarded
  <2> DEFINE r == work[q].obj
  <2>1. r \in Objs /\ work[q].version \in Nat
    BY <1>1, WorkType
  <2>2. cache[q][r].version \in Nat /\ api[r].version \in Nat
    BY <1>1, <2>1, Fields DEF Versioned
  <2>3. /\ work[q].version <= cache[q][r].version
        /\ work[q].version = cache[q][r].version =>
             /\ work[q].step = "addFinalizer" => cache[q][r].st = "live"
             /\ work[q].step \in Finalizing => cache[q][r].st = "deleting"
    BY DEF WorkFollows
  <2>4. /\ cache[q][r].version <= api[r].version
        /\ cache[q][r].version = api[r].version => cache[q][r] = api[r]
        /\ cache'[q][r] = cache[q][r] \/ cache'[q][r] = api[r]
    BY <1>4, <2>1 DEF CacheFollows
  <2> HIDE DEF r
  <2>5. /\ work[q].version <= cache'[q][r].version
        /\ work[q].version = cache'[q][r].version =>
             /\ work[q].step = "addFinalizer" => cache'[q][r].st = "live"
             /\ work[q].step \in Finalizing => cache'[q][r].st = "deleting"
    BY <2>1, <2>2, <2>3, <2>4
  <2> QED
    BY <2>5 DEF r
<1> QED
  BY <1>1, <1>3, <1>5, <1>6 DEF IInv

\* A reconcile ends without a change, and for any reason: nothing relies on it.
LEMMA IdleFollows ==
    ASSUME IInv, NEW p \in Processes, Return(p),
           UNCHANGED <<api, deployment, service>>,
           \A q \in Processes \ {p} : cache'[q] = cache[q]
    PROVE  WorkFollows'
<1>1. \A q \in Processes \ {p} : work'[q] = work[q]
  BY DEF Return, IInv, TypeOK
<1>2. work'[p] = Idle
  BY DEF Return, IInv, TypeOK
<1> QED
  BY <1>1, <1>2 DEF IInv, WorkFollows, Guarded

\* A reconcile begins: what it relies on is what the cache says.
LEMMA BeginStep ==
    ASSUME IInv, NEW p \in Processes, NEW o \in Objs, Begin(p, o)
    PROVE  IInv'
<1>1. TypeOK' /\ TypeOK
  BY QueueTypes DEF IInv
<1>2. UNCHANGED <<api, cache, deployment, service>>
  BY DEF Begin, ReconcileNothing, ReconcileBegins, Dequeue
<1>3. NoneOfAbsent' /\ OwnName' /\ CacheFollows' /\ ChildrenAreGuarded'
  BY <1>2 DEF IInv, NoneOfAbsent, OwnName, CacheFollows, ChildrenAreGuarded, Guarded
<1>4. CASE ReconcileNothing(p, o)
  <2>1. WorkFollows'
    BY <1>2, <1>4 DEF IInv, WorkFollows, Guarded, ReconcileNothing
  <2> QED
    BY <1>1, <1>3, <2>1 DEF IInv
<1>5. CASE ReconcileBegins(p, o)
  <2>1. \A q \in Processes \ {p} : work'[q] = work[q]
    BY <1>1, <1>5 DEF ReconcileBegins, TypeOK
  <2>2. /\ work'[p].obj = o
        /\ work'[p].step = FirstStep(cache[p][o])
        /\ work'[p].version = cache[p][o].version
    BY <1>1, <1>5 DEF ReconcileBegins, TypeOK
  <2>3. cache[p][o].version \in Nat
    BY <1>1, Fields DEF Versioned
  <2>4. /\ cache[p][o].st = "live" /\ cache[p][o].finalizer => Guarded(o)
        /\ cache[p][o].st = "deleting" /\ api[o].st = "live" => ~api[o].finalizer
    BY DEF IInv, CacheFollows
  <2>5. cache[p][o].st \in {"live", "deleting"}
    BY <1>5 DEF ReconcileBegins
  <2>6. /\ FirstStep(cache[p][o]) = "addFinalizer" => cache[p][o].st = "live"
        /\ FirstStep(cache[p][o]) \in Finalizing => cache[p][o].st = "deleting"
        /\ FirstStep(cache[p][o]) \in {"applyDeployment", "applyService"} => Guarded(o)
        /\ FirstStep(cache[p][o]) \notin {"deleteService", "removeFinalizer"}
    BY <2>4, <2>5 DEF FirstStep, Finalizing
  <2>7. WorkFollows'
    BY <1>2, <2>1, <2>2, <2>3, <2>4, <2>6 DEF IInv, WorkFollows, Guarded
  <2> QED
    BY <1>1, <1>3, <2>7 DEF IInv
<1> QED
  BY <1>4, <1>5 DEF Begin

\* A call is refused or fails, or the process dies and reads everything anew.
LEMMA EndStep ==
    ASSUME IInv, NEW p \in Processes, CallRefused(p) \/ CallFails(p) \/ Crash(p)
    PROVE  IInv'
<1>1. TypeOK' /\ TypeOK
  BY EndTypes DEF IInv
<1>2. Return(p) /\ UNCHANGED <<api, deployment, service>>
  BY DEF CallRefused, CallFails, Crash
<1>3. /\ \A q \in Processes \ {p} : cache'[q] = cache[q]
      /\ cache'[p] = cache[p] \/ cache'[p] = api
  BY <1>1 DEF CallRefused, CallFails, Crash, TypeOK
<1>4. WorkFollows'
  BY <1>2, <1>3, IdleFollows
<1>5. NoneOfAbsent' /\ OwnName' /\ ChildrenAreGuarded'
  BY <1>2 DEF IInv, NoneOfAbsent, OwnName, ChildrenAreGuarded
<1>6. CacheFollows'
  <2> SUFFICES ASSUME NEW q \in Processes, NEW r \in Objs
               PROVE  /\ cache'[q][r].version <= api[r].version
                      /\ cache'[q][r].version = api[r].version => cache'[q][r] = api[r]
                      /\ cache'[q][r].st = "live" /\ cache'[q][r].finalizer => Guarded(r)
                      /\ cache'[q][r].st = "deleting" /\ api[r].st = "live" => ~api[r].finalizer
    BY <1>2 DEF CacheFollows, Guarded
  <2>1. api[r].version \in Nat
    BY <1>1, Fields DEF Versioned
  <2> QED
    BY <1>3, <2>1 DEF IInv, CacheFollows, Guarded
<1> QED
  BY <1>1, <1>4, <1>5, <1>6 DEF IInv

\* The finalizer is put on an object that lives: the version it was read with is the
\* API server's, so the cache is not behind.
LEMMA AddFinalizerStep ==
    ASSUME IInv, SingleProcess, NEW p \in Processes, AddFinalizer(p)
    PROVE  IInv'
<1>1. TypeOK' /\ TypeOK
  BY CallTypes DEF IInv
<1>2. work[p] # Idle /\ work[p].step = "addFinalizer"
  BY DEF AddFinalizer, At
<1>3. /\ work[p].version \in Nat /\ work[p] \in Pass
      /\ work[p].obj \in Objs
  BY <1>1, <1>2, WorkType
<1>o. PICK o \in Objs : o = work[p].obj
  BY <1>3
<1>4. api[o].version = work[p].version /\ api[o].st # "absent"
  BY <1>o, <1>2 DEF AddFinalizer, Accepted
<1>5. api[o].version \in Nat /\ cache[p][o].version \in Nat
  BY <1>o, <1>1, <1>3, Fields DEF Versioned
<1>6. cache[p][o] = api[o] /\ api[o].st = "live"
  BY <1>o, <1>2, <1>3, <1>4, <1>5 DEF IInv, CacheFollows, WorkFollows
<1>7. /\ UNCHANGED <<cache, deployment, service>>
      /\ \A q \in Objs \ {o} : api'[q] = api[q]
      /\ api'[o].version = api[o].version + 1
      /\ api'[o].finalizer
      /\ api'[o].st = "live"
  BY <1>o, <1>1, <1>3, <1>6 DEF AddFinalizer, TypeOK, Versioned
<1>8. work'[p].obj = o /\ work'[p].step = "applyDeployment" /\ work'[p].version = work[p].version
  BY <1>o, <1>1, <1>3 DEF AddFinalizer, Goto, TypeOK, Pass
<1>9. \A q \in Objs : Guarded(q) => Guarded(q)'
  BY <1>7 DEF Guarded
<1>10. NoneOfAbsent' /\ OwnName'
  BY <1>7 DEF IInv, NoneOfAbsent, OwnName
<1>11. ChildrenAreGuarded'
  BY <1>1, <1>7, <1>9, Fields DEF IInv, ChildrenAreGuarded, Guarded
<1>12. CacheFollows'
  <2> SUFFICES ASSUME NEW q \in Objs
               PROVE  /\ cache[p][q].version <= api'[q].version
                      /\ cache[p][q].version = api'[q].version => cache[p][q] = api'[q]
                      /\ cache[p][q].st = "live" /\ cache[p][q].finalizer => Guarded(q)'
                      /\ cache[p][q].st = "deleting" /\ api'[q].st = "live" => ~api'[q].finalizer
    BY <1>7 DEF CacheFollows, SingleProcess
  <2> QED
    BY <1>3, <1>5, <1>6, <1>7, <1>9 DEF IInv, CacheFollows
<1>13. WorkFollows'
  <2>1. Guarded(o)'
    BY <1>7 DEF Guarded
  <2>2. work[p].version <= cache[p][o].version
    BY <1>4, <1>5, <1>6
  <2> QED
    BY <1>7, <1>8, <2>1, <2>2 DEF WorkFollows, SingleProcess, Finalizing
<1> QED
  BY <1>1, <1>10, <1>11, <1>12, <1>13 DEF IInv

\* Children are applied for an object that is guarded at that moment.
LEMMA ApplyStep ==
    ASSUME IInv, SingleProcess, NEW p \in Processes, ApplyDeployment(p) \/ ApplyService(p)
    PROVE  IInv'
<1>1. TypeOK' /\ TypeOK
  BY CallTypes DEF IInv
<1>2. work[p] # Idle /\ work[p].step \in {"applyDeployment", "applyService"}
  BY DEF ApplyDeployment, ApplyService, At
<1>3. work[p].obj \in Objs /\ work[p] \in Pass /\ childName(work[p].obj) \in Children
  BY <1>1, <1>2, WorkType
<1>o. PICK o \in Objs : o = work[p].obj
  BY <1>3
<1>4. Guarded(o) /\ work[p].version <= cache[p][o].version
  BY <1>o, <1>2 DEF IInv, WorkFollows
<1>5. /\ UNCHANGED <<api, cache>>
      /\ \A n \in Children :
           deployment'[n] = deployment[n] \/ (n = childName(o) /\ deployment'[n] = o)
      /\ \A n \in Children :
           service'[n] = service[n] \/ (n = childName(o) /\ service'[n] = o)
  BY <1>o, <1>1 DEF ApplyDeployment, ApplyService, TypeOK
<1>6. \/ work'[p] = Idle
      \/ work'[p].obj = o /\ work'[p].step = "applyService" /\ work'[p].version = work[p].version
  BY <1>o, <1>1, <1>3 DEF ApplyDeployment, ApplyService, Goto, Return, TypeOK, Pass
<1>7. NoneOfAbsent' /\ CacheFollows'
  BY <1>o, <1>5 DEF IInv, NoneOfAbsent, CacheFollows, Guarded
<1>8. OwnName' /\ ChildrenAreGuarded'
  BY <1>o, <1>4, <1>5 DEF IInv, OwnName, ChildrenAreGuarded, Guarded
<1>9. WorkFollows'
  BY <1>4, <1>5, <1>6 DEF WorkFollows, SingleProcess, Finalizing, Guarded
<1> QED
  BY <1>1, <1>7, <1>8, <1>9 DEF IInv

\* finalize deletes the children, one after the other.
LEMMA FinalizeStep ==
    ASSUME IInv, SingleProcess, NEW p \in Processes, FinalizeDeployment(p) \/ FinalizeService(p)
    PROVE  IInv'
<1>1. TypeOK' /\ TypeOK
  BY CallTypes DEF IInv
<1>2. work[p] # Idle /\ work[p].step \in {"deleteDeployment", "deleteService"}
  BY DEF FinalizeDeployment, FinalizeService, At
<1>3. work[p].obj \in Objs /\ work[p] \in Pass /\ childName(work[p].obj) \in Children
  BY <1>1, <1>2, WorkType
<1>o. PICK o \in Objs : o = work[p].obj
  BY <1>3
<1>4. /\ work[p].version <= cache[p][o].version
      /\ work[p].version = cache[p][o].version => cache[p][o].st = "deleting"
      /\ api[o].st = "live" => ~api[o].finalizer
      /\ work[p].step = "deleteService" => deployment[childName(o)] # o
  BY <1>o, <1>2 DEF IInv, WorkFollows, Finalizing
<1>5. /\ UNCHANGED <<api, cache>>
      /\ \A n \in Children : deployment'[n] \in {deployment[n], None}
      /\ \A n \in Children : service'[n] \in {service[n], None}
  BY <1>o, <1>1 DEF FinalizeDeployment, FinalizeService, TypeOK
<1>6. /\ work'[p].obj = o /\ work'[p].version = work[p].version
      /\ \/ FinalizeDeployment(p) /\ work'[p].step = "deleteService" /\ deployment'[childName(o)] = None
         \/ FinalizeService(p) /\ work'[p].step = "removeFinalizer"
              /\ deployment'[childName(o)] = deployment[childName(o)]
              /\ service'[childName(o)] = None
  BY <1>o, <1>1, <1>3 DEF FinalizeDeployment, FinalizeService, Goto, TypeOK, Pass
<1>7. FinalizeService(p) => work[p].step = "deleteService"
  BY DEF FinalizeService, At
<1>8. WorkFollows'
  BY <1>o, <1>3, <1>4, <1>5, <1>6, <1>7, NoneAssumption DEF WorkFollows, SingleProcess, Finalizing, Guarded
<1> QED
  BY <1>1, <1>5, <1>8, ChildGoes DEF IInv

\* The finalizer goes when the children are gone.
LEMMA RemoveFinalizerStep ==
    ASSUME IInv, SingleProcess, NEW p \in Processes, RemoveFinalizer(p)
    PROVE  IInv'
<1>1. TypeOK' /\ TypeOK
  BY CallTypes DEF IInv
<1>2. work[p] # Idle /\ work[p].step = "removeFinalizer"
  BY DEF RemoveFinalizer, At
<1>3. /\ work[p].version \in Nat
      /\ work[p].obj \in Objs /\ childName(work[p].obj) \in Children
  BY <1>1, <1>2, WorkType
<1>o. PICK o \in Objs : o = work[p].obj
  BY <1>3
<1>4. api[o].version = work[p].version
  BY <1>o, <1>2 DEF RemoveFinalizer, Accepted
<1>5. api[o].version \in Nat /\ cache[p][o].version \in Nat
  BY <1>o, <1>1, <1>3, Fields DEF Versioned
<1>6. cache[p][o] = api[o] /\ api[o].st = "deleting"
  BY <1>o, <1>2, <1>3, <1>4, <1>5 DEF IInv, CacheFollows, WorkFollows, Finalizing
<1>7. /\ UNCHANGED <<cache, deployment, service>>
      /\ \A q \in Objs \ {o} : api'[q] = api[q]
      /\ api'[o].version = api[o].version + 1
      /\ ~api'[o].finalizer
      /\ api'[o].st = "absent"
  BY <1>o, <1>1, <1>3 DEF RemoveFinalizer, TypeOK, Versioned
<1>8. work'[p] = Idle
  BY <1>o, <1>1 DEF RemoveFinalizer, Return, TypeOK
<1>9. deployment[childName(o)] # o /\ service[childName(o)] # o
  BY <1>o, <1>2 DEF IInv, WorkFollows
<1>10. NoneOfAbsent' /\ OwnName'
  BY <1>7 DEF IInv, NoneOfAbsent, OwnName
<1>11. ChildrenAreGuarded'
  <2>1. \A n \in Children : o \notin {deployment[n], service[n]}
    BY <1>3, <1>9, NoneAssumption DEF IInv, OwnName
  <2> QED
    BY <1>1, <1>7, <2>1, Fields DEF IInv, ChildrenAreGuarded
<1>12. CacheFollows'
  <2> SUFFICES ASSUME NEW q \in Objs
               PROVE  /\ cache[p][q].version <= api'[q].version
                      /\ cache[p][q].version = api'[q].version => cache[p][q] = api'[q]
                      /\ cache[p][q].st = "live" /\ cache[p][q].finalizer => Guarded(q)'
                      /\ cache[p][q].st = "deleting" /\ api'[q].st = "live" => ~api'[q].finalizer
    BY <1>7 DEF CacheFollows, SingleProcess
  <2> QED
    BY <1>3, <1>5, <1>6, <1>7 DEF IInv, CacheFollows, Guarded
<1>13. WorkFollows'
  BY <1>8 DEF WorkFollows, SingleProcess
<1> QED
  BY <1>1, <1>10, <1>11, <1>12, <1>13 DEF IInv

\* No object, no child and no process has done anything yet.
LEMMA InitInv == Init => IInv
<1> SUFFICES ASSUME Init PROVE IInv
  OBVIOUS
<1>1. /\ \A o \in Objs : api[o] = Absent
      /\ \A p \in Processes, o \in Objs : cache[p][o] = Absent
      /\ \A p \in Processes : work[p] = Idle
      /\ \A n \in Children : deployment[n] = None /\ service[n] = None
  BY DEF Init
<1>2. Absent \in Versioned
  BY DEF Absent, Versioned
<1>3. TypeOK
  <2>1. api \in [Objs -> Versioned] /\ cache \in [Processes -> [Objs -> Versioned]]
    BY <1>2 DEF Init
  <2>2. changes \in 0 .. MaxChanges /\ faults \in 0 .. MaxFaults
    BY BoundsAssumption DEF Init
  <2> QED
    BY <2>1, <2>2 DEF Init, TypeOK
<1> QED
  BY <1>1, <1>3 DEF IInv, NoneOfAbsent, OwnName, CacheFollows, WorkFollows, ChildrenAreGuarded,
     Absent

\* Every step of a single process and of everybody else keeps the invariant.
LEMMA StepInv == ASSUME IInv, SingleProcess, [Next]_vars PROVE IInv'
<1>1. CASE UNCHANGED vars
  <2>1. TypeOK'
    BY <1>1, TypeStep DEF IInv
  <2> QED
    BY <1>1, <2>1 DEF vars, IInv, NoneOfAbsent, OwnName, CacheFollows, WorkFollows,
       ChildrenAreGuarded, Guarded
<1>2. ASSUME NEW p \in Processes, Reconcile(p)
      PROVE  IInv'
  BY <1>2, BeginStep, AddFinalizerStep, ApplyStep, FinalizeStep, RemoveFinalizerStep, EndStep
     DEF Reconcile
<1> QED
  BY <1>1, <1>2, UserStep, UserChildStep, WatchStep, EndStep DEF Next

-----------------------------------------------------------------------------
(* Theorems *)

\* The variables of Operator keep their types, for any number of processes
\* (controller.go of pkg/controllers/operator/aggregatedapi).
THEOREM TypeCorrect == Spec => []TypeOK
<1>1. Init => TypeOK
  BY InitInv DEF IInv
<1> QED
  BY <1>1, TypeStep, PTL DEF Spec

\* The inductive invariant holds as long as one process runs.
THEOREM Invariance == ASSUME SingleProcess PROVE Spec => []IInv
<1>1. IInv /\ [Next]_vars => IInv'
  BY StepInv
<1> QED
  BY <1>1, InitInv, PTL DEF Spec

\* With one operator process no child of an AggregatedAPI is ever orphaned,
\* whatever users do, however far the cache lags, wherever a call fails or the
\* process dies, also when names of children collide (reconcile and finalize).
THEOREM ChildrenGuarded == ASSUME SingleProcess PROVE Spec => []ChildrenAreGuarded
<1>1. IInv => ChildrenAreGuarded
  BY DEF IInv
<1> QED
  BY <1>1, Invariance, PTL

\* With one operator process and names of children that do not collide, the operator
\* never takes a child from an AggregatedAPI that is not being deleted: neither a
\* reconcile for another one, nor a finalize that goes on, from a stale cache, after
\* the object was created anew.
THEOREM LiveChildrenKept ==
    ASSUME SingleProcess, NamesDiffer PROVE Spec => LiveKeepsChildren
<1> DEFINE Keeps == \A p \in Processes, o \in Objs : Reconcile(p) /\ api[o].st = "live" =>
                      /\ deployment[childName(o)] = o => deployment'[childName(o)] = o
                      /\ service[childName(o)] = o => service'[childName(o)] = o
<1>1. ASSUME IInv PROVE Keeps
  <2> SUFFICES ASSUME NEW p \in Processes, NEW o \in Objs, Reconcile(p), api[o].st = "live"
               PROVE  /\ deployment[childName(o)] = o => deployment'[childName(o)] = o
                      /\ service[childName(o)] = o => service'[childName(o)] = o
    OBVIOUS
  <2>1. childName(o) \in Children /\ TypeOK
    BY <1>1, ChildNames DEF IInv
  <2>2. \/ UNCHANGED <<deployment, service>>
        \/ ApplyDeployment(p) \/ ApplyService(p)
        \/ FinalizeDeployment(p) \/ FinalizeService(p)
    BY DEF Reconcile, Begin, ReconcileNothing, ReconcileBegins, Dequeue, AddFinalizer,
           RemoveFinalizer, CallRefused
  <2>3. CASE ApplyDeployment(p) \/ ApplyService(p)
    <3>1. work[p].obj \in Objs
      BY <2>1, <2>3, WorkType DEF ApplyDeployment, ApplyService, At
    <3> QED
      BY <2>1, <2>3, <3>1 DEF ApplyDeployment, ApplyService, TypeOK, NamesDiffer
  <2>4. CASE FinalizeDeployment(p) \/ FinalizeService(p)
    <3>1. work[p] # Idle /\ work[p].step \in Finalizing
      BY <2>4 DEF FinalizeDeployment, FinalizeService, At, Finalizing
    <3>2. work[p].obj \in Objs /\ (api[work[p].obj].st = "live" => ~api[work[p].obj].finalizer)
      BY <1>1, <2>1, <3>1, WorkType DEF IInv, WorkFollows
    <3>3. CASE childName(work[p].obj) = childName(o)
      <4>1. ~api[o].finalizer
        BY <3>2, <3>3 DEF NamesDiffer
      <4>2. o \notin {deployment[childName(o)], service[childName(o)]}
        BY <1>1, <2>1, <4>1, NoneAssumption DEF IInv, ChildrenAreGuarded
      <4> QED
        BY <4>2
    <3>4. CASE childName(work[p].obj) # childName(o)
      BY <2>1, <2>4, <3>4 DEF FinalizeDeployment, FinalizeService, TypeOK
    <3> QED
      BY <3>3, <3>4
  <2> QED
    BY <2>2, <2>3, <2>4
<1>2. IInv /\ [Next]_vars => [Keeps]_vars
  BY <1>1
<1> QED
  BY <1>2, Invariance, PTL DEF Spec, LiveKeepsChildren
=============================================================================
