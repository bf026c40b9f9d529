---------------------------- MODULE StorageProofs -----------------------------
(***************************************************************************)
(* Proofs about Storage for every finite set of clusters, every set of     *)
(* names and limits, and every number of objects ever created.             *)
(***************************************************************************)
EXTENDS Storage, FiniteSetTheorems, TLAPS

Active == req # NoRequest

\* The request is well formed, and what it found out or did belongs to it.
RequestKept ==
    /\ Active => req \in Request
    /\ Active /\ req.op \notin Collection => req.name \in Names
    /\ ~Active => resp = "none" /\ stable = {}
    /\ resp = "none" => reply = {} /\ created = {}
    /\ resp = "none" /\ deleted # {} => Active /\ req.op = "deleteCollection"
    /\ Active /\ req.option = "dryRun" => deleted = {}

\* A member is asked exactly when the request is for it, only a DeleteCollection has
\* a second call to make, and a response is only made when no call is out.
CallsKept ==
    \A c \in Clusters :
        /\ st[c] # "idle" <=> Active /\ req.op # "create" /\ c \in Asked(req)
        /\ st[c] = "listed" => req.op = "deleteCollection"
        /\ got[c] # {} => st[c] \in {"listed", "answered", "failed"}
        /\ resp # "none" => st[c] \notin {"asked", "listed"}

\* An answer is about the member that gave it and, if one was asked for, about one
\* object of that name.
AnswersKept ==
    \A c \in Clusters : \A o \in got[c] :
        /\ o[1] = c
        /\ req.op \in Single => o[2] = req.name /\ got[c] = {o}

\* A uid that is given out is new to everything that the request has seen.
UidsKept ==
    /\ \A c \in Clusters, n \in Names : store[c][n] <= lastUid
    /\ \A c \in Clusters : \A o \in got[c] : o[3] <= lastUid
    /\ \A o \in reply : o[3] <= lastUid

\* What has been there all along is there, and is in every answer that it belongs in.
StableKept ==
    \A o \in stable :
        /\ store[o[1]][o[2]] = o[3]
        /\ st[o[1]] = "answered" /\ req.op \in Single /\ o[2] = req.name => o \in got[o[1]]
        /\ st[o[1]] = "answered" /\ req.op = "list" /\ req.limit = 0 => o \in got[o[1]]

\* What a member listed before its DeleteCollection succeeded is gone or ending.
GoneKept ==
    \A c \in Clusters :
        Active /\ req.op = "deleteCollection" /\ req.option # "dryRun" /\ st[c] = "answered" =>
            \A o \in got[c] : store[o[1]][o[2]] = o[3] => o \in ending

\* The properties of the response.
PropertiesKept ==
    /\ WriteIsUnambiguous
    /\ WriteHitsLocated
    /\ StableIsFound
    /\ ReportedIsDeleted

\* The inductive invariant.
IInv ==
    /\ TypeOK
    /\ RequestKept
    /\ CallsKept
    /\ AnswersKept
    /\ UidsKept
    /\ StableKept
    /\ GoneKept
    /\ PropertiesKept

-----------------------------------------------------------------------------
(* Objects *)

\* An object is in a store when its name has its uid there.
LEMMA InStore ==
    ASSUME NEW s, NEW o
    PROVE  o \in Objects(s) <=> o \in Object /\ s[o[1]][o[2]] = o[3]
BY DEF Objects, Object

\* The cluster, name and uid of an object.
LEMMA ObjectType ==
    ASSUME NEW o \in Object
    PROVE  o[1] \in Clusters /\ o[2] \in Names /\ o[3] \in 1 .. MaxUid /\ o = <<o[1], o[2], o[3]>>
BY DEF Object

\* A cluster, a name and a uid make an object.
LEMMA MadeObject ==
    ASSUME NEW c \in Clusters, NEW n \in Names, NEW u \in 1 .. MaxUid
    PROVE  <<c, n, u>> \in Object
BY DEF Object

\* What is in a typed store under a name is an object.
LEMMA StoredObject ==
    ASSUME TypeOK, NEW c \in Clusters, NEW n \in Names, store[c][n] # 0
    PROVE  <<c, n, store[c][n]>> \in Object /\ <<c, n, store[c][n]>> \in Objects(store)
<1>1. store[c][n] \in 1 .. MaxUid
  BY MaxUidAssumption DEF TypeOK
<1> QED
  BY <1>1, MadeObject, InStore

\* A store without some of its objects has the others, and those under their uids.
LEMMA WithoutStore ==
    ASSUME TypeOK, NEW some \in SUBSET Objects(store)
    PROVE  /\ Without(some) \in [Clusters -> [Names -> 0 .. MaxUid]]
           /\ \A c \in Clusters, n \in Names :
                Without(some)[c][n] = IF <<c, n, store[c][n]>> \in some THEN 0 ELSE store[c][n]
<1>1. \A c \in Clusters, n \in Names : store[c][n] \in 0 .. MaxUid
  BY DEF TypeOK
<1>2. \A c \in Clusters, n \in Names :
        Without(some)[c][n] = IF <<c, n, store[c][n]>> \in some THEN 0 ELSE store[c][n]
  BY DEF Without
<1> QED
  BY <1>1, <1>2, MaxUidAssumption DEF Without

\* What a member can answer with is what it has stored.
LEMMA AtClusterType ==
    ASSUME NEW c, NEW o \in AtCluster(c)
    PROVE  o \in Object /\ o[1] = c /\ store[o[1]][o[2]] = o[3]
BY InStore DEF AtCluster

\* No member has been asked and nothing is known: the state between requests.
LEMMA InitInv == Init => IInv
<1> SUFFICES ASSUME Init PROVE IInv
  OBVIOUS
<1>1. TypeOK
  BY MaxUidAssumption DEF Init, TypeOK
<1>2. RequestKept /\ CallsKept /\ AnswersKept /\ UidsKept /\ StableKept /\ GoneKept
  BY DEF Init, RequestKept, CallsKept, AnswersKept, UidsKept, StableKept, GoneKept, Active
<1>3. PropertiesKept
  BY DEF Init, PropertiesKept, WriteIsUnambiguous, WriteHitsLocated, StableIsFound, ReportedIsDeleted
<1> QED
  BY <1>1, <1>2, <1>3 DEF IInv

-----------------------------------------------------------------------------
(* The members, as others change them *)

\* What others do to the members keeps ReportedIsDeleted, if of the reported objects
\* none comes back and none stops ending.
LEMMA ReportedPrimed ==
    ASSUME IInv, UNCHANGED <<req, resp, reply, deleted>>,
           \A o \in reply : o \in Objects(store') =>
             o \in Objects(store) /\ (o \in ending => o \in ending')
    PROVE  ReportedIsDeleted'
<1>1. ReportedIsDeleted' =
        (resp' = "ok" /\ req'.op \in {"delete", "deleteCollection"} =>
           IF req'.option = "dryRun" THEN deleted' = {}
           ELSE reply' \intersect Objects(store') \subseteq ending')
  BY DEF ReportedIsDeleted, Objects
<1> QED
  BY <1>1 DEF IInv, PropertiesKept, ReportedIsDeleted

\* Another client creates an object: its uid is new.
LEMMA OtherCreatesStep ==
    ASSUME IInv, NEW c \in Clusters, NEW n \in Names, OtherCreates(c, n)
    PROVE  IInv'
<1>1. /\ store[c][n] = 0 /\ lastUid < MaxUid /\ lastUid' = lastUid + 1
      /\ store' = [store EXCEPT ![c][n] = lastUid + 1]
      /\ UNCHANGED <<ending, req, st, got, resp, reply, created, deleted, stable>>
  BY DEF OtherCreates
<1>2. /\ store \in [Clusters -> [Names -> 0 .. MaxUid]] /\ lastUid \in Nat /\ MaxUid \in Nat
      /\ \A d \in Clusters : got[d] \subseteq Object
      /\ reply \subseteq Object /\ stable \subseteq Object
  BY MaxUidAssumption DEF IInv, TypeOK
<1>3. TypeOK'
  BY <1>1, <1>2 DEF IInv, TypeOK
<1>4. RequestKept' /\ CallsKept' /\ AnswersKept'
  BY <1>1 DEF IInv, RequestKept, CallsKept, AnswersKept, Active
<1>5. \A d \in Clusters, m \in Names :
        \/ store'[d][m] = store[d][m]
        \/ d = c /\ m = n /\ store'[d][m] = lastUid + 1
  BY <1>1, <1>2
<1>6. UidsKept'
  <2>1. \A d \in Clusters, m \in Names : store[d][m] \in Nat /\ store[d][m] <= lastUid
    BY <1>2 DEF IInv, UidsKept
  <2>2. \A d \in Clusters, m \in Names : store'[d][m] <= lastUid + 1
    BY <1>2, <1>5, <2>1
  <2>3. \A d \in Clusters : \A o \in got[d] : o[3] <= lastUid + 1
    BY <1>2, ObjectType DEF IInv, UidsKept
  <2>4. \A o \in reply : o[3] <= lastUid + 1
    BY <1>2, ObjectType DEF IInv, UidsKept
  <2> QED
    BY <1>1, <2>2, <2>3, <2>4 DEF UidsKept
<1>7. StableKept'
  <2>1. \A o \in stable : store'[o[1]][o[2]] = o[3]
    BY <1>1, <1>2, <1>5, ObjectType DEF IInv, StableKept
  <2> QED
    BY <1>1, <2>1 DEF IInv, StableKept
<1>8. GoneKept'
  BY <1>1, <1>2, <1>5, ObjectType DEF IInv, GoneKept, UidsKept, Active
<1>9. WriteIsUnambiguous' /\ WriteHitsLocated' /\ StableIsFound'
  BY <1>1 DEF IInv, PropertiesKept, WriteIsUnambiguous, WriteHitsLocated, StableIsFound
<1>10. ReportedIsDeleted'
  <2>1. ASSUME NEW o \in reply, o \in Objects(store')
        PROVE  o \in Objects(store)
    <3>1. o[1] \in Clusters /\ o[2] \in Names /\ o[3] \in Nat /\ o[3] <= lastUid
      BY <1>2, ObjectType DEF IInv, UidsKept
    <3>2. o \in Object /\ store'[o[1]][o[2]] = o[3]
      BY <2>1, InStore
    <3>3. store[o[1]][o[2]] = o[3]
      BY <1>2, <1>5, <3>1, <3>2
    <3> QED
      BY <3>2, <3>3, InStore
  <2> QED
    BY <1>1, <2>1, ReportedPrimed
<1> QED
  BY <1>3, <1>4, <1>6, <1>7, <1>8, <1>9, <1>10 DEF IInv, PropertiesKept

\* What a member's delete keeps: what is left was there, and is ending if it was to go.
LEMMA MemberDeletesKept ==
    ASSUME IInv, NEW objects \in SUBSET Objects(store), MemberDeletes(objects)
    PROVE  /\ store' \in [Clusters -> [Names -> 0 .. MaxUid]]
           /\ ending' \subseteq Object
           /\ stable' \subseteq stable
           /\ \A c \in Clusters, n \in Names : store'[c][n] <= lastUid
           /\ \A o \in stable' : store'[o[1]][o[2]] = o[3]
           /\ \A o \in Object : store'[o[1]][o[2]] = o[3] =>
                /\ store[o[1]][o[2]] = o[3]
                /\ o \in objects \union ending => o \in ending'
<1>1. PICK held \in SUBSET objects :
        /\ store' = Without(objects \ held)
        /\ ending' = (ending \ objects) \union held
        /\ stable' = stable \ (objects \ held)
  BY DEF MemberDeletes
<1>2. /\ TypeOK /\ StableKept /\ stable \subseteq Object /\ lastUid \in Nat /\ ending \subseteq Object
      /\ \A c \in Clusters, n \in Names : store[c][n] <= lastUid
  BY MaxUidAssumption DEF IInv, TypeOK, UidsKept
<1>3. objects \subseteq Object
  BY InStore
<1> DEFINE some == objects \ held
<1>4. /\ store' \in [Clusters -> [Names -> 0 .. MaxUid]]
      /\ \A c \in Clusters, n \in Names :
           store'[c][n] = IF <<c, n, store[c][n]>> \in some THEN 0 ELSE store[c][n]
  <2>1. some \in SUBSET Objects(store) /\ store' = Without(some)
    BY <1>1
  <2> HIDE DEF some
  <2> QED
    BY <1>2, <2>1, WithoutStore
<1>5. stable' \subseteq stable /\ stable' = stable \ some /\ ending' \subseteq Object
  BY <1>1, <1>2, <1>3
<1>6. \A o \in objects \union ending : o \in ending' \/ o \in some
  BY <1>1
<1> HIDE DEF some
<1>7. \A c \in Clusters, n \in Names : store'[c][n] <= lastUid
  <2>1. \A c \in Clusters, n \in Names : store'[c][n] \in {0, store[c][n]}
    BY <1>4
  <2> QED
    BY <1>2, <2>1
<1>8. ASSUME NEW o \in stable' PROVE store'[o[1]][o[2]] = o[3]
  <2>1. o \in Object /\ o \in stable /\ o \notin some
    BY <1>2, <1>5, <1>8
  <2>2. store[o[1]][o[2]] = o[3]
    BY <1>2, <2>1 DEF StableKept
  <2> QED
    BY <1>4, <2>1, <2>2, ObjectType
<1>9. ASSUME NEW o \in Object, store'[o[1]][o[2]] = o[3]
      PROVE  store[o[1]][o[2]] = o[3] /\ o \notin some
  <2>1. o[1] \in Clusters /\ o[2] \in Names /\ o[3] # 0 /\ o = <<o[1], o[2], o[3]>>
    BY ObjectType
  <2> DEFINE u == store[o[1]][o[2]]
  <2>2. o[3] = IF <<o[1], o[2], u>> \in some THEN 0 ELSE u
    BY <1>4, <1>9, <2>1
  <2> HIDE DEF u
  <2>3. u = o[3] /\ <<o[1], o[2], u>> \notin some
    BY <2>1, <2>2
  <2> QED
    BY <2>1, <2>3 DEF u
<1> QED
  BY <1>4, <1>5, <1>6, <1>7, <1>8, <1>9

\* Another client deletes an object, or one that was ending goes.
LEMMA OtherDeletesStep ==
    ASSUME IInv, NEW c \in Clusters, NEW n \in Names, OtherDeletes(c, n)
    PROVE  IInv'
<1>1. PICK object : object = <<c, n, store[c][n]>>
  OBVIOUS
<1>2. /\ store[c][n] # 0 /\ MemberDeletes({object})
      /\ UNCHANGED <<lastUid, req, st, got, resp, reply, created, deleted>>
  BY <1>1 DEF OtherDeletes
<1>3. TypeOK /\ {object} \in SUBSET Objects(store)
  BY <1>1, <1>2, StoredObject DEF IInv
<1>4. /\ store' \in [Clusters -> [Names -> 0 .. MaxUid]]
      /\ ending' \subseteq Object /\ stable' \subseteq stable
      /\ \A d \in Clusters, m \in Names : store'[d][m] <= lastUid
      /\ \A o \in stable' : store'[o[1]][o[2]] = o[3]
      /\ \A o \in Object : store'[o[1]][o[2]] = o[3] =>
           store[o[1]][o[2]] = o[3] /\ (o \in ending => o \in ending')
  BY <1>2, <1>3, MemberDeletesKept
<1>5. TypeOK'
  BY <1>2, <1>3, <1>4 DEF TypeOK
<1>6. RequestKept' /\ CallsKept' /\ AnswersKept'
  BY <1>2, <1>4 DEF IInv, RequestKept, CallsKept, AnswersKept, Active
<1>7. UidsKept'
  BY <1>2, <1>4 DEF IInv, UidsKept
<1>8. StableKept'
  BY <1>2, <1>4 DEF IInv, StableKept
<1>9. GoneKept'
  BY <1>2, <1>3, <1>4 DEF IInv, GoneKept, Active, TypeOK
<1>10. WriteIsUnambiguous' /\ WriteHitsLocated' /\ StableIsFound'
  BY <1>2, <1>4 DEF IInv, PropertiesKept, WriteIsUnambiguous, WriteHitsLocated, StableIsFound
<1>11. ReportedIsDeleted'
  <2>1. \A o \in Objects(store') : o \in Objects(store) /\ (o \in ending => o \in ending')
    BY <1>4, InStore
  <2> QED
    BY <1>2, <2>1, ReportedPrimed
<1> QED
  BY <1>5, <1>6, <1>7, <1>8, <1>9, <1>10, <1>11 DEF IInv, PropertiesKept

-----------------------------------------------------------------------------
(* The request up to its response *)

\* A request begins: what is in the stores from now on is stable.
LEMMA BeginStep ==
    ASSUME IInv, NEW r \in Request, r.op # "create",
           r.op \notin Collection => r.name \in Names, Begin(r)
    PROVE  IInv'
<1>1. /\ req = NoRequest /\ req' = r /\ r # NoRequest
      /\ st' = [c \in Clusters |-> IF c \in Asked(r) THEN "asked" ELSE "idle"]
      /\ stable' = Objects(store)
      /\ UNCHANGED <<store, ending, lastUid, got, resp, reply, created, deleted>>
  BY NoRequestAssumption DEF Begin
<1>2. /\ TypeOK /\ resp = "none" /\ deleted = {} /\ reply = {} /\ created = {}
      /\ \A c \in Clusters : got[c] = {} /\ st[c] = "idle"
  BY <1>1 DEF IInv, RequestKept, CallsKept, Active
<1>3. \A o \in stable' : o \in Object /\ store'[o[1]][o[2]] = o[3]
  BY <1>1, InStore
<1>4. TypeOK'
  BY <1>1, <1>2, <1>3 DEF TypeOK
<1>5. \A c \in Clusters : st'[c] = IF c \in Asked(r) THEN "asked" ELSE "idle"
  BY <1>1
<1>6. RequestKept'
  BY <1>1, <1>2 DEF RequestKept, Active
<1>7. CallsKept'
  BY <1>1, <1>2, <1>5 DEF CallsKept, Active
<1>8. AnswersKept' /\ UidsKept' /\ GoneKept'
  BY <1>1, <1>2, <1>5 DEF IInv, AnswersKept, UidsKept, GoneKept
<1>9. StableKept'
  BY <1>1, <1>3, <1>5, ObjectType DEF StableKept
<1>10. PropertiesKept'
  BY <1>1, <1>2 DEF PropertiesKept, WriteIsUnambiguous, WriteHitsLocated, StableIsFound, ReportedIsDeleted
<1> QED
  BY <1>4, <1>6, <1>7, <1>8, <1>9, <1>10 DEF IInv

\* A create begins; it asks nobody.
LEMMA CreateStep ==
    ASSUME IInv, NEW n \in Names, NEW pin \in Clusters \union {NoCluster, Unknown},
           NEW option \in Option, Create(n, pin, option)
    PROVE  IInv'
<1> DEFINE r == ForName("create", n, pin, option)
<1>1. r \in Request
  BY LimitsAssumption DEF Request, ForName
<1>2. /\ req = NoRequest /\ req' = r /\ r # NoRequest
      /\ stable' = Objects(store)
      /\ UNCHANGED <<store, ending, lastUid, st, got, resp, reply, created, deleted>>
  BY <1>1, NoRequestAssumption DEF Create
<1>3. /\ TypeOK /\ resp = "none" /\ deleted = {} /\ reply = {} /\ created = {}
      /\ \A c \in Clusters : got[c] = {} /\ st[c] = "idle"
  BY <1>2 DEF IInv, RequestKept, CallsKept, Active
<1>4. \A o \in stable' : o \in Object /\ store'[o[1]][o[2]] = o[3]
  BY <1>2, InStore
<1>5. r.op = "create" /\ r.name = n /\ r.op \notin Collection /\ r.op \notin Single
  BY DEF ForName, Collection, Single
<1> HIDE DEF r
<1>6. TypeOK'
  BY <1>1, <1>2, <1>3, <1>4 DEF TypeOK
<1>7. RequestKept'
  BY <1>1, <1>2, <1>3, <1>5 DEF RequestKept, Active
<1>8. CallsKept'
  BY <1>2, <1>3, <1>5 DEF CallsKept, Active
<1>9. AnswersKept' /\ UidsKept' /\ GoneKept'
  BY <1>2, <1>3 DEF IInv, AnswersKept, UidsKept, GoneKept
<1>10. StableKept'
  BY <1>2, <1>3, <1>4, ObjectType DEF StableKept
<1>11. PropertiesKept'
  BY <1>2, <1>3 DEF PropertiesKept, WriteIsUnambiguous, WriteHitsLocated, StableIsFound, ReportedIsDeleted
<1> QED
  BY <1>6, <1>7, <1>8, <1>9, <1>10, <1>11 DEF IInv

\* A member answers or fails: an answer has what is there now.
LEMMA AnswerStep ==
    ASSUME IInv, NEW c \in Clusters, Answer(c) \/ AnswerFails(c)
    PROVE  IInv'
<1>1. /\ TypeOK /\ st[c] = "asked" /\ Active /\ resp = "none" /\ got[c] = {}
      /\ req \in Request /\ req.op # "create" /\ c \in Asked(req)
  BY DEF Answer, AnswerFails, IInv, CallsKept, RequestKept
<1>2. UNCHANGED <<store, ending, lastUid, req, resp, reply, created, deleted, stable>>
  BY DEF Answer, AnswerFails
<1>3. \A d \in Clusters \ {c} : st'[d] = st[d] /\ got'[d] = got[d]
  BY <1>1 DEF Answer, AnswerFails, TypeOK
<1>4. got'[c] \subseteq AtCluster(c)
  BY <1>1 DEF Answer, AnswerFails, Answers, TypeOK
<1>5. \/ st'[c] = "failed"
      \/ st'[c] = "listed" /\ req.op = "deleteCollection"
      \/ /\ st'[c] = "answered" /\ req.op # "deleteCollection"
         /\ got'[c] \in Answers(c)
  BY <1>1 DEF Answer, AnswerFails, TypeOK
<1>6. \A o \in got'[c] : o \in Object /\ o[1] = c /\ store[o[1]][o[2]] = o[3]
  BY <1>4, AtClusterType
<1>7. ASSUME req.op \in Single, NEW o \in got'[c]
      PROVE  o[2] = req.name /\ got'[c] = {o}
  <2>1. \A p \in got'[c] : p[2] = req.name
    BY <1>1, <1>7 DEF Answer, AnswerFails, Answers, TypeOK
  <2>2. \A p \in got'[c] : p = <<c, req.name, store[c][req.name]>>
    BY <1>6, <2>1, ObjectType
  <2> QED
    BY <1>7, <2>1, <2>2
<1>8. st'[c] \in {"listed", "answered", "failed"}
  BY <1>5
<1>9. TypeOK'
  <2>1. got' \in [Clusters -> SUBSET Object] /\ st' \in [Clusters -> {"idle", "asked", "listed", "answered", "failed"}]
    BY <1>1, <1>6, <1>8 DEF Answer, AnswerFails, TypeOK
  <2> QED
    BY <1>1, <1>2, <2>1 DEF TypeOK
<1>10. RequestKept'
  BY <1>2 DEF IInv, RequestKept, Active
<1>11. CallsKept'
  BY <1>1, <1>2, <1>3, <1>5 DEF IInv, CallsKept, Active
<1>12. AnswersKept' /\ UidsKept'
  <2>1. AnswersKept'
    BY <1>2, <1>3, <1>6, <1>7 DEF IInv, AnswersKept
  <2>2. \A o \in got'[c] : o[3] <= lastUid
    BY <1>6, ObjectType DEF IInv, UidsKept
  <2> QED
    BY <1>2, <1>3, <2>1, <2>2 DEF IInv, UidsKept
<1>13. StableKept'
  <2>t. \A o \in stable : o[1] \in Clusters
    BY <1>1, ObjectType DEF TypeOK
  <2> SUFFICES ASSUME NEW o \in stable, o[1] = c, st'[c] = "answered",
                      \/ req.op \in Single /\ o[2] = req.name
                      \/ req.op = "list" /\ req.limit = 0
               PROVE  o \in got'[c]
    BY <1>2, <1>3, <2>t DEF IInv, StableKept
  <2>1. o \in Object /\ o \in AtCluster(c)
    BY <1>1, InStore DEF IInv, StableKept, TypeOK, AtCluster
  <2>2. got'[c] \in Answers(c)
    BY <1>5
  <2> QED
    BY <2>1, <2>2 DEF Answers, Single
<1>14. GoneKept'
  BY <1>2, <1>3, <1>5 DEF IInv, GoneKept, Active
<1>15. PropertiesKept'
  BY <1>1, <1>2 DEF PropertiesKept, WriteIsUnambiguous, WriteHitsLocated, StableIsFound, ReportedIsDeleted
<1> QED
  BY <1>9, <1>10, <1>11, <1>12, <1>13, <1>14, <1>15 DEF IInv

\* The DeleteCollection of a member succeeds, or fails half way.
LEMMA DeleteMembersStep ==
    ASSUME IInv, NEW c \in Clusters, DeleteMembers(c) \/ DeleteMembersFails(c)
    PROVE  IInv'
<1>1. /\ TypeOK /\ st[c] = "listed" /\ Active /\ resp = "none"
      /\ req \in Request /\ req.op = "deleteCollection" /\ c \in Asked(req)
  BY DEF DeleteMembers, DeleteMembersFails, IInv, CallsKept, RequestKept
<1>2. UNCHANGED <<lastUid, req, got, resp, reply, created>>
  BY DEF DeleteMembers, DeleteMembersFails
<1>3. PICK some \in SUBSET AtCluster(c) :
        /\ Deletes(some)
        /\ st'[c] = "failed" \/ (st'[c] = "answered" /\ some = AtCluster(c))
  BY <1>1 DEF DeleteMembers, DeleteMembersFails, TypeOK
<1>4. \A d \in Clusters \ {c} : st'[d] = st[d]
  BY <1>1 DEF DeleteMembers, DeleteMembersFails, TypeOK
<1>5. some \in SUBSET Objects(store) /\ some \subseteq Object
  BY InStore DEF AtCluster
<1>6. /\ store' \in [Clusters -> [Names -> 0 .. MaxUid]]
      /\ ending' \subseteq Object /\ stable' \subseteq stable /\ deleted' \subseteq Object
      /\ \A d \in Clusters, n \in Names : store'[d][n] <= lastUid
      /\ \A o \in stable' : store'[o[1]][o[2]] = o[3]
      /\ \/ req.option = "dryRun" /\ UNCHANGED <<store, ending, deleted>>
         \/ /\ req.option # "dryRun"
            /\ \A o \in Object : store'[o[1]][o[2]] = o[3] =>
                 store[o[1]][o[2]] = o[3] /\ (o \in some \union ending => o \in ending')
  <2>1. CASE req.option = "dryRun"
    BY <1>1, <1>3, <2>1 DEF Deletes, IInv, TypeOK, UidsKept, StableKept
  <2>2. CASE req.option # "dryRun"
    <3>1. MemberDeletes(some) /\ deleted' = deleted \union some
      BY <1>3, <2>2 DEF Deletes
    <3>2. deleted' \subseteq Object
      BY <1>1, <1>5, <3>1 DEF TypeOK
    <3> QED
      BY <1>5, <2>2, <3>1, <3>2, MemberDeletesKept
  <2> QED
    BY <2>1, <2>2
<1>7. TypeOK'
  <2>1. st' \in [Clusters -> {"idle", "asked", "listed", "answered", "failed"}]
    BY <1>1 DEF DeleteMembers, DeleteMembersFails, TypeOK
  <2> QED
    BY <1>1, <1>2, <1>6, <2>1 DEF TypeOK
<1>8. RequestKept'
  BY <1>1, <1>2, <1>6 DEF IInv, RequestKept, Active
<1>9. CallsKept' /\ AnswersKept' /\ UidsKept'
  BY <1>1, <1>2, <1>3, <1>4, <1>6 DEF IInv, CallsKept, AnswersKept, UidsKept, Active
<1>10. StableKept'
  BY <1>1, <1>2, <1>6 DEF StableKept, Single
<1>11. GoneKept'
  <2>1. ASSUME req.option # "dryRun", NEW d \in Clusters, st'[d] = "answered", NEW o \in got[d],
               store'[o[1]][o[2]] = o[3]
        PROVE  o \in ending'
    <3>1. o \in Object /\ o[1] = d /\ store[o[1]][o[2]] = o[3]
      BY <1>1, <1>6, <2>1 DEF IInv, TypeOK, AnswersKept
    <3>2. CASE d = c
      <4>1. o \in some
        BY <1>3, <2>1, <3>1, <3>2, InStore DEF AtCluster
      <4> QED
        BY <1>6, <2>1, <3>1, <4>1
    <3>3. CASE d # c
      <4>1. o \in ending
        BY <1>1, <1>4, <2>1, <3>1, <3>3 DEF IInv, GoneKept
      <4> QED
        BY <1>6, <2>1, <3>1, <4>1
    <3> QED
      BY <3>2, <3>3
  <2> QED
    BY <1>2, <2>1 DEF GoneKept
<1>12. PropertiesKept'
  BY <1>1, <1>2 DEF PropertiesKept, WriteIsUnambiguous, WriteHitsLocated, StableIsFound, ReportedIsDeleted
<1> QED
  BY <1>7, <1>8, <1>9, <1>10, <1>11, <1>12 DEF IInv

-----------------------------------------------------------------------------
(* The response *)

\* A response is made while no call is out; what every kind of response keeps.
LEMMA ResponseKept ==
    ASSUME IInv, Active, resp = "none",
           req.op = "create" \/ \A c \in Clusters : st[c] \notin {"asked", "listed"},
           resp' \in {"ok", "notFound", "conflict", "badRequest", "internal", "remote"},
           UNCHANGED <<req, st, got>>,
           deleted' = deleted \/ req.option # "dryRun"
    PROVE  RequestKept' /\ CallsKept' /\ AnswersKept'
<1>1. \A c \in Clusters : st[c] \notin {"asked", "listed"}
  BY DEF IInv, CallsKept
<1> QED
  BY <1>1 DEF IInv, RequestKept, CallsKept, AnswersKept, Active

\* An error changes nothing; NotFound without a pin is only said of what no member has.
LEMMA RefuseStep ==
    ASSUME IInv, Active, resp = "none",
           req.op = "create" \/ \A c \in Clusters : st[c] \notin {"asked", "listed"},
           NEW r \in {"notFound", "conflict", "badRequest", "internal", "remote"}, Refuse(r),
           r = "notFound" /\ req.pin = NoCluster => \A o \in stable : o[2] # req.name
    PROVE  IInv'
<1>1. /\ resp' = r /\ reply' = {}
      /\ UNCHANGED <<store, ending, lastUid, req, st, got, created, deleted, stable>>
  BY DEF Refuse, Respond
<1>2. TypeOK'
  BY <1>1 DEF IInv, TypeOK
<1>3. RequestKept' /\ CallsKept' /\ AnswersKept'
  BY <1>1, ResponseKept
<1>4. UidsKept' /\ StableKept' /\ GoneKept'
  BY <1>1 DEF IInv, UidsKept, StableKept, GoneKept, Active
<1>5. PropertiesKept'
  BY <1>1 DEF PropertiesKept, WriteIsUnambiguous, WriteHitsLocated, StableIsFound, ReportedIsDeleted
<1> QED
  BY <1>2, <1>3, <1>4, <1>5 DEF IInv

\* After the group, every member that was asked has answered.
LEMMA AllAnswered ==
    ASSUME IInv, Waited, ~GroupFailed, NEW c \in Asked(req), c \in Clusters
    PROVE  st[c] = "answered"
BY DEF IInv, TypeOK, CallsKept, Waited, GroupFailed, Active

\* locate found the object in one cluster only, and that is the pinned one if there
\* is a pin.
LEMMA LocatedAlone ==
    ASSUME IInv, NEW c \in Clusters, Located(c)
    PROVE  /\ req.pin \in {c, NoCluster}
           /\ \A d \in Clusters \ {c} : got[d] = {}
           /\ req.pin = NoCluster => \A d \in Clusters : st[d] = "answered"
           /\ req \in Request /\ req.name \in Names
           /\ Active /\ resp = "none" /\ created = {} /\ deleted = {}
           /\ \A d \in Clusters : st[d] \notin {"asked", "listed"}
<1>1. /\ Waited /\ ~GroupFailed /\ req.op \in Single /\ req.pin # Unknown
      /\ Cardinality(Hits) <= 1 /\ c \in Hits
  <2>1. Waited /\ ~GroupFailed /\ req.op \in Single /\ req.pin # Unknown /\ ~Ambiguous /\ c \in Hits
    BY DEF Located
  <2>2. IsFiniteSet(Hits)
    BY ClustersFinite, FS_Subset DEF Hits
  <2>3. Cardinality(Hits) \in Nat
    BY <2>2, FS_CardinalityType
  <2> QED
    BY <2>1, <2>3 DEF Ambiguous
<1>2. Active /\ resp = "none" /\ \A d \in Clusters : st[d] \notin {"asked", "listed"}
  BY <1>1 DEF Waited, Active
<1>3. req \in Request /\ req.name \in Names /\ created = {} /\ deleted = {}
  BY <1>1, <1>2 DEF IInv, RequestKept, Single, Collection
<1>4. \A d \in Clusters \ {c} : got[d] = {}
  <2> SUFFICES ASSUME NEW d \in Clusters \ {c}, d \in Hits PROVE FALSE
    BY DEF Hits
  <2>1. {c, d} \subseteq Hits /\ IsFiniteSet(Hits)
    BY <1>1, ClustersFinite, FS_Subset DEF Hits
  <2>2. Cardinality({c}) = 1 /\ IsFiniteSet({c})
    BY FS_Singleton
  <2>3. Cardinality({c} \union {d}) = 2
    <3>1. d \notin {c}
      OBVIOUS
    <3>2. Cardinality({c} \union {d}) = Cardinality({c}) + 1
      BY <2>2, <3>1, FS_AddElement, Zenon
    <3> QED
      BY <2>2, <3>2
  <2>4. Cardinality({c} \union {d}) <= Cardinality(Hits)
    BY <2>1, FS_Subset
  <2>5. Cardinality(Hits) \in Nat
    BY <2>1, FS_CardinalityType
  <2>6. Cardinality(Hits) <= 1
    BY <1>1
  <2> QED
    BY <2>3, <2>4, <2>5, <2>6
<1>5. req.op \notin Collection
  BY <1>1 DEF Single, Collection
<1>6. req.pin \in {c, NoCluster}
  <2>1. st[c] # "idle"
    BY <1>1 DEF Hits, IInv, CallsKept
  <2>2. c \in Asked(req)
    BY <2>1 DEF IInv, CallsKept
  <2> QED
    BY <1>5, <2>2 DEF Asked
<1>7. ASSUME req.pin = NoCluster, NEW d \in Clusters
      PROVE  st[d] = "answered"
  BY <1>1, <1>5, <1>7, AllAnswered DEF Asked
<1> QED
  BY <1>2, <1>3, <1>4, <1>6, <1>7

\* A Get or an update, a status update or an apply that found its object.
LEMMA FoundStep ==
    ASSUME IInv, NEW c \in Clusters, RespondGet(c) \/ WriteObject(c) \/ WriteStatus(c)
    PROVE  IInv'
<1>1. Located(c) /\ req.op \in {"get", "update", "status", "apply"}
  BY DEF RespondGet, WriteObject, WriteStatus, Write
<1>2. /\ req.pin \in {c, NoCluster}
      /\ \A d \in Clusters \ {c} : got[d] = {}
      /\ req.pin = NoCluster => \A d \in Clusters : st[d] = "answered"
      /\ req.name \in Names
      /\ Active /\ resp = "none" /\ created = {} /\ deleted = {}
      /\ \A d \in Clusters : st[d] \notin {"asked", "listed"}
  BY <1>1, LocatedAlone
<1>3. resp' = "ok" /\ UNCHANGED <<store, ending, lastUid, req, st, got, created, deleted, stable>>
  BY DEF RespondGet, WriteObject, WriteStatus, Write, Respond
<1>4. \A o \in reply' : o \in Object /\ o[1] = c /\ o[3] <= lastUid
  <2>1. CASE RespondGet(c)
    BY <2>1 DEF RespondGet, Respond, IInv, TypeOK, AnswersKept, UidsKept
  <2>2. CASE Write(c)
    <3> DEFINE object == <<c, req.name, store[c][req.name]>>
    <3>1. reply' = {object}
      BY <2>2 DEF Write, Respond, Met
    <3>2. object \in Object /\ store[c][req.name] <= lastUid
      BY <1>2, <2>2, StoredObject DEF Write, Accepts, IInv, UidsKept
    <3> QED
      BY <3>1, <3>2
  <2> QED
    BY <2>1, <2>2 DEF WriteObject, WriteStatus
<1>5. TypeOK'
  BY <1>3, <1>4 DEF IInv, TypeOK
<1>6. RequestKept' /\ CallsKept' /\ AnswersKept'
  BY <1>2, <1>3, ResponseKept
<1>7. UidsKept' /\ StableKept' /\ GoneKept'
  BY <1>3, <1>4 DEF IInv, UidsKept, StableKept, GoneKept, Active
<1>8. WriteIsUnambiguous'
  BY <1>2, <1>3, <1>4 DEF WriteIsUnambiguous
<1>9. WriteHitsLocated'
  <2>1. req.option = "exact" => reply' \subseteq got[c]
    BY DEF RespondGet, WriteObject, WriteStatus, Write, Accepts, Respond
  <2> QED
    BY <1>1, <1>2, <1>3, <2>1 DEF WriteHitsLocated
<1>10. StableIsFound' /\ ReportedIsDeleted'
  BY <1>1, <1>3 DEF StableIsFound, ReportedIsDeleted
<1> QED
  BY <1>5, <1>6, <1>7, <1>8, <1>9, <1>10 DEF IInv, PropertiesKept

\* A delete that found its object, and finds one of that name when it deletes.
LEMMA DeleteObjectStep ==
    ASSUME IInv, NEW c \in Clusters, DeleteObject(c)
    PROVE  IInv'
<1>1. Located(c) /\ req.op = "delete" /\ store[c][req.name] # 0
  BY DEF DeleteObject, Accepts
<1>2. /\ req.pin \in {c, NoCluster}
      /\ \A d \in Clusters \ {c} : got[d] = {}
      /\ req.pin = NoCluster => \A d \in Clusters : st[d] = "answered"
      /\ req.name \in Names
      /\ Active /\ resp = "none" /\ created = {} /\ deleted = {}
      /\ \A d \in Clusters : st[d] \notin {"asked", "listed"}
  BY <1>1, LocatedAlone
<1>3. PICK object : object = <<c, req.name, store[c][req.name]>>
  OBVIOUS
<1>4. /\ resp' = "ok" /\ reply' = got[c] /\ Deletes({object})
      /\ req.option = "exact" => object \in got[c]
      /\ UNCHANGED <<lastUid, req, st, got, created>>
  BY <1>3 DEF DeleteObject, Accepts, Met, Respond
<1>5. object \in Object /\ object[1] = c /\ {object} \in SUBSET Objects(store)
  BY <1>1, <1>2, <1>3, StoredObject DEF IInv
<1>6. /\ store' \in [Clusters -> [Names -> 0 .. MaxUid]]
      /\ ending' \subseteq Object /\ stable' \subseteq stable
      /\ \A d \in Clusters, n \in Names : store'[d][n] <= lastUid
      /\ \A o \in stable' : store'[o[1]][o[2]] = o[3]
      /\ \/ req.option = "dryRun" /\ UNCHANGED <<store, ending, deleted>>
         \/ /\ req.option # "dryRun" /\ deleted' = {object}
            /\ \A o \in Object : store'[o[1]][o[2]] = o[3] =>
                 store[o[1]][o[2]] = o[3] /\ (o = object => o \in ending')
  <2>1. CASE req.option = "dryRun"
    BY <1>4, <2>1 DEF Deletes, IInv, TypeOK, UidsKept, StableKept
  <2>2. CASE req.option # "dryRun"
    <3>1. MemberDeletes({object}) /\ deleted' = {object}
      BY <1>2, <1>4, <2>2 DEF Deletes
    <3> QED
      BY <1>5, <2>2, <3>1, MemberDeletesKept
  <2> QED
    BY <2>1, <2>2
<1>7. \A o \in got[c] : o \in Object /\ o[1] = c /\ o[2] = req.name /\ o[3] <= lastUid
  BY <1>1 DEF IInv, TypeOK, AnswersKept, UidsKept, Single
<1>8. deleted' \subseteq {object}
  BY <1>2, <1>6
<1>9. TypeOK'
  BY <1>4, <1>5, <1>6, <1>7, <1>8 DEF IInv, TypeOK
<1>10. RequestKept' /\ CallsKept' /\ AnswersKept'
  BY <1>2, <1>4, <1>6, ResponseKept
<1>11. UidsKept' /\ GoneKept'
  BY <1>1, <1>4, <1>6, <1>7 DEF IInv, UidsKept, GoneKept
<1>12. StableKept'
  BY <1>4, <1>6 DEF IInv, StableKept
<1>13. WriteIsUnambiguous'
  BY <1>2, <1>4, <1>5, <1>7, <1>8 DEF WriteIsUnambiguous
<1>14. WriteHitsLocated'
  <2>1. ASSUME req.option = "exact" PROVE got[c] = {object} /\ deleted' = {object}
    <3>1. object \in got[c] /\ deleted' = {object}
      BY <1>4, <1>6, <2>1
    <3> QED
      BY <1>1, <3>1 DEF IInv, AnswersKept, Single
  <2> QED
    BY <1>1, <1>4, <2>1 DEF WriteHitsLocated
<1>15. StableIsFound'
  BY <1>1, <1>4 DEF StableIsFound
<1>16. ReportedIsDeleted'
  <2>1. ASSUME req.option # "dryRun", NEW o \in got[c], o \in Objects(store')
        PROVE  o \in ending'
    <3>1. o \in Object /\ store'[o[1]][o[2]] = o[3] /\ o = <<o[1], o[2], o[3]>>
      BY <2>1, InStore, ObjectType
    <3>2. store[c][req.name] = o[3]
      BY <1>6, <1>7, <2>1, <3>1
    <3>3. o = object
      BY <1>3, <1>7, <3>1, <3>2
    <3> QED
      BY <1>6, <2>1, <3>1, <3>3
  <2> QED
    BY <1>1, <1>2, <1>4, <1>6, <2>1 DEF ReportedIsDeleted, Objects
<1> QED
  BY <1>9, <1>10, <1>11, <1>12, <1>13, <1>14, <1>15, <1>16 DEF IInv, PropertiesKept

\* A create, or an apply that creates: it goes to the pinned cluster or the only one.
LEMMA CreateObjectStep ==
    ASSUME IInv, NEW c \in Clusters, CreateObject(c)
    PROVE  IInv'
<1>1. /\ Active /\ resp = "none" /\ req.op \in {"create", "apply"}
      /\ req.op = "create" \/ \A d \in Clusters : st[d] \notin {"asked", "listed"}
      /\ req.pin = c \/ (req.pin = NoCluster /\ Clusters = {c})
      /\ store[c][req.name] = 0 /\ lastUid < MaxUid
  BY DEF CreateObject, MayCreate, Waited, Target, Active
<1>2. req.name \in Names /\ deleted = {}
  BY <1>1 DEF IInv, RequestKept, Collection
<1>3. PICK object : object = <<c, req.name, lastUid + 1>>
  OBVIOUS
<1>4. /\ resp' = "ok" /\ reply' = {object} /\ lastUid' = lastUid + 1
      /\ \/ UNCHANGED <<store, created>>
         \/ created' = {object} /\ store' = [store EXCEPT ![c][req.name] = lastUid + 1]
      /\ req.option # "dryRun" => created' = {object}
      /\ UNCHANGED <<ending, req, st, got, deleted, stable>>
  BY <1>3 DEF CreateObject
<1>5. /\ TypeOK /\ lastUid \in Nat /\ MaxUid \in Nat /\ stable \subseteq Object
      /\ \A d \in Clusters : got[d] \subseteq Object
  BY MaxUidAssumption DEF IInv, TypeOK
<1>6. object \in Object /\ object[1] = c /\ object[3] = lastUid + 1
  BY <1>1, <1>2, <1>3, <1>5, MadeObject
<1>7. /\ store' \in [Clusters -> [Names -> 0 .. MaxUid]]
      /\ created' \subseteq {object}
  <2>1. lastUid + 1 \in 0 .. MaxUid /\ store \in [Clusters -> [Names -> 0 .. MaxUid]]
    BY <1>1, <1>5 DEF TypeOK
  <2>2. created = {}
    BY <1>1 DEF IInv, RequestKept
  <2> QED
    BY <1>2, <1>4, <2>1, <2>2
<1>8. \A d \in Clusters, n \in Names :
        \/ store'[d][n] = store[d][n]
        \/ d = c /\ n = req.name /\ store'[d][n] = lastUid + 1
  BY <1>4, <1>5 DEF TypeOK
<1>9. TypeOK'
  BY <1>1, <1>4, <1>5, <1>6, <1>7 DEF TypeOK
<1>10. RequestKept' /\ CallsKept' /\ AnswersKept'
  BY <1>1, <1>4, ResponseKept
<1>11. UidsKept'
  <2>1. \A d \in Clusters, n \in Names : store[d][n] \in Nat /\ store[d][n] <= lastUid
    BY <1>5 DEF IInv, UidsKept, TypeOK
  <2>2. \A d \in Clusters, n \in Names : store'[d][n] <= lastUid + 1
    BY <1>5, <1>8, <2>1
  <2>3. \A d \in Clusters : \A o \in got[d] : o[3] <= lastUid + 1
    BY <1>5, ObjectType DEF IInv, UidsKept
  <2> QED
    BY <1>4, <1>5, <1>6, <2>2, <2>3 DEF UidsKept
<1>12. StableKept'
  <2>1. \A o \in stable : store'[o[1]][o[2]] = o[3]
    BY <1>1, <1>5, <1>8, ObjectType DEF IInv, StableKept
  <2> QED
    BY <1>4, <2>1 DEF IInv, StableKept
<1>13. GoneKept'
  BY <1>1, <1>4 DEF GoneKept
<1>14. WriteIsUnambiguous'
  BY <1>1, <1>2, <1>4, <1>6, <1>7, NamesOfNoCluster DEF WriteIsUnambiguous
<1>15. WriteHitsLocated' /\ StableIsFound' /\ ReportedIsDeleted'
  BY <1>1, <1>2, <1>4 DEF WriteHitsLocated, StableIsFound, ReportedIsDeleted
<1> QED
  BY <1>9, <1>10, <1>11, <1>12, <1>13, <1>14, <1>15 DEF IInv, PropertiesKept

\* The merged answers of a List or a DeleteCollection.
LEMMA CollectionStep == ASSUME IInv, RespondCollection PROVE IInv'
<1>1. /\ Waited /\ ~GroupFailed /\ req.op \in Collection
      /\ resp' = "ok" /\ reply' = UNION {got[c] : c \in Clusters}
      /\ UNCHANGED <<store, ending, lastUid, req, st, got, created, deleted, stable>>
  BY DEF RespondCollection, Respond
<1>2. Active /\ resp = "none" /\ \A c \in Clusters : st[c] \notin {"asked", "listed"}
  BY <1>1 DEF Waited, Active
<1>3. \A o \in reply' : \E c \in Clusters : o \in got[c]
  BY <1>1
<1>4. \A o \in reply' : o \in Object /\ o[3] <= lastUid
  BY <1>3 DEF IInv, TypeOK, UidsKept
<1>5. TypeOK'
  BY <1>1, <1>4 DEF IInv, TypeOK
<1>6. RequestKept' /\ CallsKept' /\ AnswersKept'
  BY <1>1, <1>2, ResponseKept
<1>7. UidsKept' /\ StableKept' /\ GoneKept'
  BY <1>1, <1>4 DEF IInv, UidsKept, StableKept, GoneKept, Active
<1>8. WriteIsUnambiguous' /\ WriteHitsLocated'
  BY <1>1 DEF WriteIsUnambiguous, WriteHitsLocated, Collection, Single
<1>9. StableIsFound'
  <2> SUFFICES ASSUME NEW o \in stable, req.op = "list", req.limit = 0, o[1] \in req.selected
               PROVE  o \in reply'
    BY <1>1 DEF StableIsFound
  <2>1. o \in Object /\ o[1] \in Clusters
    BY ObjectType DEF IInv, TypeOK
  <2>2. st[o[1]] = "answered"
    BY <1>1, <2>1, AllAnswered DEF Asked
  <2>3. o \in got[o[1]]
    BY <2>2 DEF IInv, StableKept
  <2> QED
    BY <1>1, <2>1, <2>3
<1>10. ReportedIsDeleted'
  <2>1. ASSUME req.op = "deleteCollection", req.option # "dryRun", NEW o \in reply',
               o \in Objects(store)
        PROVE  o \in ending
    <3>1. PICK c \in Clusters : o \in got[c]
      BY <1>3, <2>1
    <3>2. st[c] = "answered"
      BY <1>1, <1>2, <3>1 DEF IInv, CallsKept, GroupFailed
    <3>3. store[o[1]][o[2]] = o[3]
      BY <2>1, InStore
    <3> QED
      BY <1>2, <2>1, <3>1, <3>2, <3>3 DEF IInv, GoneKept
  <2>2. req.option = "dryRun" => deleted = {}
    BY <1>2 DEF IInv, RequestKept
  <2> QED
    BY <1>1, <2>1, <2>2 DEF ReportedIsDeleted, Collection, Objects
<1> QED
  BY <1>5, <1>6, <1>7, <1>8, <1>9, <1>10 DEF IInv, PropertiesKept

\* The errors of the handlers.
LEMMA ErrorStep ==
    ASSUME IInv,
           \/ RespondFailed \/ RespondUnknown \/ RespondMissing \/ RespondAmbiguous
           \/ CreateWithoutTarget
           \/ \E c \in Clusters : WriteRefused(c) \/ CreateRefused(c)
    PROVE  IInv'
<1>1. CASE RespondMissing
  <2>1. /\ Waited /\ ~GroupFailed /\ req.op \in Single /\ Hits = {}
        /\ Refuse("notFound")
    BY <1>1 DEF RespondMissing
  <2>2. Active /\ resp = "none" /\ \A c \in Clusters : st[c] \notin {"asked", "listed"}
    BY <2>1 DEF Waited, Active
  <2>3. ASSUME req.pin = NoCluster, NEW o \in stable, o[2] = req.name
        PROVE  FALSE
    <3>1. o \in Object /\ o[1] \in Clusters
      BY ObjectType DEF IInv, TypeOK
    <3>2. o[1] \in Asked(req)
      BY <2>1, <2>3, <3>1 DEF Asked, Single, Collection
    <3>3. st[o[1]] = "answered"
      BY <2>1, <3>1, <3>2, AllAnswered
    <3>4. o \in got[o[1]]
      BY <2>1, <2>3, <3>3 DEF IInv, StableKept
    <3> QED
      BY <2>1, <3>1, <3>4 DEF Hits
  <2> QED
    BY <2>1, <2>2, <2>3, RefuseStep
<1>2. CASE \/ RespondFailed \/ RespondUnknown \/ RespondAmbiguous \/ CreateWithoutTarget
           \/ \E c \in Clusters : WriteRefused(c) \/ CreateRefused(c)
  <2>1. \E r \in {"conflict", "badRequest", "internal", "remote"} : Refuse(r)
    BY <1>2 DEF RespondFailed, RespondUnknown, RespondAmbiguous, CreateWithoutTarget,
       WriteRefused, CreateRefused
  <2>2. /\ Active /\ resp = "none"
        /\ req.op = "create" \/ \A c \in Clusters : st[c] \notin {"asked", "listed"}
    BY <1>2 DEF RespondFailed, RespondUnknown, RespondAmbiguous, CreateWithoutTarget,
       WriteRefused, CreateRefused, Located, MayCreate, Waited, Active
  <2> QED
    BY <2>1, <2>2, RefuseStep
<1> QED
  BY <1>1, <1>2

\* The request is over.
LEMMA FinishStep == ASSUME IInv, Finish PROVE IInv'
<1>1. /\ req' = NoRequest /\ resp' = "none"
      /\ st' = [c \in Clusters |-> "idle"] /\ got' = [c \in Clusters |-> {}]
      /\ reply' = {} /\ created' = {} /\ deleted' = {} /\ stable' = {}
      /\ UNCHANGED <<store, ending, lastUid>>
  BY DEF Finish
<1>2. TypeOK'
  BY <1>1 DEF IInv, TypeOK
<1>3. RequestKept' /\ CallsKept' /\ AnswersKept' /\ UidsKept' /\ StableKept' /\ GoneKept'
  BY <1>1 DEF IInv, RequestKept, CallsKept, AnswersKept, UidsKept, StableKept, GoneKept, Active
<1>4. PropertiesKept'
  BY <1>1 DEF PropertiesKept, WriteIsUnambiguous, WriteHitsLocated, StableIsFound, ReportedIsDeleted
<1> QED
  BY <1>2, <1>3, <1>4 DEF IInv

\* The requests that ask members are well formed.
LEMMA RequestsStep ==
    ASSUME IInv,
           \/ \E n \in Names : Get(n) \/ \E option \in Option : Delete(n, option)
           \/ \E n \in Names, pin \in Clusters \union {NoCluster, Unknown} :
                \E op \in {"update", "apply", "status"}, option \in Option :
                  Update(op, n, pin, option)
           \/ \E sel \in SUBSET Clusters :
                \/ \E option \in {"none", "dryRun"} : DeleteCollection(sel, option)
                \/ \E limit \in Limits : List(sel, limit)
    PROVE  IInv'
<1>1. \A op \in Single, n \in Names, pin \in Clusters \union {NoCluster, Unknown}, option \in Option :
        /\ ForName(op, n, pin, option) \in Request
        /\ ForName(op, n, pin, option).op = op /\ ForName(op, n, pin, option).name = n
  BY LimitsAssumption DEF ForName, Request
<1>2. \A op \in Collection, sel \in SUBSET Clusters, limit \in Limits, option \in Option :
        /\ ForClusters(op, sel, limit, option) \in Request
        /\ ForClusters(op, sel, limit, option).op = op
  BY DEF ForClusters, Request
<1>3. CASE \E op \in Single, n \in Names, pin \in Clusters \union {NoCluster, Unknown},
             option \in Option : Begin(ForName(op, n, pin, option))
  BY <1>1, <1>3, BeginStep DEF Single
<1>4. CASE \E op \in Collection, sel \in SUBSET Clusters, limit \in Limits, option \in Option :
             Begin(ForClusters(op, sel, limit, option))
  BY <1>2, <1>4, BeginStep DEF Collection
<1> QED
  BY <1>3, <1>4, LimitsAssumption
  DEF Get, Delete, Update, DeleteCollection, List, Single, Collection, Option

\* Every step keeps the invariant.
LEMMA StepInv == ASSUME IInv, [Next]_vars PROVE IInv'
<1>1. CASE UNCHANGED vars
  BY <1>1 DEF vars, IInv, TypeOK, RequestKept, CallsKept, AnswersKept, UidsKept, StableKept,
     GoneKept, PropertiesKept, WriteIsUnambiguous, WriteHitsLocated, StableIsFound,
     ReportedIsDeleted, Active, Objects
<1>2. CASE \E n \in Names, pin \in Clusters \union {NoCluster, Unknown},
             option \in {"none", "dryRun"} : Create(n, pin, option)
  BY <1>2, CreateStep DEF Option
<1> QED
  BY <1>1, <1>2, OtherCreatesStep, OtherDeletesStep, RequestsStep, AnswerStep,
     DeleteMembersStep, FoundStep, DeleteObjectStep, CreateObjectStep, CollectionStep,
     ErrorStep, FinishStep DEF Next

-----------------------------------------------------------------------------
(* Theorems *)

\* The inductive invariant of a request to a served resource.
THEOREM Invariance == Spec => []IInv
BY InitInv, StepInv, PTL DEF Spec

\* The variables of Storage keep their types (reader.go, writer.go, status.go).
THEOREM TypeCorrect == Spec => []TypeOK
<1>1. IInv => TypeOK
  BY DEF IInv
<1> QED
  BY <1>1, Invariance, PTL

\* Whatever others do to the members meanwhile, a request for one object touches one
\* cluster: the pinned one, or the only one of all that has the object (locate).
THEOREM WritesUnambiguous == Spec => []WriteIsUnambiguous
<1>1. IInv => WriteIsUnambiguous
  BY DEF IInv, PropertiesKept
<1> QED
  BY <1>1, Invariance, PTL

\* What exists all through a request is in its unlimited list and is not reported as
\* NotFound (List and locate).
THEOREM StableFound == Spec => []StableIsFound
<1>1. IInv => StableIsFound
  BY DEF IInv, PropertiesKept
<1> QED
  BY <1>1, Invariance, PTL

\* A write or a delete that carries the identity of what locate found changes that
\* object and no other, whoever deletes it and creates it again meanwhile (Update,
\* StatusStorage.Update, Delete).
THEOREM WritesHitLocated == Spec => []WriteHitsLocated
<1>1. IInv => WriteHitsLocated
  BY DEF IInv, PropertiesKept
<1> QED
  BY <1>1, Invariance, PTL

\* What a Delete or a DeleteCollection reports as deleted is gone or ending for as long
\* as the response is on its way, and a dry run deletes nothing (Delete,
\* DeleteCollection).
THEOREM ReportedDeleted == Spec => []ReportedIsDeleted
<1>1. IInv => ReportedIsDeleted
  BY DEF IInv, PropertiesKept
<1> QED
  BY <1>1, Invariance, PTL
=============================================================================
