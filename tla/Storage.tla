------------------------------- MODULE Storage -------------------------------
(***************************************************************************)
(* Requests to one served resource: reader.go, writer.go and status.go of  *)
(* pkg/apiserver/storage.  A request names an object, not a cluster, so it *)
(* asks the members first, concurrently, and then writes to the one that   *)
(* has the object; or it selects clusters and fans out.                    *)
(*                                                                         *)
(* The members are written to by others all the time, other requests to    *)
(* this server included; between any two steps of the request objects come *)
(* and go.  An object is <<cluster, name, uid>>; a uid is never reused, so *)
(* an object that is deleted and created again is another one.  A deleted  *)
(* object that a finalizer or a grace period holds back stays in its       *)
(* member, ending, for as long as that takes.  A response made of such     *)
(* triples is what stamp leaves: every object names the cluster it was     *)
(* read from or written to.                                                *)
(***************************************************************************)
EXTENDS Integers, FiniteSets

CONSTANTS
    Clusters,   \* the clusters that serve the resource
    Names,      \* object names
    NoName,     \* the name of a request for a collection
    NoCluster,  \* no cluster annotation
    Unknown,    \* an annotation that names none of Clusters
    NoRequest,  \* no request is being served
    MaxUid,     \* bound on the objects ever created
    Limits      \* limits a client may put on a list; 0 is none

ASSUME MaxUidAssumption == MaxUid \in Nat
ASSUME LimitsAssumption == Limits \subseteq Nat /\ 0 \in Limits
ASSUME ClustersFinite == IsFiniteSet(Clusters)
ASSUME NamesOfNoCluster == NoCluster \notin Clusters /\ Unknown \notin Clusters

VARIABLES
    store,     \* the uid each member has under each name; 0 is none
    ending,    \* objects that are deleted and still there
    lastUid,   \* the last uid given out
    req,       \* the request
    st,        \* the request to each member
    got,       \* its answer
    resp,      \* "none", "ok" or the kind of error
    reply,     \* the objects in the response
    created,   \* objects the request created
    deleted,   \* objects that the members deleted for the request
    stable     \* objects that have existed since the request began

vars == <<store, ending, lastUid, req, st, got, resp, reply, created, deleted, stable>>

Objects(s) == {o \in Clusters \X Names \X (1 .. MaxUid) : s[o[1]][o[2]] = o[3]}

Single == {"get", "delete", "update", "status", "apply"}
Collection == {"list", "deleteCollection"}

\* What decides about a write beside its target.  "exact": it carries the uid and the
\* version of the object that was located, as an object computed from that one does,
\* or a precondition of the delete.  "dryRun": the member is to store nothing.
Option == {"none", "exact", "dryRun"}

Request ==
    [op : Single \union Collection \union {"create"}, name : Names \union {NoName},
     pin : Clusters \union {NoCluster, Unknown}, selected : SUBSET Clusters,
     limit : Limits, option : Option]

ASSUME NoRequestAssumption == NoRequest \notin Request

Object == Clusters \X Names \X (1 .. MaxUid)

\* The request, its answers and its response keep their types; in particular
\* every object a response or a delete names is one that a member had.
TypeOK ==
    /\ store \in [Clusters -> [Names -> 0 .. MaxUid]]
    /\ ending \subseteq Object
    /\ lastUid \in 0 .. MaxUid
    /\ req \in Request \union {NoRequest}
    /\ st \in [Clusters -> {"idle", "asked", "listed", "answered", "failed"}]
    /\ got \in [Clusters -> SUBSET Object]
    /\ resp \in {"none", "ok", "notFound", "conflict", "badRequest", "internal", "remote"}
    /\ reply \subseteq Object
    /\ created \subseteq Object
    /\ deleted \subseteq Object
    /\ stable \subseteq Object

Init ==
    /\ store = [c \in Clusters |-> [n \in Names |-> 0]]
    /\ ending = {}
    /\ lastUid = 0
    /\ req = NoRequest
    /\ st = [c \in Clusters |-> "idle"]
    /\ got = [c \in Clusters |-> {}]
    /\ resp = "none"
    /\ reply = {} /\ created = {} /\ deleted = {} /\ stable = {}

-----------------------------------------------------------------------------
(* The members, as others change them *)

OtherCreates(c, n) ==
    /\ store[c][n] = 0 /\ lastUid < MaxUid
    /\ store' = [store EXCEPT ![c][n] = lastUid + 1]
    /\ lastUid' = lastUid + 1
    /\ UNCHANGED <<ending, req, st, got, resp, reply, created, deleted, stable>>

Without(objects) ==
    [c \in Clusters |-> [n \in Names |->
        IF <<c, n, store[c][n]>> \in objects THEN 0 ELSE store[c][n]]]

\* A member deletes objects: those that are held back stay, ending, the others go.
MemberDeletes(objects) ==
    \E held \in SUBSET objects :
        /\ store' = Without(objects \ held)
        /\ ending' = (ending \ objects) \union held
        /\ stable' = stable \ (objects \ held)

\* Others delete an object, or what held it back is over and it goes.
OtherDeletes(c, n) ==
    /\ store[c][n] # 0
    /\ MemberDeletes({<<c, n, store[c][n]>>})
    /\ UNCHANGED <<lastUid, req, st, got, resp, reply, created, deleted>>

-----------------------------------------------------------------------------
(* A request begins *)

\* The members a request asks.  An annotation in the body of an update pins it
\* to that cluster (bodyCluster); only the cluster part of a label selector
\* decides for a collection (splitClusterSelector).
Asked(r) ==
    IF r.op \in Collection THEN r.selected
    ELSE IF r.pin # NoCluster THEN {r.pin} \intersect Clusters
    ELSE Clusters

Begin(r) ==
    /\ req = NoRequest
    /\ req' = r
    /\ st' = [c \in Clusters |-> IF c \in Asked(r) THEN "asked" ELSE "idle"]
    /\ stable' = Objects(store)
    /\ UNCHANGED <<store, ending, lastUid, got, resp, reply, created, deleted>>

ForName(op, n, pin, option) ==
    [op |-> op, name |-> n, pin |-> pin, selected |-> {}, limit |-> 0, option |-> option]

ForClusters(op, sel, limit, option) ==
    [op |-> op, name |-> NoName, pin |-> NoCluster, selected |-> sel, limit |-> limit,
     option |-> option]

Get(n) == Begin(ForName("get", n, NoCluster, "none"))

Delete(n, option) == Begin(ForName("delete", n, NoCluster, option))

\* "apply" is an update with forceAllowCreate, "status" one of the subresource.
Update(op, n, pin, option) == Begin(ForName(op, n, pin, option))

List(sel, limit) == Begin(ForClusters("list", sel, limit, "none"))

DeleteCollection(sel, option) == Begin(ForClusters("deleteCollection", sel, 0, option))

\* Create asks nobody.
Create(n, pin, option) ==
    /\ req = NoRequest
    /\ req' = ForName("create", n, pin, option)
    /\ stable' = Objects(store)
    /\ UNCHANGED <<store, ending, lastUid, st, got, resp, reply, created, deleted>>

-----------------------------------------------------------------------------
(* The fan-out *)

AtCluster(c) == {o \in Objects(store) : o[1] = c}

\* A list with a limit is answered with that many objects at most.
Answers(c) ==
    IF req.op \in Single THEN {{o \in AtCluster(c) : o[2] = req.name}}
    ELSE IF req.limit = 0 THEN {AtCluster(c)}
    ELSE {s \in SUBSET AtCluster(c) :
            \/ Cardinality(s) = req.limit
            \/ s = AtCluster(c) /\ Cardinality(s) < req.limit}

\* A member answers the Get or the List; DeleteCollection has not deleted yet.
Answer(c) ==
    /\ st[c] = "asked"
    /\ \E answer \in Answers(c) : got' = [got EXCEPT ![c] = answer]
    /\ st' = [st EXCEPT ![c] = IF req.op = "deleteCollection" THEN "listed" ELSE "answered"]
    /\ UNCHANGED <<store, ending, lastUid, req, resp, reply, created, deleted, stable>>

\* A call fails, also because the failure of another one cancelled the group.
AnswerFails(c) ==
    /\ st[c] = "asked"
    /\ st' = [st EXCEPT ![c] = "failed"]
    /\ UNCHANGED <<store, ending, lastUid, req, got, resp, reply, created, deleted, stable>>

\* The member deletes, unless it is told to store nothing.
Deletes(objects) ==
    IF req.option = "dryRun" THEN UNCHANGED <<store, ending, deleted, stable>>
    ELSE MemberDeletes(objects) /\ deleted' = deleted \union objects

\* Mutant: the member fails and its list is reported all the same.
DeleteMembersLoses(c) ==
    /\ st[c] = "listed"
    /\ st' = [st EXCEPT ![c] = "answered"]
    /\ UNCHANGED <<store, ending, lastUid, req, got, resp, reply, created, deleted, stable>>

\* The member's own DeleteCollection: of what is there now, whatever was listed.
DeleteMembers(c) ==
    /\ st[c] = "listed"
    /\ Deletes(AtCluster(c))
    /\ st' = [st EXCEPT ![c] = "answered"]
    /\ UNCHANGED <<lastUid, req, got, resp, reply, created>>

\* It fails half way.
DeleteMembersFails(c) ==
    /\ st[c] = "listed"
    /\ \E some \in SUBSET AtCluster(c) : Deletes(some)
    /\ st' = [st EXCEPT ![c] = "failed"]
    /\ UNCHANGED <<lastUid, req, got, resp, reply, created>>

-----------------------------------------------------------------------------
(* The end of the request *)

\* group.Wait has returned.
Waited ==
    /\ req # NoRequest /\ resp = "none" /\ req.op # "create"
    /\ \A c \in Clusters : st[c] \notin {"asked", "listed"}

\* Mutant: an unreachable cluster narrows the probe.
GroupNeverFailed == FALSE

GroupFailed == \E c \in Clusters : st[c] = "failed"

Hits == {c \in Clusters : got[c] # {}}

Respond(r, objects) ==
    /\ resp' = r
    /\ reply' = objects
    /\ UNCHANGED <<lastUid, req, st, got>>

Refuse(r) == Respond(r, {}) /\ UNCHANGED <<store, ending, created, deleted, stable>>

\* A failed group is an internal error; with a pin the member's error passes.
RespondFailed ==
    /\ Waited /\ GroupFailed
    /\ Refuse(IF req.pin = NoCluster THEN "internal" ELSE "remote")

\* The pin names a cluster that does not serve the resource.
RespondUnknown ==
    /\ Waited /\ req.op \in Single /\ req.pin = Unknown
    /\ Refuse("badRequest")

\* Mutant: of several hits the first one wins.
AmbiguousNever == FALSE

Ambiguous == Cardinality(Hits) > 1

\* locate found exactly one cluster, c.
Located(c) ==
    /\ Waited /\ ~GroupFailed /\ req.op \in Single /\ req.pin # Unknown
    /\ ~Ambiguous /\ c \in Hits

RespondMissing ==
    /\ Waited /\ ~GroupFailed /\ req.op \in Single /\ req.pin # Unknown
    /\ Hits = {} /\ req.op # "apply"
    /\ Refuse("notFound")

RespondAmbiguous ==
    /\ Waited /\ ~GroupFailed /\ req.op \in Single
    /\ Ambiguous
    /\ Refuse("conflict")

RespondGet(c) ==
    /\ Located(c) /\ req.op = "get"
    /\ Respond("ok", got[c])
    /\ UNCHANGED <<store, ending, created, deleted, stable>>

\* The object that the write meets in the cluster it goes to.
Met(c) == <<c, req.name, store[c][req.name]>>

\* Mutant: what identifies the located object is taken out of the write.
AcceptsAny(c) == store[c][req.name] # 0

\* There is an object of that name, and it is the located one where the write says so.
Accepts(c) ==
    /\ store[c][req.name] # 0
    /\ req.option = "exact" => Met(c) \in got[c]

\* The object is written to the cluster it was found in, if it is still there.
Write(c) ==
    /\ Accepts(c)
    /\ Respond("ok", {Met(c)})
    /\ UNCHANGED <<store, ending, created, deleted, stable>>

WriteObject(c) == Located(c) /\ req.op \in {"update", "apply"} /\ Write(c)

WriteStatus(c) == Located(c) /\ req.op = "status" /\ Write(c)

\* Mutant: the delete of an object that is gone succeeds.
DeleteObjectGone(c) ==
    /\ Located(c) /\ req.op = "delete"
    /\ Deletes({Met(c)})
    /\ Respond("ok", got[c])
    /\ UNCHANGED created

\* The object is deleted by name in the cluster it was found in; the response is
\* the object that was found.
DeleteObject(c) ==
    /\ Located(c) /\ req.op = "delete"
    /\ Accepts(c)
    /\ Deletes({Met(c)})
    /\ Respond("ok", got[c])
    /\ UNCHANGED created

\* The member or a validation refuses the write, or the object is gone.
WriteRefused(c) ==
    /\ Located(c) /\ req.op # "get"
    /\ Refuse("remote")

\* The cluster a new object goes to: the annotated one, or the only one.
Target(c) == c = req.pin \/ (req.pin = NoCluster /\ Clusters = {c})

\* Create, or an apply of what locate did not find.
MayCreate ==
    \/ req # NoRequest /\ resp = "none" /\ req.op = "create"
    \/ Waited /\ ~GroupFailed /\ req.op = "apply" /\ req.pin # Unknown /\ Hits = {}

\* A dry run is answered with an object too, which has a uid and is in no store.
CreateObject(c) ==
    /\ MayCreate /\ Target(c)
    /\ store[c][req.name] = 0 /\ lastUid < MaxUid
    /\ LET object == <<c, req.name, lastUid + 1>> IN
       /\ resp' = "ok" /\ reply' = {object}
       /\ IF req.option = "dryRun" THEN UNCHANGED <<store, created>>
          ELSE /\ store' = [store EXCEPT ![c][req.name] = lastUid + 1]
               /\ created' = {object}
    /\ lastUid' = lastUid + 1
    /\ UNCHANGED <<ending, req, st, got, deleted, stable>>

\* The name is taken, or the member or a validation refuses.
CreateRefused(c) ==
    /\ MayCreate /\ Target(c)
    /\ Refuse("remote")

CreateWithoutTarget ==
    /\ MayCreate /\ ~\E c \in Clusters : Target(c)
    /\ Refuse("badRequest")

\* The answers of all selected members, merged.
RespondCollection ==
    /\ Waited /\ ~GroupFailed /\ req.op \in Collection
    /\ Respond("ok", UNION {got[c] : c \in Clusters})
    /\ UNCHANGED <<store, ending, created, deleted, stable>>

\* The response is sent and the server is ready for the next request.
Finish ==
    /\ resp # "none"
    /\ req' = NoRequest
    /\ st' = [c \in Clusters |-> "idle"]
    /\ got' = [c \in Clusters |-> {}]
    /\ resp' = "none"
    /\ reply' = {} /\ created' = {} /\ deleted' = {} /\ stable' = {}
    /\ UNCHANGED <<store, ending, lastUid>>

Next ==
    \/ \E c \in Clusters, n \in Names : OtherCreates(c, n) \/ OtherDeletes(c, n)
    \/ \E n \in Names : Get(n) \/ \E option \in Option : Delete(n, option)
    \/ \E n \in Names, pin \in Clusters \union {NoCluster, Unknown} :
         \/ \E option \in {"none", "dryRun"} : Create(n, pin, option)
         \/ \E op \in {"update", "apply", "status"}, option \in Option :
              Update(op, n, pin, option)
    \/ \E sel \in SUBSET Clusters :
         \/ \E option \in {"none", "dryRun"} : DeleteCollection(sel, option)
         \/ \E limit \in Limits : List(sel, limit)
    \/ \E c \in Clusters :
         \/ Answer(c) \/ AnswerFails(c) \/ DeleteMembers(c) \/ DeleteMembersFails(c)
         \/ RespondGet(c) \/ WriteObject(c) \/ WriteStatus(c) \/ DeleteObject(c)
         \/ WriteRefused(c) \/ CreateObject(c) \/ CreateRefused(c)
    \/ RespondFailed \/ RespondUnknown \/ RespondMissing \/ RespondAmbiguous
    \/ CreateWithoutTarget \/ RespondCollection
    \/ Finish

Spec == Init /\ [][Next]_vars

-----------------------------------------------------------------------------
(* Properties *)

\* A write or a delete without a pin reaches a member only if every other member
\* has been asked and had no object of that name: a member that does not answer,
\* or a second holder, stops it ("fails closed", locate).  A pinned one reaches the
\* cluster of its pin, also when it ends in a create, and touches no namesake in
\* another.
WriteIsUnambiguous ==
    resp = "ok" /\ req.op \in Single =>
        \E c \in Clusters :
            /\ \A o \in reply \union deleted \union created : o[1] = c
            /\ req.pin \in {c, NoCluster}
            /\ req.pin = NoCluster =>
                 \A d \in Clusters \ {c} : st[d] = "answered" /\ got[d] = {}

\* A write that carries the identity of the object that locate found, and a delete with
\* a precondition, changes that object or fails: one that others deleted and created
\* again under its name meanwhile is neither written nor deleted, and what is
\* reported as deleted is what was deleted (Update, StatusStorage.Update, Delete).
WriteHitsLocated ==
    resp = "ok" /\ req.op \in Single /\ req.option = "exact" =>
        /\ (reply \union deleted) \ created \subseteq UNION {got[c] : c \in Clusters}
        /\ req.op = "delete" => reply = deleted

\* What exists in a member all through the request is not missed: a list without
\* a limit over its cluster has it, and a request without a pin for its name does
\* not end in NotFound.
StableIsFound ==
    \A o \in stable :
        /\ resp = "ok" /\ req.op = "list" /\ req.limit = 0 /\ o[1] \in req.selected
             => o \in reply
        /\ resp = "notFound" /\ req.pin = NoCluster => o[2] # req.name

\* An object that a delete reports as deleted is gone or ending for as long as the
\* response is on its way, whoever else wrote to the member between the probe or the
\* list and the delete; a dry run deletes nothing (Delete, DeleteCollection).
ReportedIsDeleted ==
    resp = "ok" /\ req.op \in {"delete", "deleteCollection"} =>
        IF req.option = "dryRun" THEN deleted = {}
        ELSE reply \intersect Objects(store) \subseteq ending

\* "list all pods on the api-aggregator will returns all pods": a list has every
\* object of the selected clusters that was there all along.
ListIsComplete ==
    resp = "ok" /\ req.op = "list" =>
        {o \in stable : o[1] \in req.selected} \subseteq reply
=============================================================================
