-------------------------- MODULE ModelDeployment --------------------------
(***************************************************************************)
(* The operator's ModelDeployment controller                               *)
(* (operator/internal/controller/modeldeployment_controller.go), together  *)
(* with the gateway-route syncer and the KEDA reconciler it calls.         *)
(*                                                                         *)
(* One worker runs Reconcile.  Each call it makes to the API server, the   *)
(* catalog or the weights bucket is one action, so users, the budget       *)
(* controller, KEDA, the garbage collector and the informers interleave    *)
(* between any two of them.  The worker READS through the informer cache   *)
(* (mdC, childC, routesC), which may lag behind the API server (md, child, *)
(* routes), and WRITES to the API server, which refuses an update whose    *)
(* resourceVersion is not the latest.                                      *)
(*                                                                         *)
(* A resourceVersion is only ever compared with the server's latest, so it *)
(* is modelled by one bit per held copy: mdFresh, childFresh, routesFresh  *)
(* for the cached copies and rv for the worker's in-memory object.         *)
(***************************************************************************)
EXTENDS Naturals, FiniteSets

CONSTANTS
    MD,                 \* names of ModelDeployments
    Digest,             \* weight digests the catalog publishes
    NoDigest,           \* the empty string: Status.WeightDigest of a new object
    Absent,             \* no such object (404)
    NoName,             \* the worker processes nothing
    Specs,              \* the specs users submit
    MaxReplicas,        \* how far KEDA may scale a Deployment out
    NoConfigMap,        \* the ConfigMap of the routes does not exist
    ConfigMapAtInstall, \* the chart installs that ConfigMap, empty
    KedaRegistered,     \* the manager's scheme knows KEDA's types: at this
                        \* commit it does not (operator/cmd/main.go:28-36)
    Limit               \* bound on each kind of environment event

Engine  == {"vllm", "sglang"}
Kind    == {"Deployment", "Service", "ScaledObject"}
Phase   == {"", "Pending", "BudgetPaused"}
Scale   == {"fixed", "toZero", "keepOne"}
Verdict == {"Unknown", "True", "False"}
Event   == {"user", "fault", "budget", "scale", "crash"}

(* A ModelDeployment.  engine and scale stand for the spec (scale: fixed,  *)
(* without scaleToZero; toZero and keepOne, with it and with minReplicas   *)
(* 0 or 1), weights and routable for the two conditions the reconciler     *)
(* sets; routable is also status.endpoint, always written with it.         *)
Object == [engine : Engine, scale : Scale, deleting : BOOLEAN,
           finalizer : BOOLEAN, phase : Phase, weights : Verdict,
           digest : Digest \cup {NoDigest}, routable : BOOLEAN]

(* An object the ModelDeployment owns.  engine decides its contents (image *)
(* and arguments, port, metric); orphan: its owner's uid no longer exists. *)
Child == [engine : Engine, replicas : 0..MaxReplicas, orphan : BOOLEAN]


PC == {"idle", "addFinalizer", "getModel", "verify", "failStatus",
       "deployment", "service", "scaledobject", "route", "status",
       "removeRoute", "removeFinalizer"}

ASSUME ConstantsAssumption ==
    /\ IsFiniteSet(MD)
    /\ NoName \notin MD
    /\ NoDigest \notin Digest
    /\ Absent \notin Object
    /\ Absent \notin Child
    /\ \A rs \in SUBSET MD : NoConfigMap # rs
    /\ Specs \subseteq Engine \X Scale
    /\ MaxReplicas \in Nat \ {0}
    /\ ConfigMapAtInstall \in BOOLEAN
    /\ KedaRegistered \in BOOLEAN
    /\ Limit \in [Event -> Nat]

VARIABLES
    md, child, routes,               \* the API server
    mdC, childC, routesC,            \* the informer cache
    mdFresh, childFresh, routesFresh,\* which cached copies are the latest
    queue,                           \* the controller's work queue
    pc, cur, obj, rv, model,         \* the worker: where it is, the object's
                                     \* name, its copy, that copy's version,
                                     \* and the digest the catalog returned
    catalog, bucket,                 \* digest published / digest stored, per MD
    verified,                        \* history: pairs VerifyWeights passed
    uses                             \* how often each bounded event happened

serverVars == <<md, child, routes>>
cacheVars  == <<mdC, childC, routesC, mdFresh, childFresh, routesFresh>>
workerVars == <<pc, cur, obj, rv, model>>
storeVars  == <<catalog, bucket>>
vars == <<serverVars, cacheVars, queue, workerVars, storeVars, verified, uses>>

-----------------------------------------------------------------------------
NewObject(spec) ==
    [engine |-> spec[1], scale |-> spec[2], deleting |-> FALSE, finalizer |-> FALSE,
     phase |-> "", weights |-> "Unknown", digest |-> NoDigest,
     routable |-> FALSE]

NewChild(o, k) ==
    [engine |-> o.engine, orphan |-> FALSE,
     replicas |-> IF k = "Deployment" /\ o.scale # "toZero" THEN 1 ELSE 0]

(* When an owner is gone its children are left to the garbage collector.   *)
Orphaned(m) ==
    [c \in MD \X Kind |-> IF c[1] = m /\ child[c] # Absent
                          THEN [child[c] EXCEPT !.orphan = TRUE] ELSE child[c]]

Spend(e) == /\ uses[e] < Limit[e]
            /\ uses' = [uses EXCEPT ![e] = @ + 1]

Init ==
    /\ md = [m \in MD |-> Absent] /\ mdC = md /\ mdFresh = MD
    /\ child = [c \in MD \X Kind |-> Absent] /\ childC = child
    /\ childFresh = MD \X Kind
    /\ routes = IF ConfigMapAtInstall THEN {} ELSE NoConfigMap
    /\ routesC = routes /\ routesFresh = TRUE
    /\ queue = {}
    /\ pc = "idle" /\ cur = NoName /\ obj = Absent /\ rv = FALSE
    /\ model = NoDigest
    /\ catalog \in [MD -> Digest] /\ bucket = catalog
    /\ verified = {}
    /\ uses = [e \in Event |-> 0]

-----------------------------------------------------------------------------
(* The environment's writes to a ModelDeployment: the worker's copy of it, *)
(* if it holds one, and the cached copy stop being the latest version.     *)
WriteByOther(m, o) ==
    /\ o # md[m]
    /\ md' = [md EXCEPT ![m] = o]
    /\ mdFresh' = mdFresh \ {m}
    /\ rv' = (rv /\ cur # m)
    /\ UNCHANGED <<routes, mdC, childC, routesC, routesFresh, queue,
                   pc, cur, obj, model, verified>>

UserCreates(m) ==
    /\ md[m] = Absent
    /\ \E spec \in Specs : WriteByOther(m, NewObject(spec))
    /\ Spend("user")
    /\ UNCHANGED <<child, childFresh, storeVars>>

UserEdits(m) ==
    /\ md[m] # Absent
    /\ \E spec \in Specs :
          WriteByOther(m, [md[m] EXCEPT !.engine = spec[1], !.scale = spec[2]])
    /\ Spend("user")
    /\ UNCHANGED <<child, childFresh, storeVars>>

(* DELETE: with a finalizer the object is only marked; without, it is gone *)
UserDeletes(m) ==
    /\ md[m] # Absent /\ ~md[m].deleting
    /\ IF md[m].finalizer
       THEN /\ WriteByOther(m, [md[m] EXCEPT !.deleting = TRUE])
            /\ UNCHANGED <<child, childFresh>>
       ELSE /\ WriteByOther(m, Absent)
            /\ child' = Orphaned(m)
            /\ childFresh' = {c \in childFresh : child'[c] = child[c]}
    /\ Spend("user")
    /\ UNCHANGED storeVars

(* BudgetPolicyReconciler.pauseDeployment: a status update of a copy read  *)
(* from the same cache, refused unless that copy is the latest.            *)
BudgetPauses(m) ==
    /\ mdC[m] # Absent /\ m \in mdFresh
    /\ WriteByOther(m, [mdC[m] EXCEPT !.phase = "BudgetPaused"])
    /\ Spend("budget")
    /\ UNCHANGED <<child, childFresh, storeVars>>

(* ResumeModelDeployment: a merge patch of the phase, without a version.   *)
AdminResumes(m) ==
    /\ md[m] # Absent
    /\ WriteByOther(m, [md[m] EXCEPT !.phase = "Pending"])
    /\ Spend("budget")
    /\ UNCHANGED <<child, childFresh, storeVars>>

(* The catalog publishes another digest for the model, or the weights in   *)
(* the bucket are replaced (the right ones uploaded, or others).           *)
StoreChanges(m) ==
    /\ Spend("user")
    /\ \E d \in Digest :
          \/ d # catalog[m] /\ catalog' = [catalog EXCEPT ![m] = d]
             /\ UNCHANGED bucket
          \/ d # bucket[m] /\ bucket' = [bucket EXCEPT ![m] = d]
             /\ UNCHANGED catalog
    /\ UNCHANGED <<serverVars, cacheVars, queue, workerVars, verified>>

(* KEDA, another autoscaler or an administrator scales a Deployment, to    *)
(* any number: minReplicaCount is 0 whatever the spec's minReplicas.       *)
Scales(m) ==
    LET d == <<m, "Deployment">> IN
    /\ child[d] # Absent
    /\ \E n \in 0..MaxReplicas \ {child[d].replicas} :
          child' = [child EXCEPT ![d].replicas = n]
    /\ childFresh' = childFresh \ {d}
    /\ Spend("scale")
    /\ UNCHANGED <<md, routes, mdC, childC, routesC, mdFresh, routesFresh,
                   queue, workerVars, storeVars, verified>>

GarbageCollect(c) ==
    /\ child[c] # Absent /\ child[c].orphan
    /\ child' = [child EXCEPT ![c] = Absent]
    /\ childFresh' = childFresh \ {c}
    /\ UNCHANGED <<md, routes, mdC, childC, routesC, mdFresh, routesFresh,
                   queue, workerVars, storeVars, verified, uses>>

-----------------------------------------------------------------------------
(* The informers deliver the latest version; that of a ModelDeployment, or *)
(* of an object it owns, puts its name on the work queue.                  *)
SyncMD(m) ==
    /\ m \notin mdFresh
    /\ mdC' = [mdC EXCEPT ![m] = md[m]] /\ mdFresh' = mdFresh \cup {m}
    /\ queue' = queue \cup {m}
    /\ UNCHANGED <<serverVars, childC, routesC, childFresh, routesFresh,
                   workerVars, storeVars, verified, uses>>

SyncChild(c) ==
    /\ c \notin childFresh
    /\ childC' = [childC EXCEPT ![c] = child[c]]
    /\ childFresh' = childFresh \cup {c}
    /\ queue' = IF c[2] = "ScaledObject" THEN queue ELSE queue \cup {c[1]}
    /\ UNCHANGED <<serverVars, mdC, routesC, mdFresh, routesFresh,
                   workerVars, storeVars, verified, uses>>

SyncRoutes ==
    /\ ~routesFresh
    /\ routesC' = routes /\ routesFresh' = TRUE
    /\ UNCHANGED <<serverVars, mdC, childC, mdFresh, childFresh, queue,
                   workerVars, storeVars, verified, uses>>

(* The periodic resync (every 10 hours) replays the cache as events.       *)
Resync(m) ==
    /\ mdC[m] # Absent /\ m \notin queue
    /\ queue' = queue \cup {m}
    /\ UNCHANGED <<serverVars, cacheVars, workerVars, storeVars, verified,
                   uses>>

(* The operator dies: memory is lost; the new leader lists everything.     *)
OperatorRestarts ==
    /\ Spend("crash")
    /\ pc' = "idle" /\ cur' = NoName /\ obj' = Absent /\ rv' = FALSE
    /\ model' = NoDigest
    /\ mdC' = md /\ childC' = child /\ routesC' = routes
    /\ mdFresh' = MD /\ childFresh' = MD \X Kind /\ routesFresh' = TRUE
    /\ queue' = {m \in MD : md[m] # Absent \/
                            \E k \in Kind \ {"ScaledObject"} : child[<<m, k>>] # Absent}
    /\ UNCHANGED <<serverVars, storeVars, verified>>

-----------------------------------------------------------------------------
(* Reconcile.  Idle: the worker is done with the name and takes another.   *)
IdleWithoutReset ==                      \* mutant: the copy is not dropped
    pc' = "idle" /\ cur' = NoName /\ UNCHANGED <<obj, rv, model>>
Idle == /\ pc' = "idle" /\ cur' = NoName /\ obj' = Absent /\ rv' = FALSE
        /\ model' = NoDigest

(* Reconcile returns an error, or a result with RequeueAfter: the name is  *)
(* queued again (after a delay, which is not modelled).                    *)
Requeue == Idle /\ queue' = queue \cup {cur}

Goto(p) == pc' = p /\ UNCHANGED <<cur, queue>>

Start(m) ==
    LET o == mdC[m] IN
    /\ pc = "idle" /\ m \in queue
    /\ queue' = queue \ {m}
    /\ IF o = Absent \/ (o # Absent /\ o.deleting /\ ~o.finalizer)
       THEN UNCHANGED workerVars
       ELSE /\ cur' = m /\ obj' = o /\ rv' = (m \in mdFresh)
            /\ pc' = IF o.deleting THEN "removeRoute"
                     ELSE IF o.finalizer THEN "getModel" ELSE "addFinalizer"
            /\ UNCHANGED model
    /\ UNCHANGED <<serverVars, cacheVars, storeVars, verified, uses>>

(* The server accepts the worker's update of the object only if its copy   *)
(* is the latest version; the response replaces the copy.                  *)
AnyVersionAccepted == md[cur] # Absent   \* mutant: an unconditional update
VersionAccepted == rv

WriteMD(o) ==
    /\ md' = [md EXCEPT ![cur] = o]
    /\ mdFresh' = IF o = md[cur] THEN mdFresh ELSE mdFresh \ {cur}

AddFinalizer ==
    /\ pc = "addFinalizer"
    /\ IF VersionAccepted
       THEN /\ obj' = [obj EXCEPT !.finalizer = TRUE]
            /\ WriteMD(obj')
            /\ Goto("getModel") /\ UNCHANGED <<rv, model>>
       ELSE Requeue /\ UNCHANGED <<md, mdFresh>>
    /\ UNCHANGED <<child, routes, mdC, childC, routesC, childFresh,
                   routesFresh, storeVars, verified, uses>>

(* CatalogClient.GetModel, then weightsAlreadyVerified.                    *)
GetModelVerifyOnce ==          \* mutant: any digest in the status will do
    /\ pc = "getModel"
    /\ model' = catalog[cur]
    /\ Goto(IF obj.digest # NoDigest THEN "deployment" ELSE "verify")
    /\ UNCHANGED <<serverVars, cacheVars, obj, rv, storeVars, verified, uses>>
GetModel ==
    /\ pc = "getModel"
    /\ model' = catalog[cur]
    /\ Goto(IF obj.digest = catalog[cur] THEN "deployment" ELSE "verify")
    /\ UNCHANGED <<serverVars, cacheVars, obj, rv, storeVars, verified, uses>>

VerificationFails ==
    /\ obj' = [obj EXCEPT !.weights = "False"]
    /\ Goto("failStatus")
    /\ UNCHANGED <<rv, model, verified>>

(* CatalogClient.VerifyWeights hashes the object in the bucket.            *)
VerifyWeights ==
    /\ pc = "verify"
    /\ IF bucket[cur] = model
       THEN /\ obj' = [obj EXCEPT !.weights = "True", !.digest = model]
            /\ verified' = verified \cup {<<cur, model>>}
            /\ Goto("deployment") /\ UNCHANGED <<rv, model>>
       ELSE VerificationFails
    /\ UNCHANGED <<serverVars, cacheVars, storeVars, uses>>

(* The catalog or the bucket cannot be reached.                            *)
StoreUnavailable ==
    /\ pc \in {"getModel", "verify"}
    /\ VerificationFails
    /\ Spend("fault")
    /\ UNCHANGED <<serverVars, cacheVars, storeVars>>

(* The Status().Update of both failure paths: conflict or not, the name is *)
(* queued again.                                                           *)
FailStatus ==
    /\ pc = "failStatus"
    /\ IF VersionAccepted THEN WriteMD(obj) ELSE UNCHANGED <<md, mdFresh>>
    /\ Requeue
    /\ UNCHANGED <<child, routes, mdC, childC, routesC, childFresh,
                   routesFresh, storeVars, verified, uses>>

(* Get (from the cache), then Create if it is not there, else Update.  The *)
(* server refuses to create what exists and to update from an old copy.    *)
WriteChild(k, o) ==
    /\ child' = [child EXCEPT ![<<cur, k>>] = o]
    /\ childFresh' = IF o = child[<<cur, k>>] THEN childFresh
                     ELSE childFresh \ {<<cur, k>>}

CreateChild(k) ==
    /\ childC[<<cur, k>>] = Absent /\ child[<<cur, k>>] = Absent
    /\ WriteChild(k, NewChild(obj, k))

(* The contents are replaced; the replicas of the cached copy are kept.    *)
UpdateChildBlindly(k) ==       \* mutant: an update without a version
    /\ childC[<<cur, k>>] # Absent /\ child[<<cur, k>>] # Absent
    /\ WriteChild(k, [childC[<<cur, k>>] EXCEPT !.engine = obj.engine])
UpdateChildNever(k) ==         \* mutant: what exists is left as it is
    /\ childC[<<cur, k>>] # Absent /\ <<cur, k>> \in childFresh
    /\ UNCHANGED <<child, childFresh>>
UpdateChild(k) ==
    /\ childC[<<cur, k>>] # Absent /\ <<cur, k>> \in childFresh
    /\ WriteChild(k, [childC[<<cur, k>>] EXCEPT !.engine = obj.engine])

ChildRefused(k) ==
    IF childC[<<cur, k>>] = Absent THEN child[<<cur, k>>] # Absent
    ELSE <<cur, k>> \notin childFresh

ReconcileDeployment ==
    /\ pc = "deployment"
    /\ \/ /\ CreateChild("Deployment") \/ UpdateChild("Deployment")
          /\ Goto("service") /\ UNCHANGED <<obj, rv, model>>
       \/ /\ ChildRefused("Deployment")
          /\ Requeue /\ UNCHANGED <<child, childFresh>>
    /\ UNCHANGED <<md, routes, mdC, childC, routesC, mdFresh, routesFresh,
                   storeVars, verified, uses>>

(* A Service is created and never updated.                                 *)
ReconcileService ==
    /\ pc = "service"
    /\ \/ /\ \/ CreateChild("Service")
             \/ childC[<<cur, "Service">>] # Absent /\ UNCHANGED <<child, childFresh>>
          /\ Goto(IF obj.scale = "fixed" THEN "route" ELSE "scaledobject")
          /\ UNCHANGED <<obj, rv, model>>
       \/ /\ childC[<<cur, "Service">>] = Absent /\ ChildRefused("Service")
          /\ Requeue /\ UNCHANGED <<child, childFresh>>
    /\ UNCHANGED <<md, routes, mdC, childC, routesC, mdFresh, routesFresh,
                   storeVars, verified, uses>>

(* The Get needs KEDA's types in the scheme: without them the client       *)
(* returns an error before any request, and so does Reconcile.             *)
ReconcileScaledObject ==
    /\ pc = "scaledobject"
    /\ \/ /\ KedaRegistered
          /\ CreateChild("ScaledObject") \/ UpdateChild("ScaledObject")
          /\ Goto("route") /\ UNCHANGED <<obj, rv, model>>
       \/ /\ KedaRegistered => ChildRefused("ScaledObject")
          /\ Requeue /\ UNCHANGED <<child, childFresh>>
    /\ UNCHANGED <<md, routes, mdC, childC, routesC, mdFresh, routesFresh,
                   storeVars, verified, uses>>

(* Syncer.syncRoute reads the ConfigMap from the cache, changes one entry  *)
(* and writes the whole back: refused when the cached copy is not the      *)
(* latest, or when a ConfigMap the cache does not show exists already.     *)
(* Only the syncer writes it, so that what it reads is always YAML: that   *)
(* another text would be taken for an empty table is left out.             *)
RoutesNeverRefused == FALSE    \* mutant: the ConfigMap is written unconditionally
RoutesRefused == IF routesC = NoConfigMap THEN routes # NoConfigMap
                 ELSE ~routesFresh

WriteRoutes(rs) ==
    /\ routes' = rs
    /\ routesFresh' = (routesFresh /\ rs = routes)

(* AddRoute.  An error is only logged: the condition is set all the same.  *)
(* reconcileLoRAAdapters follows, and returns at its first guard: nothing  *)
(* ever sets the phase Running it waits for.                               *)
AddRouteOnce ==        \* mutant: trusts the condition and adds no route again
    /\ pc = "route"
    /\ IF RoutesRefused \/ obj.routable THEN UNCHANGED <<routes, routesFresh>>
       ELSE WriteRoutes({cur} \cup IF routesC = NoConfigMap THEN {} ELSE routesC)
    /\ obj' = [obj EXCEPT !.routable = TRUE]
    /\ Goto("status")
    /\ UNCHANGED <<md, child, mdC, childC, routesC, mdFresh, childFresh, rv,
                   model, storeVars, verified, uses>>
AddRoute ==
    /\ pc = "route"
    /\ IF RoutesRefused THEN UNCHANGED <<routes, routesFresh>>
       ELSE WriteRoutes({cur} \cup IF routesC = NoConfigMap THEN {} ELSE routesC)
    /\ obj' = [obj EXCEPT !.routable = TRUE]
    /\ Goto("status")
    /\ UNCHANGED <<md, child, mdC, childC, routesC, mdFresh, childFresh, rv,
                   model, storeVars, verified, uses>>

(* The last Status().Update.                                               *)
UpdateStatus ==
    /\ pc = "status"
    /\ IF VersionAccepted THEN WriteMD(obj) /\ Idle /\ UNCHANGED queue
       ELSE Requeue /\ UNCHANGED <<md, mdFresh>>
    /\ UNCHANGED <<child, routes, mdC, childC, routesC, childFresh,
                   routesFresh, storeVars, verified, uses>>

(* cleanup: RemoveRoute, whose error is returned.                          *)
RemoveRouteLogged ==       \* mutant: the error is only logged, as AddRoute's is
    /\ pc = "removeRoute"
    /\ IF routesC = NoConfigMap \/ RoutesRefused
       THEN UNCHANGED <<routes, routesFresh>>
       ELSE WriteRoutes(routesC \ {cur})
    /\ Goto("removeFinalizer") /\ UNCHANGED <<obj, rv, model>>
    /\ UNCHANGED <<md, child, mdC, childC, routesC, mdFresh, childFresh,
                   storeVars, verified, uses>>
RemoveRouteMustExist ==    \* mutant: a route that is not there is an error
    /\ pc = "removeRoute"
    /\ IF routesC = NoConfigMap \/ RoutesRefused \/ cur \notin routesC
       THEN Requeue /\ UNCHANGED <<routes, routesFresh>>
       ELSE /\ WriteRoutes(routesC \ {cur})
            /\ Goto("removeFinalizer") /\ UNCHANGED <<obj, rv, model>>
    /\ UNCHANGED <<md, child, mdC, childC, routesC, mdFresh, childFresh,
                   storeVars, verified, uses>>
RemoveRoute ==
    /\ pc = "removeRoute"
    /\ IF routesC # NoConfigMap /\ RoutesRefused
       THEN Requeue /\ UNCHANGED <<routes, routesFresh>>
       ELSE /\ IF routesC = NoConfigMap
               THEN UNCHANGED <<routes, routesFresh>>
               ELSE WriteRoutes(routesC \ {cur})
            /\ Goto("removeFinalizer") /\ UNCHANGED <<obj, rv, model>>
    /\ UNCHANGED <<md, child, mdC, childC, routesC, mdFresh, childFresh,
                   storeVars, verified, uses>>

(* Without its last finalizer the object is gone, and its children are     *)
(* orphans.                                                                *)
RemoveFinalizer ==
    /\ pc = "removeFinalizer"
    /\ IF VersionAccepted
       THEN /\ WriteMD(Absent) /\ Idle /\ UNCHANGED queue
            /\ child' = Orphaned(cur)
            /\ childFresh' = {c \in childFresh : child'[c] = child[c]}
       ELSE Requeue /\ UNCHANGED <<md, mdFresh, child, childFresh>>
    /\ UNCHANGED <<routes, mdC, childC, routesC, routesFresh, storeVars,
                   verified, uses>>

(* The API server cannot be reached: the call fails and changes nothing.   *)
ApiUnavailable ==
    /\ pc \notin {"idle", "getModel", "verify"}
    /\ IF pc = "route"
       THEN /\ obj' = [obj EXCEPT !.routable = TRUE]
            /\ Goto("status") /\ UNCHANGED <<rv, model>>
       ELSE Requeue
    /\ Spend("fault")
    /\ UNCHANGED <<serverVars, cacheVars, storeVars, verified>>

-----------------------------------------------------------------------------
Worker == \/ \E m \in MD : Start(m)
          \/ AddFinalizer \/ GetModel \/ VerifyWeights \/ FailStatus
          \/ ReconcileDeployment \/ ReconcileService \/ ReconcileScaledObject
          \/ AddRoute \/ UpdateStatus \/ RemoveRoute \/ RemoveFinalizer

Faults == StoreUnavailable \/ ApiUnavailable \/ OperatorRestarts

Informers == \/ \E m \in MD : SyncMD(m) \/ Resync(m)
             \/ \E c \in MD \X Kind : SyncChild(c)
             \/ SyncRoutes

Others == \/ \E m \in MD : \/ UserCreates(m) \/ UserEdits(m) \/ UserDeletes(m)
                           \/ BudgetPauses(m) \/ AdminResumes(m)
                           \/ StoreChanges(m) \/ Scales(m)
          \/ \E c \in MD \X Kind : GarbageCollect(c)

Next == Worker \/ Faults \/ Informers \/ Others

Spec == Init /\ [][Next]_vars

(* The worker keeps taking steps and its queue is first in, first out, so  *)
(* no queued name waits forever (SF: Start is disabled while the worker is *)
(* busy); events are eventually delivered, the resync timer fires, garbage *)
(* is collected.  Nothing is assumed of users, KEDA, faults or restarts.   *)
Fairness ==
    /\ \A m \in MD : /\ SF_vars(Start(m))
                     /\ WF_vars(SyncMD(m)) /\ WF_vars(Resync(m))
    /\ \A c \in MD \X Kind : WF_vars(SyncChild(c)) /\ WF_vars(GarbageCollect(c))
    /\ WF_vars(SyncRoutes)
    /\ WF_vars(Worker)

FairSpec == Spec /\ Fairness

-----------------------------------------------------------------------------
(* Every variable has its type; between two reconciles the worker holds    *)
(* nothing, and during one it holds a copy of an object.                   *)
ServerTypeOK ==
    /\ md \in [MD -> Object \cup {Absent}]
    /\ child \in [MD \X Kind -> Child \cup {Absent}]
    /\ routes = NoConfigMap \/ routes \subseteq MD
CacheTypeOK ==
    /\ mdC \in [MD -> Object \cup {Absent}]
    /\ childC \in [MD \X Kind -> Child \cup {Absent}]
    /\ routesC = NoConfigMap \/ routesC \subseteq MD
    /\ mdFresh \subseteq MD /\ childFresh \subseteq MD \X Kind
    /\ routesFresh \in BOOLEAN
    /\ queue \subseteq MD
WorkerTypeOK ==
    /\ pc \in PC /\ rv \in BOOLEAN /\ model \in Digest \cup {NoDigest}
    /\ pc = "idle" => cur = NoName /\ obj = Absent /\ ~rv
    /\ pc # "idle" => cur \in MD /\ obj \in Object
StoreTypeOK ==
    /\ catalog \in [MD -> Digest] /\ bucket \in [MD -> Digest]
    /\ verified \subseteq MD \X Digest
    /\ uses \in [Event -> Nat]
TypeOK == ServerTypeOK /\ CacheTypeOK /\ WorkerTypeOK /\ StoreTypeOK

(* cleanup: a ModelDeployment does not go while the gateway's ConfigMap    *)
(* still has its route, whatever conflicts, restarts, deletions and        *)
(* re-creations under the same name happen meanwhile.                      *)
RouteHasObject ==
    routes # NoConfigMap =>
        \A m \in routes : md[m] # Absent /\ md[m].finalizer

(* "IMPORTANT: This must be called before scheduling a vLLM pod"           *)
(* (catalog/client.go:71): a reconcile that reaches the Deployment goes by *)
(* the catalog's digest, and VerifyWeights has passed for that digest.     *)
ScheduledWeightsVerified == pc = "deployment" => <<cur, model>> \in verified

(* Only ResumeModelDeployment ends a budget pause: no reconcile that read  *)
(* the object before the pause writes its older status over it.            *)
PauseSurvives ==
    [][\A m \in MD :
        /\ md[m] # Absent /\ md'[m] # Absent
        /\ md[m].phase = "BudgetPaused" /\ md'[m].phase # "BudgetPaused"
        => AdminResumes(m)]_vars

(* "Update spec while preserving replica count managed by KEDA": of the    *)
(* two writers of a Deployment only the one that scales it changes its     *)
(* replicas, also when it does so between the reconciler's Get and Update. *)
ReplicasKept ==
    [][\A m \in MD : LET d == <<m, "Deployment">> IN
        /\ child[d] # Absent /\ child'[d] # Absent
        /\ child[d].replicas # child'[d].replicas
        => Scales(m)]_vars

(* The routes ConfigMap is shared: no write to it loses, or brings back,   *)
(* the route of another ModelDeployment than the one being reconciled.     *)
OthersRoutesKept ==
    [][routes # NoConfigMap /\ routes' # NoConfigMap =>
        \A m \in MD \ {cur} : m \in routes' <=> m \in routes]_vars

(* The ConfigMap changes only as a RouteRegistry does, if the chart has    *)
(* installed it: the operator's conflicts, retries, restarts and deletions *)
(* are those of a table that one route enters or leaves at a time.         *)
Registry == INSTANCE RouteRegistry
    WITH Name <- MD,
         held <- {m \in MD : md[m] # Absent /\ md[m].finalizer},
         table <- IF routes = NoConfigMap THEN {} ELSE routes
ImplementsRegistry == Registry!RegistrySpec

(* Nothing stands in the way of serving m.                                 *)
Deployable(m) == /\ md[m] # Absent /\ ~md[m].deleting
                 /\ bucket[m] = catalog[m]

(* No call of a reconcile of m must fail: that of the ScaledObject does,   *)
(* in a manager whose scheme lacks KEDA's types, before the route is added.*)
Routable(m) == Deployable(m) /\ (md[m].scale = "fixed" \/ KedaRegistered)

(* "gateway will pick it up on next reconcile": the route of an object     *)
(* that can be deployed and routed is registered in the end, although the  *)
(* syncer's errors are only logged, conflicts send the reconcile back to   *)
(* its start, and the operator may die in it.                              *)
EventuallyRouted ==
    \A m \in MD : Routable(m) ~> (~Routable(m) \/ m \in routes)

(* The Deployment is brought to the spec: after an edit, a restart of the  *)
(* operator, and also when the one that is there was left over by an       *)
(* earlier object of the same name and awaits the garbage collector.       *)
EventuallyDeployed ==
    \A m \in MD : LET d == <<m, "Deployment">> IN
        []<>(Deployable(m) => /\ child[d] # Absent /\ ~child[d].orphan
                              /\ child[d].engine = md[m].engine)

(* A deleted object goes away: its finalizer does not hold it forever.     *)
EventuallyGone ==
    \A m \in MD : (md[m] # Absent /\ md[m].deleting) ~> (md[m] = Absent)
=============================================================================
