----------------------- MODULE ModelDeploymentProofs -----------------------
(* Theorems about ModelDeployment, for any set of deployments, any digests  *)
(* and any number of environment events.                                    *)
EXTENDS ModelDeployment, TLAPS

USE DEF Engine, Scale, Phase, Verdict, Event, Kind, PC

(* Changing fields of an object to values of their types gives an object.   *)
LEMMA ObjectFields ==
    ASSUME NEW o \in Object
    PROVE  /\ \A e \in Engine, s \in Scale :
                 [o EXCEPT !.engine = e, !.scale = s] \in Object
           /\ [o EXCEPT !.deleting = TRUE] \in Object
           /\ [o EXCEPT !.finalizer = TRUE] \in Object
           /\ \A p \in Phase : [o EXCEPT !.phase = p] \in Object
           /\ [o EXCEPT !.weights = "False"] \in Object
           /\ \A d \in Digest : [o EXCEPT !.weights = "True", !.digest = d] \in Object
           /\ [o EXCEPT !.routable = TRUE] \in Object
  BY DEF Object

(* No write by others touches the finalizers.                               *)
LEMMA FinalizerKept ==
    ASSUME NEW o \in Object
    PROVE  /\ \A e \in Engine, s \in Scale :
                 [o EXCEPT !.engine = e, !.scale = s].finalizer = o.finalizer
           /\ [o EXCEPT !.deleting = TRUE].finalizer = o.finalizer
           /\ \A p \in Phase : [o EXCEPT !.phase = p].finalizer = o.finalizer
  BY DEF Object

(* A new object has the fields of its spec.                                 *)
LEMMA NewObjectType ==
    \A spec \in Specs : NewObject(spec) \in Object
  BY ConstantsAssumption DEF NewObject, Object

(* So do the objects it owns.                                               *)
LEMMA ChildFields ==
    /\ \A o \in Object, k \in Kind : NewChild(o, k) \in Child
    /\ \A c \in Child, e \in Engine : [c EXCEPT !.engine = e] \in Child
    /\ \A c \in Child : [c EXCEPT !.orphan = TRUE] \in Child
    /\ \A c \in Child, n \in 0..MaxReplicas : [c EXCEPT !.replicas = n] \in Child
<1>1. ASSUME NEW o \in Object, NEW k \in Kind PROVE NewChild(o, k) \in Child
  <2>1. 0 \in 0..MaxReplicas /\ 1 \in 0..MaxReplicas
    BY ConstantsAssumption
  <2> QED
    BY <2>1 DEF NewChild, Object, Child
<1>2. ASSUME NEW c \in Child
      PROVE  /\ \A e \in Engine : [c EXCEPT !.engine = e] \in Child
             /\ [c EXCEPT !.orphan = TRUE] \in Child
             /\ \A n \in 0..MaxReplicas : [c EXCEPT !.replicas = n] \in Child
  BY DEF Child
<1> QED
  BY <1>1, <1>2

LEMMA OrphanedType ==
    ASSUME ServerTypeOK, NEW m \in MD
    PROVE  Orphaned(m) \in [MD \X Kind -> Child \cup {Absent}]
  BY ChildFields DEF ServerTypeOK, Orphaned

LEMMA WriteByOtherType ==
    ASSUME TypeOK, NEW m \in MD, NEW o \in Object \cup {Absent}, WriteByOther(m, o)
    PROVE  /\ md' \in [MD -> Object \cup {Absent}]
           /\ routes' = NoConfigMap \/ routes' \subseteq MD
           /\ mdC' \in [MD -> Object \cup {Absent}]
           /\ childC' \in [MD \X Kind -> Child \cup {Absent}]
           /\ routesC' = NoConfigMap \/ routesC' \subseteq MD
           /\ mdFresh' \subseteq MD
           /\ routesFresh' \in BOOLEAN
           /\ queue' \subseteq MD
           /\ WorkerTypeOK' /\ verified' \subseteq MD \X Digest
  BY DEF TypeOK, ServerTypeOK, CacheTypeOK, WorkerTypeOK, StoreTypeOK, WriteByOther

LEMMA SpendType ==
    ASSUME StoreTypeOK, NEW e \in Event, Spend(e)
    PROVE  uses' \in [Event -> Nat]
  BY DEF StoreTypeOK, Spend

-----------------------------------------------------------------------------
(* Type correctness is inductive: one step per action.                      *)
LEMMA TypeOthers ==
    ASSUME TypeOK, Others
    PROVE  TypeOK'
<1> USE DEF TypeOK, ServerTypeOK, CacheTypeOK, StoreTypeOK
<1>1. ASSUME NEW m \in MD, UserCreates(m) PROVE TypeOK'
  <2>1. PICK spec \in Specs : WriteByOther(m, NewObject(spec))
    BY <1>1 DEF UserCreates
  <2> QED
    BY <1>1, <2>1, NewObjectType, WriteByOtherType, SpendType
    DEF UserCreates, storeVars
<1>2. ASSUME NEW m \in MD, UserEdits(m) PROVE TypeOK'
  <2>1. PICK spec \in Specs :
           WriteByOther(m, [md[m] EXCEPT !.engine = spec[1], !.scale = spec[2]])
    BY <1>2 DEF UserEdits
  <2>2. md[m] \in Object /\ spec[1] \in Engine /\ spec[2] \in Scale
    BY <1>2, ConstantsAssumption DEF UserEdits
  <2> QED
    BY <1>2, <2>1, <2>2, ObjectFields, WriteByOtherType, SpendType
    DEF UserEdits, storeVars
<1>3. ASSUME NEW m \in MD, UserDeletes(m) PROVE TypeOK'
  <2>1. md[m] \in Object
    BY <1>3 DEF UserDeletes
  <2>2. CASE md[m].finalizer
    BY <1>3, <2>1, <2>2, ObjectFields, WriteByOtherType, SpendType
    DEF UserDeletes, storeVars
  <2>3. CASE ~md[m].finalizer
    <3>1. /\ child' = Orphaned(m) /\ childFresh' \subseteq childFresh
          /\ WriteByOther(m, Absent) /\ Spend("user") /\ UNCHANGED storeVars
      BY <1>3, <2>3 DEF UserDeletes
    <3> QED
      BY <3>1, OrphanedType, WriteByOtherType, SpendType DEF storeVars
  <2> QED
    BY <2>2, <2>3
<1>4. ASSUME NEW m \in MD, BudgetPauses(m) PROVE TypeOK'
  <2>1. mdC[m] \in Object
    BY <1>4 DEF BudgetPauses
  <2> QED
    BY <1>4, <2>1, ObjectFields, WriteByOtherType, SpendType
    DEF BudgetPauses, storeVars
<1>5. ASSUME NEW m \in MD, AdminResumes(m) PROVE TypeOK'
  <2>1. md[m] \in Object
    BY <1>5 DEF AdminResumes
  <2> QED
    BY <1>5, <2>1, ObjectFields, WriteByOtherType, SpendType
    DEF AdminResumes, storeVars
<1>6. ASSUME NEW m \in MD, StoreChanges(m) PROVE TypeOK'
  <2>1. catalog' \in [MD -> Digest] /\ bucket' \in [MD -> Digest]
    BY <1>6 DEF StoreChanges
  <2> QED
    BY <1>6, <2>1, SpendType
    DEF StoreChanges, serverVars, cacheVars, workerVars, WorkerTypeOK
<1>7. ASSUME NEW m \in MD, Scales(m) PROVE TypeOK'
  <2> DEFINE d == <<m, "Deployment">>
  <2>1. child[d] \in Child
    BY <1>7 DEF Scales
  <2>2. PICK n \in 0..MaxReplicas : child' = [child EXCEPT ![d].replicas = n]
    BY <1>7 DEF Scales
  <2>3. [child[d] EXCEPT !.replicas = n] \in Child
    BY <2>1, ChildFields
  <2>4. child' \in [MD \X Kind -> Child \cup {Absent}]
    BY <2>1, <2>2, <2>3
  <2>5. childFresh' \subseteq MD \X Kind
    BY <1>7 DEF Scales
  <2> QED
    BY <1>7, <2>4, <2>5, SpendType DEF Scales, workerVars, storeVars, WorkerTypeOK
<1>8. ASSUME NEW c \in MD \X Kind, GarbageCollect(c) PROVE TypeOK'
  <2>1. /\ child' \in [MD \X Kind -> Child \cup {Absent}]
        /\ childFresh' \subseteq MD \X Kind
    BY <1>8 DEF GarbageCollect
  <2> QED
    BY <1>8, <2>1 DEF GarbageCollect, workerVars, storeVars, WorkerTypeOK
<1> QED
  BY <1>1, <1>2, <1>3, <1>4, <1>5, <1>6, <1>7, <1>8 DEF Others

LEMMA TypeInformers ==
    ASSUME TypeOK, Informers
    PROVE  TypeOK'
<1> USE DEF TypeOK, ServerTypeOK, CacheTypeOK, WorkerTypeOK, StoreTypeOK,
            serverVars, workerVars, storeVars, cacheVars
<1>1. ASSUME NEW m \in MD, SyncMD(m) PROVE TypeOK'
  BY <1>1 DEF SyncMD
<1>2. ASSUME NEW m \in MD, Resync(m) PROVE TypeOK'
  BY <1>2 DEF Resync
<1>3. ASSUME NEW c \in MD \X Kind, SyncChild(c) PROVE TypeOK'
  <2>1. c[1] \in MD
    OBVIOUS
  <2>2. /\ childC' \in [MD \X Kind -> Child \cup {Absent}]
        /\ childFresh' \subseteq MD \X Kind /\ queue' \subseteq MD
    BY <1>3, <2>1 DEF SyncChild
  <2> QED
    BY <1>3, <2>2 DEF SyncChild
<1>4. CASE SyncRoutes
  BY <1>4 DEF SyncRoutes
<1> QED
  BY <1>1, <1>2, <1>3, <1>4 DEF Informers

(* The worker's writes, and its ways out of a reconcile.                    *)
LEMMA WriteMDType ==
    ASSUME TypeOK, cur \in MD, NEW o \in Object \cup {Absent}, WriteMD(o)
    PROVE  md' \in [MD -> Object \cup {Absent}] /\ mdFresh' \subseteq MD
  BY DEF TypeOK, ServerTypeOK, CacheTypeOK, WriteMD

LEMMA RequeueType ==
    ASSUME TypeOK, pc # "idle", Requeue
    PROVE  WorkerTypeOK' /\ queue' \subseteq MD
  BY DEF TypeOK, CacheTypeOK, WorkerTypeOK, Requeue, Idle

LEMMA GotoType ==
    ASSUME TypeOK, pc # "idle", NEW p \in PC \ {"idle"}, Goto(p),
           obj' \in Object, rv' \in BOOLEAN, model' \in Digest \cup {NoDigest}
    PROVE  WorkerTypeOK' /\ queue' \subseteq MD
  BY DEF TypeOK, CacheTypeOK, WorkerTypeOK, Goto

LEMMA WriteChildType ==
    ASSUME TypeOK, cur \in MD, obj \in Object, NEW k \in Kind,
           CreateChild(k) \/ UpdateChild(k)
    PROVE  /\ child' \in [MD \X Kind -> Child \cup {Absent}]
           /\ childFresh' \subseteq MD \X Kind
<1> USE DEF TypeOK, ServerTypeOK, CacheTypeOK
<1> DEFINE c == <<cur, k>>
<1>1. PICK o \in Child : WriteChild(k, o)
  <2>1. CASE CreateChild(k)
    BY <2>1, ChildFields DEF CreateChild
  <2>2. CASE UpdateChild(k)
    <3>1. childC[c] \in Child /\ obj.engine \in Engine
      BY <2>2 DEF UpdateChild, Object
    <3> QED
      BY <2>2, <3>1, ChildFields DEF UpdateChild
  <2> QED
    BY <2>1, <2>2
<1> QED
  BY <1>1 DEF WriteChild

LEMMA WriteRoutesType ==
    ASSUME NEW rs \in SUBSET MD, TypeOK, WriteRoutes(rs)
    PROVE  routes' \subseteq MD /\ routesFresh' \in BOOLEAN
  BY DEF WriteRoutes, TypeOK, CacheTypeOK

LEMMA TypeWorker ==
    ASSUME TypeOK, Worker
    PROVE  TypeOK'
<1> USE DEF TypeOK, ServerTypeOK, CacheTypeOK, StoreTypeOK, storeVars
<1> DEFINE busy == pc # "idle" /\ cur \in MD /\ obj \in Object /\ rv \in BOOLEAN
                   /\ model \in Digest \cup {NoDigest}
<1>0. pc # "idle" => busy
  BY DEF WorkerTypeOK
<1>1. ASSUME NEW m \in MD, Start(m) PROVE TypeOK'
  <2>1. WorkerTypeOK' /\ queue' \subseteq MD
    <3> DEFINE o == mdC[m]
               skip == o = Absent \/ (o # Absent /\ o.deleting /\ ~o.finalizer)
    <3>1. CASE skip
      BY <1>1, <3>1 DEF Start, WorkerTypeOK, workerVars
    <3>2. CASE ~skip
      <4>1. o \in Object
        BY <3>2
      <4>2. /\ cur' = m /\ obj' = o /\ rv' \in BOOLEAN /\ model' = model
            /\ pc' \in {"removeRoute", "getModel", "addFinalizer"}
            /\ queue' = queue \ {m}
        BY <1>1, <3>2 DEF Start
      <4> QED
        BY <4>1, <4>2 DEF WorkerTypeOK
    <3> QED
      BY <3>1, <3>2
  <2> QED
    BY <1>1, <2>1 DEF Start, serverVars, cacheVars
<1>2. CASE AddFinalizer
  <2>1. CASE VersionAccepted
    <3>1. /\ obj' = [obj EXCEPT !.finalizer = TRUE] /\ WriteMD(obj')
          /\ Goto("getModel") /\ UNCHANGED <<rv, model>>
      BY <1>2, <2>1 DEF AddFinalizer
    <3>2. obj' \in Object
      BY <1>0, <1>2, <3>1, ObjectFields DEF AddFinalizer
    <3> QED
      BY <1>0, <1>2, <3>1, <3>2, GotoType, WriteMDType DEF AddFinalizer
  <2>2. CASE ~VersionAccepted
    BY <1>0, <1>2, <2>2, RequeueType DEF AddFinalizer
  <2> QED
    BY <2>1, <2>2
<1>3. CASE GetModel
  <2>1. PICK p \in {"deployment", "verify"} : Goto(p) /\ model' = catalog[cur]
    BY <1>3 DEF GetModel
  <2> QED
    BY <1>0, <1>3, <2>1, GotoType DEF GetModel, serverVars, cacheVars
<1>4. CASE VerifyWeights
  <2>1. CASE bucket[cur] = model
    <3>1. model \in Digest
      BY <1>0, <1>4, <2>1 DEF VerifyWeights
    <3>2. [obj EXCEPT !.weights = "True", !.digest = model] \in Object
      BY <1>0, <1>4, <3>1, ObjectFields DEF VerifyWeights
    <3> QED
      BY <1>0, <1>4, <2>1, <3>1, <3>2, GotoType
      DEF VerifyWeights, serverVars, cacheVars
  <2>2. CASE bucket[cur] # model
    <3>1. [obj EXCEPT !.weights = "False"] \in Object
      BY <1>0, <1>4, ObjectFields DEF VerifyWeights
    <3> QED
      BY <1>0, <1>4, <2>2, <3>1, GotoType
      DEF VerifyWeights, VerificationFails, serverVars, cacheVars
  <2> QED
    BY <2>1, <2>2
<1>5. CASE FailStatus
  BY <1>0, <1>5, RequeueType, WriteMDType DEF FailStatus
<1>6. CASE ReconcileDeployment
  BY <1>0, <1>6, RequeueType, GotoType, WriteChildType DEF ReconcileDeployment
<1>7. CASE ReconcileService
  BY <1>0, <1>7, RequeueType, GotoType, WriteChildType DEF ReconcileService
<1>8. CASE ReconcileScaledObject
  BY <1>0, <1>8, RequeueType, GotoType, WriteChildType DEF ReconcileScaledObject
<1>9. CASE AddRoute
  <2>1. obj' \in Object /\ UNCHANGED <<rv, model>> /\ Goto("status")
    BY <1>0, <1>9, ObjectFields DEF AddRoute
  <2>2. /\ routes' = NoConfigMap \/ routes' \subseteq MD
        /\ routesFresh' \in BOOLEAN
    BY <1>0, <1>9, WriteRoutesType DEF AddRoute
  <2> QED
    BY <1>0, <1>9, <2>1, <2>2, GotoType DEF AddRoute
<1>10. CASE UpdateStatus
  <2>1. CASE VersionAccepted
    BY <1>0, <1>10, <2>1, WriteMDType DEF UpdateStatus, Idle, WorkerTypeOK
  <2>2. CASE ~VersionAccepted
    BY <1>0, <1>10, <2>2, RequeueType DEF UpdateStatus
  <2> QED
    BY <2>1, <2>2
<1>11. CASE RemoveRoute
  <2>1. /\ routes' = NoConfigMap \/ routes' \subseteq MD
        /\ routesFresh' \in BOOLEAN
    BY <1>0, <1>11, WriteRoutesType DEF RemoveRoute
  <2> QED
    BY <1>0, <1>11, <2>1, RequeueType, GotoType DEF RemoveRoute
<1>12. CASE RemoveFinalizer
  <2>1. CASE VersionAccepted
    <3>1. /\ WriteMD(Absent) /\ Idle /\ UNCHANGED queue /\ child' = Orphaned(cur)
          /\ childFresh' \subseteq childFresh
      BY <1>12, <2>1 DEF RemoveFinalizer
    <3> QED
      BY <1>0, <1>12, <3>1, WriteMDType, OrphanedType
      DEF RemoveFinalizer, Idle, WorkerTypeOK
  <2>2. CASE ~VersionAccepted
    BY <1>0, <1>12, <2>2, RequeueType DEF RemoveFinalizer
  <2> QED
    BY <2>1, <2>2
<1> QED
  BY <1>1, <1>2, <1>3, <1>4, <1>5, <1>6, <1>7, <1>8, <1>9, <1>10, <1>11, <1>12
  DEF Worker

LEMMA TypeFaults ==
    ASSUME TypeOK, Faults
    PROVE  TypeOK'
<1> USE DEF TypeOK, ServerTypeOK, CacheTypeOK, StoreTypeOK, storeVars,
            serverVars, cacheVars
<1>0. pc # "idle" => /\ cur \in MD /\ obj \in Object /\ rv \in BOOLEAN
                     /\ model \in Digest \cup {NoDigest}
  BY DEF WorkerTypeOK
<1>1. CASE StoreUnavailable
  <2>1. obj' = [obj EXCEPT !.weights = "False"] /\ obj \in Object
    BY <1>0, <1>1 DEF StoreUnavailable, VerificationFails
  <2>2. obj' \in Object
    BY <2>1, ObjectFields
  <2> QED
    BY <1>0, <1>1, <2>2, GotoType, SpendType
    DEF StoreUnavailable, VerificationFails
<1>2. CASE ApiUnavailable
  <2>1. CASE pc = "route"
    <3>1. obj' \in Object
      BY <1>0, <1>2, <2>1, ObjectFields DEF ApiUnavailable
    <3> QED
      BY <1>0, <1>2, <2>1, <3>1, GotoType, SpendType DEF ApiUnavailable
  <2>2. CASE pc # "route"
    BY <1>2, <2>2, RequeueType, SpendType DEF ApiUnavailable
  <2> QED
    BY <2>1, <2>2
<1>3. CASE OperatorRestarts
  BY <1>3, SpendType DEF OperatorRestarts, WorkerTypeOK
<1> QED
  BY <1>1, <1>2, <1>3 DEF Faults

LEMMA TypeInit == Init => TypeOK
<1> SUFFICES ASSUME Init PROVE TypeOK
  OBVIOUS
<1>1. ServerTypeOK
  BY DEF Init, ServerTypeOK
<1>2. CacheTypeOK
  BY DEF Init, CacheTypeOK
<1>3. WorkerTypeOK
  BY DEF Init, WorkerTypeOK
<1>4. StoreTypeOK
  BY DEF Init, StoreTypeOK
<1> QED
  BY <1>1, <1>2, <1>3, <1>4 DEF TypeOK

LEMMA TypeNext == TypeOK /\ [Next]_vars => TypeOK'
<1> SUFFICES ASSUME TypeOK, [Next]_vars PROVE TypeOK'
  OBVIOUS
<1>1. CASE Next
  BY <1>1, TypeWorker, TypeFaults, TypeInformers, TypeOthers DEF Next
<1>2. CASE UNCHANGED vars
  BY <1>2 DEF vars, serverVars, cacheVars, workerVars, storeVars, TypeOK,
              ServerTypeOK, CacheTypeOK, WorkerTypeOK, StoreTypeOK
<1> QED
  BY <1>1, <1>2

(* The types, and that an idle worker holds nothing, are invariant.         *)
THEOREM TypeCorrect == Spec => []TypeOK
<1>1. Init => TypeOK
  BY TypeInit
<1>2. TypeOK /\ [Next]_vars => TypeOK'
  BY TypeNext
<1> QED
  BY <1>1, <1>2, PTL DEF Spec

-----------------------------------------------------------------------------
(* RouteHasObject is not inductive: what keeps it is that the worker only   *)
(* adds the route of an object it has admitted, and that an object it has   *)
(* admitted only goes through the worker's own RemoveFinalizer, which the   *)
(* server accepts only if the cache has already shown the deletion.         *)
Live(m)  == md[m] # Absent /\ md[m].finalizer
Removal  == {"removeRoute", "removeFinalizer"}
Admitted == PC \ ({"idle", "addFinalizer"} \cup Removal)

CacheLive ==
    \A m \in MD : mdC[m] # Absent /\ mdC[m].finalizer /\ ~mdC[m].deleting => Live(m)
FreshIsLatest ==
    /\ \A m \in mdFresh : mdC[m] = md[m]
    /\ routesFresh => routesC = routes
RemovalSeenByCache ==
    pc \in Removal /\ rv => obj.deleting /\ cur \in mdFresh /\ mdC[cur] = obj
AdmittedIsLive ==
    pc \in Admitted => Live(cur) /\ obj.finalizer
ConfigMapStays == routes # NoConfigMap /\ routesC # NoConfigMap
RouteRemoved == pc = "removeFinalizer" => cur \notin routes

RouteInv == /\ RouteHasObject /\ CacheLive /\ FreshIsLatest
            /\ RemovalSeenByCache /\ AdmittedIsLive
            /\ ConfigMapStays /\ RouteRemoved

LEMMA RouteInit == ConfigMapAtInstall /\ Init => RouteInv
  BY ConstantsAssumption
  DEF Init, RouteInv, RouteHasObject, CacheLive, FreshIsLatest,
      RemovalSeenByCache, AdmittedIsLive, ConfigMapStays, RouteRemoved, Removal, Admitted

(* The invariant speaks of these variables only.                            *)
LEMMA RouteUnchanged ==
    ASSUME RouteInv,
           UNCHANGED <<md, routes, mdC, routesC, mdFresh, routesFresh, pc, cur, obj, rv>>
    PROVE  RouteInv'
  BY DEF RouteInv, RouteHasObject, CacheLive, FreshIsLatest, RemovalSeenByCache,
         AdmittedIsLive, ConfigMapStays, RouteRemoved, Live

(* A write by someone else keeps it if it leaves an admitted object so.     *)
LEMMA RouteWriteByOther ==
    ASSUME TypeOK, RouteInv, NEW m \in MD, NEW o \in Object \cup {Absent},
           WriteByOther(m, o), Live(m) => o # Absent /\ o.finalizer
    PROVE  RouteInv'
<1> USE DEF TypeOK, ServerTypeOK, CacheTypeOK, WorkerTypeOK, WriteByOther, RouteInv
<1>1. \A n \in MD : Live(n) => Live(n)'
  BY DEF Live
<1>2. RouteHasObject'
  BY <1>1 DEF RouteHasObject, Live, ConfigMapStays
<1>3. CacheLive'
  BY <1>1 DEF CacheLive
<1>4. FreshIsLatest'
  BY DEF FreshIsLatest
<1>5. RemovalSeenByCache'
  BY DEF RemovalSeenByCache
<1>6. AdmittedIsLive'
  BY <1>1 DEF AdmittedIsLive, Admitted
<1>7. ConfigMapStays' /\ RouteRemoved'
  BY DEF ConfigMapStays, RouteRemoved
<1> QED
  BY <1>2, <1>3, <1>4, <1>5, <1>6, <1>7

LEMMA RouteOthers ==
    ASSUME TypeOK, RouteInv, Others
    PROVE  RouteInv'
<1> USE DEF TypeOK, ServerTypeOK, CacheTypeOK
<1>1. ASSUME NEW m \in MD, UserCreates(m) PROVE RouteInv'
  <2>1. PICK spec \in Specs : WriteByOther(m, NewObject(spec))
    BY <1>1 DEF UserCreates
  <2> QED
    BY <1>1, <2>1, NewObjectType, RouteWriteByOther DEF UserCreates, Live
<1>2. ASSUME NEW m \in MD, UserEdits(m) PROVE RouteInv'
  <2> DEFINE edit(spec) == [md[m] EXCEPT !.engine = spec[1], !.scale = spec[2]]
  <2>1. PICK spec \in Specs : WriteByOther(m, edit(spec))
    BY <1>2 DEF UserEdits
  <2>2. md[m] \in Object /\ spec[1] \in Engine /\ spec[2] \in Scale
    BY <1>2, ConstantsAssumption DEF UserEdits
  <2>3. edit(spec) \in Object /\ edit(spec).finalizer = md[m].finalizer
    BY <2>2, ObjectFields, FinalizerKept
  <2>4. edit(spec) # Absent /\ edit(spec) \in Object \cup {Absent}
    BY <2>3, ConstantsAssumption
  <2>5. Live(m) => edit(spec) # Absent /\ edit(spec).finalizer
    BY <2>3, <2>4 DEF Live
  <2> HIDE DEF edit
  <2> QED
    BY <2>1, <2>4, <2>5, RouteWriteByOther
<1>3. ASSUME NEW m \in MD, UserDeletes(m) PROVE RouteInv'
  <2>1. md[m] \in Object
    BY <1>3 DEF UserDeletes
  <2>2. CASE md[m].finalizer
    <3> DEFINE o == [md[m] EXCEPT !.deleting = TRUE]
    <3>1. o \in Object /\ o.finalizer = md[m].finalizer
      BY <2>1, ObjectFields, FinalizerKept
    <3>2. o # Absent /\ o \in Object \cup {Absent} /\ (Live(m) => o.finalizer)
      BY <2>2, <3>1, ConstantsAssumption
    <3>3. WriteByOther(m, o)
      BY <1>3, <2>2 DEF UserDeletes
    <3> HIDE DEF o
    <3> QED
      BY <3>2, <3>3, RouteWriteByOther
  <2>3. CASE ~md[m].finalizer
    BY <1>3, <2>3, RouteWriteByOther DEF UserDeletes, Live
  <2> QED
    BY <2>2, <2>3
<1>4. ASSUME NEW m \in MD, BudgetPauses(m) PROVE RouteInv'
  <2> DEFINE o == [mdC[m] EXCEPT !.phase = "BudgetPaused"]
  <2>1. mdC[m] \in Object /\ mdC[m] = md[m]
    BY <1>4 DEF BudgetPauses, RouteInv, FreshIsLatest
  <2>2. o \in Object /\ o.finalizer = md[m].finalizer
    BY <2>1, ObjectFields, FinalizerKept
  <2>3. o # Absent /\ o \in Object \cup {Absent} /\ (Live(m) => o.finalizer)
    BY <2>2, ConstantsAssumption DEF Live
  <2>4. WriteByOther(m, o)
    BY <1>4 DEF BudgetPauses
  <2> HIDE DEF o
  <2> QED
    BY <2>3, <2>4, RouteWriteByOther
<1>5. ASSUME NEW m \in MD, AdminResumes(m) PROVE RouteInv'
  <2> DEFINE o == [md[m] EXCEPT !.phase = "Pending"]
  <2>1. md[m] \in Object
    BY <1>5 DEF AdminResumes
  <2>2. o \in Object /\ o.finalizer = md[m].finalizer
    BY <2>1, ObjectFields, FinalizerKept
  <2>3. o # Absent /\ o \in Object \cup {Absent} /\ (Live(m) => o.finalizer)
    BY <2>2, ConstantsAssumption DEF Live
  <2>4. WriteByOther(m, o)
    BY <1>5 DEF AdminResumes
  <2> HIDE DEF o
  <2> QED
    BY <2>3, <2>4, RouteWriteByOther
<1>6. ASSUME NEW m \in MD, StoreChanges(m) \/ Scales(m) PROVE RouteInv'
  BY <1>6, RouteUnchanged
  DEF StoreChanges, Scales, serverVars, cacheVars, workerVars
<1>7. ASSUME NEW c \in MD \X Kind, GarbageCollect(c) PROVE RouteInv'
  BY <1>7, RouteUnchanged DEF GarbageCollect, workerVars
<1> QED
  BY <1>1, <1>2, <1>3, <1>4, <1>5, <1>6, <1>7 DEF Others

LEMMA RouteInformers ==
    ASSUME TypeOK, RouteInv, Informers
    PROVE  RouteInv'
<1> USE DEF TypeOK, ServerTypeOK, CacheTypeOK
<1>1. ASSUME NEW m \in MD, SyncMD(m) PROVE RouteInv'
  <2> USE DEF RouteInv, SyncMD, serverVars, workerVars
  <2>1. CacheLive' /\ FreshIsLatest'
    BY <1>1 DEF CacheLive, FreshIsLatest, Live
  <2>2. RemovalSeenByCache'
    BY <1>1 DEF RemovalSeenByCache
  <2>3. RouteHasObject' /\ AdmittedIsLive' /\ ConfigMapStays' /\ RouteRemoved'
    BY <1>1 DEF RouteHasObject, AdmittedIsLive, ConfigMapStays, RouteRemoved, Live
  <2> QED
    BY <2>1, <2>2, <2>3
<1>2. CASE SyncRoutes
  BY <1>2
  DEF SyncRoutes, serverVars, workerVars, RouteInv, RouteHasObject, CacheLive,
      FreshIsLatest, RemovalSeenByCache, AdmittedIsLive, ConfigMapStays,
      RouteRemoved, Live
<1>3. ASSUME NEW m \in MD, Resync(m) PROVE RouteInv'
  BY <1>3, RouteUnchanged DEF Resync, serverVars, cacheVars, workerVars
<1>4. ASSUME NEW c \in MD \X Kind, SyncChild(c) PROVE RouteInv'
  BY <1>4, RouteUnchanged DEF SyncChild, serverVars, workerVars
<1> QED
  BY <1>1, <1>2, <1>3, <1>4 DEF Informers

(* A reconcile that ends without writing the object or the routes.          *)
LEMMA RouteRequeue ==
    ASSUME TypeOK, RouteInv, pc' = "idle",
           UNCHANGED <<md, routes, mdC, routesC, mdFresh, routesFresh>>
    PROVE  RouteInv'
  BY DEF RouteInv, RouteHasObject, CacheLive, FreshIsLatest, RemovalSeenByCache,
         AdmittedIsLive, ConfigMapStays, RouteRemoved, Live, Removal, Admitted

(* The worker goes from one step on an admitted object to the next.         *)
LEMMA RouteGoto ==
    ASSUME TypeOK, RouteInv, pc \in Admitted, pc' \in Admitted, cur' = cur,
           obj'.finalizer = obj.finalizer,
           UNCHANGED <<md, routes, mdC, routesC, mdFresh, routesFresh>>
    PROVE  RouteInv'
  BY DEF RouteInv, RouteHasObject, CacheLive, FreshIsLatest, RemovalSeenByCache,
         AdmittedIsLive, ConfigMapStays, RouteRemoved, Live, Removal, Admitted

(* The worker writes an object that has its finalizer.                      *)
LEMMA RouteWriteMD ==
    ASSUME TypeOK, RouteInv, cur \in MD, NEW o \in Object, o.finalizer, WriteMD(o),
           pc' = "idle" \/ (pc' \in Admitted /\ cur' = cur /\ obj'.finalizer),
           UNCHANGED <<routes, mdC, routesC, routesFresh>>
    PROVE  RouteInv'
<1> USE DEF TypeOK, ServerTypeOK, CacheTypeOK, RouteInv, WriteMD
<1>1. o # Absent
  BY ConstantsAssumption
<1>2. \A n \in MD : Live(n) => Live(n)'
  BY <1>1 DEF Live
<1>3. RouteHasObject'
  BY <1>2 DEF RouteHasObject, Live, ConfigMapStays
<1>4. CacheLive'
  BY <1>2 DEF CacheLive
<1>5. FreshIsLatest'
  BY DEF FreshIsLatest
<1>6. AdmittedIsLive'
  BY <1>1 DEF AdmittedIsLive, Admitted, Live
<1>7. RemovalSeenByCache' /\ RouteRemoved' /\ ConfigMapStays'
  BY DEF RemovalSeenByCache, RouteRemoved, ConfigMapStays, Admitted, Removal
<1> QED
  BY <1>3, <1>4, <1>5, <1>6, <1>7

LEMMA RouteStart ==
    ASSUME TypeOK, RouteInv, NEW m \in MD, Start(m)
    PROVE  RouteInv'
<1> USE DEF TypeOK, ServerTypeOK, CacheTypeOK
<1> DEFINE skip == mdC[m] = Absent \/ (mdC[m] # Absent /\ mdC[m].deleting /\ ~mdC[m].finalizer)
<1>1. CASE skip
  BY <1>1, RouteUnchanged DEF Start, workerVars, serverVars, cacheVars
<1>2. CASE ~skip
  <2>1. /\ mdC[m] # Absent
        /\ cur' = m /\ obj' = mdC[m] /\ rv' = (m \in mdFresh)
        /\ pc' = IF mdC[m].deleting THEN "removeRoute"
                 ELSE IF mdC[m].finalizer THEN "getModel" ELSE "addFinalizer"
        /\ UNCHANGED <<serverVars, cacheVars>>
    BY <1>2 DEF Start
  <2>2. RemovalSeenByCache'
    BY <2>1 DEF RemovalSeenByCache, Removal, cacheVars
  <2>3. AdmittedIsLive'
    BY <2>1 DEF RouteInv, CacheLive, AdmittedIsLive, Admitted, Removal, Live, serverVars
  <2>4. RouteRemoved'
    BY <2>1 DEF RouteRemoved
  <2>5. RouteHasObject' /\ CacheLive' /\ FreshIsLatest' /\ ConfigMapStays'
    BY <2>1 DEF RouteInv, RouteHasObject, CacheLive, FreshIsLatest, ConfigMapStays,
                Live, serverVars, cacheVars
  <2> QED
    BY <2>2, <2>3, <2>4, <2>5 DEF RouteInv
<1> QED
  BY <1>1, <1>2

LEMMA RouteWorker ==
    ASSUME TypeOK, RouteInv, Worker
    PROVE  RouteInv'
<1> USE DEF TypeOK, ServerTypeOK, CacheTypeOK
<1>0. pc # "idle" => cur \in MD /\ obj \in Object /\ rv \in BOOLEAN
  BY DEF WorkerTypeOK
<1>1. ASSUME NEW m \in MD, Start(m) PROVE RouteInv'
  BY <1>1, RouteStart
<1>2. CASE AddFinalizer
  <2>1. CASE VersionAccepted
    <3>0. obj \in Object /\ obj' = [obj EXCEPT !.finalizer = TRUE]
      BY <1>0, <1>2, <2>1 DEF AddFinalizer
    <3>1. obj' \in Object /\ obj'.finalizer
      <4>1. obj'.finalizer
        BY <3>0 DEF Object
      <4> QED
        BY <3>0, <4>1, ObjectFields
    <3>2. /\ WriteMD(obj') /\ pc' = "getModel" /\ cur' = cur
          /\ UNCHANGED <<routes, mdC, routesC, routesFresh>>
      BY <1>2, <2>1 DEF AddFinalizer, Goto
    <3> QED
      BY <1>0, <1>2, <3>1, <3>2, RouteWriteMD DEF AddFinalizer, Admitted, Removal
  <2>2. CASE ~VersionAccepted
    BY <1>2, <2>2, RouteRequeue DEF AddFinalizer, Requeue, Idle
  <2> QED
    BY <2>1, <2>2
<1>3. CASE GetModel
  BY <1>3, RouteGoto DEF GetModel, Goto, serverVars, cacheVars, Admitted, Removal
<1>4. CASE VerifyWeights
  <2>1. obj'.finalizer = obj.finalizer
    BY <1>0, <1>4 DEF VerifyWeights, VerificationFails, Object
  <2> QED
    BY <1>4, <2>1, RouteGoto
    DEF VerifyWeights, VerificationFails, Goto, serverVars, cacheVars, Admitted, Removal
<1>5. CASE FailStatus
  <2>1. CASE VersionAccepted
    <3>1. obj.finalizer
      BY <1>5 DEF FailStatus, RouteInv, AdmittedIsLive, Admitted, Removal
    <3> QED
      BY <1>0, <1>5, <2>1, <3>1, RouteWriteMD DEF FailStatus, Requeue, Idle
  <2>2. CASE ~VersionAccepted
    BY <1>5, <2>2, RouteRequeue DEF FailStatus, Requeue, Idle
  <2> QED
    BY <2>1, <2>2
<1>6. CASE ReconcileDeployment
  BY <1>6, RouteGoto, RouteRequeue
  DEF ReconcileDeployment, Goto, Requeue, Idle, Admitted, Removal
<1>7. CASE ReconcileService
  BY <1>7, RouteGoto, RouteRequeue
  DEF ReconcileService, Goto, Requeue, Idle, Admitted, Removal
<1>8. CASE ReconcileScaledObject
  BY <1>8, RouteGoto, RouteRequeue
  DEF ReconcileScaledObject, Goto, Requeue, Idle, Admitted, Removal
<1>9. CASE AddRoute
  <2>1. obj'.finalizer = obj.finalizer /\ pc = "route" /\ pc' = "status" /\ cur' = cur
    BY <1>0, <1>9 DEF AddRoute, Goto, Object
  <2>2. CASE RoutesRefused
    BY <1>9, <2>1, <2>2, RouteGoto DEF AddRoute, Admitted, Removal
  <2>3. CASE ~RoutesRefused
    <3>1. routesFresh /\ routesC = routes /\ routesC # NoConfigMap
      BY <2>3 DEF RoutesRefused, RouteInv, FreshIsLatest, ConfigMapStays
    <3>2. /\ routes' = routes \cup {cur}
          /\ routesFresh' = (routesFresh /\ routes' = routes)
          /\ UNCHANGED <<md, mdC, routesC, mdFresh, rv>>
      BY <1>9, <2>3, <3>1 DEF AddRoute, WriteRoutes
    <3>3. Live(cur) /\ obj.finalizer /\ cur \in MD
      BY <1>0, <2>1 DEF RouteInv, AdmittedIsLive, Admitted, Removal
    <3>4. RouteHasObject'
      BY <3>1, <3>2, <3>3 DEF RouteInv, RouteHasObject, Live
    <3>5. CacheLive' /\ FreshIsLatest'
      BY <3>1, <3>2 DEF RouteInv, CacheLive, FreshIsLatest, Live
    <3>6. ConfigMapStays'
      <4>1. routes' \subseteq MD
        BY <3>1, <3>2, <3>3
      <4> QED
        BY <3>1, <3>2, <4>1, ConstantsAssumption DEF ConfigMapStays
    <3>7. RemovalSeenByCache' /\ AdmittedIsLive' /\ RouteRemoved'
      BY <2>1, <3>2, <3>3
      DEF RemovalSeenByCache, AdmittedIsLive, RouteRemoved, Removal, Live
    <3> QED
      BY <3>4, <3>5, <3>6, <3>7 DEF RouteInv
  <2> QED
    BY <2>2, <2>3
<1>10. CASE UpdateStatus
  <2>1. CASE VersionAccepted
    <3>1. obj.finalizer
      BY <1>10 DEF UpdateStatus, RouteInv, AdmittedIsLive, Admitted, Removal
    <3> QED
      BY <1>0, <1>10, <2>1, <3>1, RouteWriteMD DEF UpdateStatus, Idle
  <2>2. CASE ~VersionAccepted
    BY <1>10, <2>2, RouteRequeue DEF UpdateStatus, Requeue, Idle
  <2> QED
    BY <2>1, <2>2
<1>11. CASE RemoveRoute
  <2>1. routesC # NoConfigMap /\ routes # NoConfigMap
    BY DEF RouteInv, ConfigMapStays
  <2>2. CASE RoutesRefused
    BY <1>11, <2>1, <2>2, RouteRequeue DEF RemoveRoute, Requeue, Idle
  <2>3. CASE ~RoutesRefused
    <3>1. routesFresh /\ routesC = routes
      BY <2>1, <2>3 DEF RoutesRefused, RouteInv, FreshIsLatest
    <3>2. /\ routes' = routes \ {cur}
          /\ routesFresh' = (routesFresh /\ routes' = routes)
          /\ pc = "removeRoute" /\ pc' = "removeFinalizer"
          /\ UNCHANGED <<md, mdC, routesC, mdFresh, cur, obj, rv>>
      BY <1>11, <2>1, <2>3, <3>1 DEF RemoveRoute, WriteRoutes, Goto
    <3>3. RouteHasObject' /\ RouteRemoved'
      BY <2>1, <3>2 DEF RouteInv, RouteHasObject, RouteRemoved
    <3>4. CacheLive' /\ FreshIsLatest'
      BY <3>1, <3>2 DEF RouteInv, CacheLive, FreshIsLatest, Live
    <3>5. ConfigMapStays'
      <4>1. routes' \subseteq MD
        BY <2>1, <3>2
      <4> QED
        BY <2>1, <3>2, <4>1, ConstantsAssumption DEF ConfigMapStays
    <3>6. RemovalSeenByCache' /\ AdmittedIsLive'
      BY <3>2 DEF RouteInv, RemovalSeenByCache, AdmittedIsLive, Removal, Admitted
    <3> QED
      BY <3>3, <3>4, <3>5, <3>6 DEF RouteInv
  <2> QED
    BY <2>2, <2>3
<1>12. CASE RemoveFinalizer
  <2>1. CASE VersionAccepted
    <3>1. /\ md' = [md EXCEPT ![cur] = Absent]
          /\ mdFresh' = IF Absent = md[cur] THEN mdFresh ELSE mdFresh \ {cur}
          /\ pc = "removeFinalizer" /\ pc' = "idle"
          /\ UNCHANGED <<routes, mdC, routesC, routesFresh>>
      BY <1>12, <2>1 DEF RemoveFinalizer, WriteMD, Idle
    <3>2. cur \in MD /\ obj.deleting /\ mdC[cur] = obj /\ cur \notin routes
      BY <1>0, <2>1, <3>1
      DEF VersionAccepted, RouteInv, RemovalSeenByCache, RouteRemoved, Removal
    <3>3. RouteHasObject'
      BY <3>1, <3>2 DEF RouteInv, ConfigMapStays, RouteHasObject
    <3>4. CacheLive'
      BY <3>1, <3>2 DEF RouteInv, CacheLive, Live
    <3>5. FreshIsLatest'
      BY <3>1, <3>2 DEF RouteInv, FreshIsLatest
    <3>6. RemovalSeenByCache' /\ AdmittedIsLive' /\ RouteRemoved' /\ ConfigMapStays'
      BY <3>1
      DEF RouteInv, RemovalSeenByCache, AdmittedIsLive, RouteRemoved,
          ConfigMapStays, Removal, Admitted
    <3> QED
      BY <3>3, <3>4, <3>5, <3>6 DEF RouteInv
  <2>2. CASE ~VersionAccepted
    BY <1>12, <2>2, RouteRequeue DEF RemoveFinalizer, Requeue, Idle
  <2> QED
    BY <2>1, <2>2
<1> QED
  BY <1>1, <1>2, <1>3, <1>4, <1>5, <1>6, <1>7, <1>8, <1>9, <1>10, <1>11, <1>12
  DEF Worker

LEMMA RouteFaults ==
    ASSUME TypeOK, RouteInv, Faults
    PROVE  RouteInv'
<1> USE DEF TypeOK, ServerTypeOK, CacheTypeOK
<1>0. pc # "idle" => cur \in MD /\ obj \in Object
  BY DEF WorkerTypeOK
<1>1. CASE StoreUnavailable
  <2>1. obj'.finalizer = obj.finalizer
    BY <1>0, <1>1 DEF StoreUnavailable, VerificationFails, Object
  <2> QED
    BY <1>1, <2>1, RouteGoto
    DEF StoreUnavailable, VerificationFails, Goto, serverVars, cacheVars, Admitted, Removal
<1>2. CASE ApiUnavailable
  <2>1. CASE pc = "route"
    <3>1. obj'.finalizer = obj.finalizer
      BY <1>0, <1>2, <2>1 DEF ApiUnavailable, Object
    <3> QED
      BY <1>2, <2>1, <3>1, RouteGoto
      DEF ApiUnavailable, Goto, serverVars, cacheVars, Admitted, Removal
  <2>2. CASE pc # "route"
    BY <1>2, <2>2, RouteRequeue
    DEF ApiUnavailable, Requeue, Idle, serverVars, cacheVars
  <2> QED
    BY <2>1, <2>2
<1>3. CASE OperatorRestarts
  BY <1>3
  DEF OperatorRestarts, serverVars, RouteInv, RouteHasObject, CacheLive,
      FreshIsLatest, RemovalSeenByCache, AdmittedIsLive, ConfigMapStays,
      RouteRemoved, Live, Removal, Admitted
<1> QED
  BY <1>1, <1>2, <1>3 DEF Faults

LEMMA RouteNext == TypeOK /\ RouteInv /\ [Next]_vars => RouteInv'
<1> SUFFICES ASSUME TypeOK, RouteInv, [Next]_vars PROVE RouteInv'
  OBVIOUS
<1>1. CASE Next
  BY <1>1, RouteWorker, RouteFaults, RouteInformers, RouteOthers DEF Next
<1>2. CASE UNCHANGED vars
  BY <1>2, RouteUnchanged DEF vars, serverVars, cacheVars, workerVars
<1> QED
  BY <1>1, <1>2

(* If the chart has installed the routes ConfigMap, a ModelDeployment does  *)
(* not go before its route has: whatever conflicts, faults, restarts and    *)
(* re-creations there are, every route is that of an object that still has  *)
(* the finalizer whose removal must first take the route away.              *)
THEOREM RouteSafe == ConfigMapAtInstall /\ Spec => []RouteHasObject
<1>1. Init => TypeOK
  BY TypeInit
<1>2. ConfigMapAtInstall /\ Init => RouteInv
  BY RouteInit
<1>3. (TypeOK /\ RouteInv) /\ [Next]_vars => (TypeOK /\ RouteInv)'
  BY TypeNext, RouteNext
<1>4. RouteInv => RouteHasObject
  BY DEF RouteInv
<1> QED
  BY <1>1, <1>2, <1>3, <1>4, PTL DEF Spec

-----------------------------------------------------------------------------
(* A digest in a status, on the server or in either copy of it, is one that *)
(* VerifyWeights has passed for that model.                                 *)
Vouched(m, o) == o # Absent /\ o.digest # NoDigest => <<m, o.digest>> \in verified

WeightsInv ==
    /\ ScheduledWeightsVerified
    /\ \A m \in MD : Vouched(m, md[m]) /\ Vouched(m, mdC[m])
    /\ pc # "idle" => Vouched(cur, obj)

LEMMA WeightsInit == Init => WeightsInv
  BY DEF Init, WeightsInv, ScheduledWeightsVerified, Vouched

LEMMA WeightsUnchanged ==
    ASSUME WeightsInv, UNCHANGED <<md, mdC, pc, cur, obj, model, verified>>
    PROVE  WeightsInv'
  BY DEF WeightsInv, ScheduledWeightsVerified, Vouched

(* A write by someone else, of an object with a vouched digest.             *)
LEMMA WeightsWriteByOther ==
    ASSUME TypeOK, WeightsInv, NEW m \in MD, NEW o, WriteByOther(m, o), Vouched(m, o)
    PROVE  WeightsInv'
<1>1. \A n \in MD : Vouched(n, md[n])'
  BY DEF TypeOK, ServerTypeOK, WriteByOther, WeightsInv, Vouched
<1>2. \A n \in MD : Vouched(n, mdC[n])'
  BY DEF WriteByOther, WeightsInv, Vouched
<1>3. ScheduledWeightsVerified' /\ (pc' # "idle" => Vouched(cur, obj)')
  BY DEF WriteByOther, WeightsInv, Vouched, ScheduledWeightsVerified
<1> QED
  BY <1>1, <1>2, <1>3 DEF WeightsInv

(* No write by others touches the digest.                                   *)
LEMMA DigestKept ==
    ASSUME NEW o \in Object
    PROVE  /\ \A e \in Engine, s \in Scale :
                 [o EXCEPT !.engine = e, !.scale = s].digest = o.digest
           /\ [o EXCEPT !.deleting = TRUE].digest = o.digest
           /\ \A p \in Phase : [o EXCEPT !.phase = p].digest = o.digest
  BY DEF Object

LEMMA WeightsOthers ==
    ASSUME TypeOK, WeightsInv, Others
    PROVE  WeightsInv'
<1> USE DEF TypeOK, ServerTypeOK, CacheTypeOK
<1>0. \A m \in MD : Vouched(m, md[m]) /\ Vouched(m, mdC[m])
  BY DEF WeightsInv
<1>1. ASSUME NEW m \in MD, UserCreates(m) PROVE WeightsInv'
  <2>1. PICK spec \in Specs : WriteByOther(m, NewObject(spec))
    BY <1>1 DEF UserCreates
  <2>2. Vouched(m, NewObject(spec))
    BY DEF Vouched, NewObject
  <2> QED
    BY <2>1, <2>2, WeightsWriteByOther
<1>2. ASSUME NEW m \in MD, UserEdits(m) PROVE WeightsInv'
  <2> DEFINE edit(spec) == [md[m] EXCEPT !.engine = spec[1], !.scale = spec[2]]
  <2>1. PICK spec \in Specs : WriteByOther(m, edit(spec))
    BY <1>2 DEF UserEdits
  <2>2. md[m] # Absent /\ md[m] \in Object /\ spec[1] \in Engine /\ spec[2] \in Scale
    BY <1>2, ConstantsAssumption DEF UserEdits
  <2>3. edit(spec).digest = md[m].digest
    BY <2>2, DigestKept
  <2>4. Vouched(m, edit(spec))
    BY <1>0, <2>2, <2>3 DEF Vouched
  <2> HIDE DEF edit
  <2> QED
    BY <2>1, <2>4, WeightsWriteByOther
<1>3. ASSUME NEW m \in MD, UserDeletes(m) PROVE WeightsInv'
  <2>1. md[m] # Absent /\ md[m] \in Object
    BY <1>3 DEF UserDeletes
  <2> DEFINE o == [md[m] EXCEPT !.deleting = TRUE]
  <2>2. Vouched(m, o)
    BY <1>0, <2>1, DigestKept DEF Vouched
  <2>3. Vouched(m, Absent)
    BY DEF Vouched
  <2>4. WriteByOther(m, o) \/ WriteByOther(m, Absent)
    BY <1>3 DEF UserDeletes
  <2> HIDE DEF o
  <2> QED
    BY <2>2, <2>3, <2>4, WeightsWriteByOther
<1>4. ASSUME NEW m \in MD, BudgetPauses(m) PROVE WeightsInv'
  <2> DEFINE o == [mdC[m] EXCEPT !.phase = "BudgetPaused"]
  <2>1. mdC[m] # Absent /\ mdC[m] \in Object /\ WriteByOther(m, o)
    BY <1>4 DEF BudgetPauses
  <2>2. Vouched(m, o)
    BY <1>0, <2>1, DigestKept DEF Vouched
  <2> HIDE DEF o
  <2> QED
    BY <2>1, <2>2, WeightsWriteByOther
<1>5. ASSUME NEW m \in MD, AdminResumes(m) PROVE WeightsInv'
  <2> DEFINE o == [md[m] EXCEPT !.phase = "Pending"]
  <2>1. md[m] # Absent /\ md[m] \in Object /\ WriteByOther(m, o)
    BY <1>5 DEF AdminResumes
  <2>2. Vouched(m, o)
    BY <1>0, <2>1, DigestKept DEF Vouched
  <2> HIDE DEF o
  <2> QED
    BY <2>1, <2>2, WeightsWriteByOther
<1>6. ASSUME NEW m \in MD, StoreChanges(m) \/ Scales(m) PROVE WeightsInv'
  BY <1>6, WeightsUnchanged
  DEF StoreChanges, Scales, serverVars, cacheVars, workerVars
<1>7. ASSUME NEW c \in MD \X Kind, GarbageCollect(c) PROVE WeightsInv'
  BY <1>7, WeightsUnchanged DEF GarbageCollect, workerVars
<1> QED
  BY <1>1, <1>2, <1>3, <1>4, <1>5, <1>6, <1>7 DEF Others

LEMMA WeightsInformers ==
    ASSUME TypeOK, WeightsInv, Informers
    PROVE  WeightsInv'
<1>1. ASSUME NEW m \in MD, SyncMD(m) PROVE WeightsInv'
  BY <1>1
  DEF SyncMD, serverVars, workerVars, TypeOK, ServerTypeOK, CacheTypeOK, WeightsInv,
      ScheduledWeightsVerified, Vouched
<1>2. CASE SyncRoutes
  BY <1>2, WeightsUnchanged DEF SyncRoutes, serverVars, workerVars
<1>3. ASSUME NEW m \in MD, Resync(m) PROVE WeightsInv'
  BY <1>3, WeightsUnchanged DEF Resync, serverVars, cacheVars, workerVars
<1>4. ASSUME NEW c \in MD \X Kind, SyncChild(c) PROVE WeightsInv'
  BY <1>4, WeightsUnchanged DEF SyncChild, serverVars, workerVars
<1> QED
  BY <1>1, <1>2, <1>3, <1>4 DEF Informers

(* The worker goes on, or ends, with a vouched copy that it may write.      *)
LEMMA WeightsStep ==
    ASSUME TypeOK, WeightsInv, cur \in MD,
           md' = md \/ WriteMD(obj') \/ WriteMD(obj) \/ WriteMD(Absent),
           pc # "idle", pc' # "deployment", pc' = "idle" \/ cur' = cur,
           pc' = "idle" \/ Vouched(cur, obj)', obj' # Absent => Vouched(cur, obj'),
           UNCHANGED <<mdC, verified>>
    PROVE  WeightsInv'
<1>1. \A m \in MD : Vouched(m, md[m])'
  BY DEF TypeOK, ServerTypeOK, WriteMD, WeightsInv, Vouched
<1>2. \A m \in MD : Vouched(m, mdC[m])'
  BY DEF WeightsInv, Vouched
<1>3. ScheduledWeightsVerified'
  BY DEF ScheduledWeightsVerified
<1> QED
  BY <1>1, <1>2, <1>3 DEF WeightsInv

LEMMA WeightsWorker ==
    ASSUME TypeOK, WeightsInv, Worker
    PROVE  WeightsInv'
<1> USE DEF TypeOK, ServerTypeOK, CacheTypeOK
<1>0. pc # "idle" => cur \in MD /\ obj \in Object /\ Vouched(cur, obj)
  BY DEF WorkerTypeOK, WeightsInv
<1>1. ASSUME NEW m \in MD, Start(m) PROVE WeightsInv'
  <2> DEFINE skip == mdC[m] = Absent \/ (mdC[m] # Absent /\ mdC[m].deleting /\ ~mdC[m].finalizer)
  <2>1. CASE skip
    BY <1>1, <2>1, WeightsUnchanged DEF Start, workerVars, serverVars, cacheVars
  <2>2. CASE ~skip
    <3>1. /\ cur' = m /\ obj' = mdC[m] /\ pc' # "deployment"
          /\ UNCHANGED <<md, mdC, verified>>
      BY <1>1, <2>2 DEF Start, serverVars, cacheVars
    <3> QED
      BY <3>1 DEF WeightsInv, ScheduledWeightsVerified, Vouched
  <2> QED
    BY <2>1, <2>2
<1>2. CASE AddFinalizer
  <2>1. obj \in Object /\ cur \in MD /\ [obj EXCEPT !.finalizer = TRUE].digest = obj.digest
    BY <1>0, <1>2 DEF AddFinalizer, Object
  <2>2. CASE VersionAccepted
    <3>1. /\ obj' = [obj EXCEPT !.finalizer = TRUE] /\ WriteMD(obj')
          /\ pc' = "getModel" /\ cur' = cur /\ UNCHANGED <<mdC, verified>>
      BY <1>2, <2>2 DEF AddFinalizer, Goto
    <3>2. obj'.digest = obj.digest /\ Vouched(cur, obj') /\ Vouched(cur, obj)'
      BY <1>0, <1>2, <2>1, <3>1, ConstantsAssumption DEF Vouched, AddFinalizer
    <3> QED
      BY <1>0, <1>2, <3>1, <3>2, WeightsStep DEF AddFinalizer
  <2>3. CASE ~VersionAccepted
    BY <1>0, <1>2, <2>3, WeightsStep DEF AddFinalizer, Requeue, Idle
  <2> QED
    BY <2>2, <2>3
<1>3. CASE GetModel
  <2>1. /\ obj' = obj /\ cur' = cur /\ model' = catalog[cur] /\ pc = "getModel"
        /\ pc' = IF obj.digest = catalog[cur] THEN "deployment" ELSE "verify"
        /\ UNCHANGED <<md, mdC, verified>>
    BY <1>3 DEF GetModel, Goto, serverVars, cacheVars
  <2>2. catalog[cur] # NoDigest /\ obj # Absent
    BY <1>0, <2>1, ConstantsAssumption DEF StoreTypeOK
  <2>3. ScheduledWeightsVerified'
    BY <1>0, <2>1, <2>2 DEF ScheduledWeightsVerified, Vouched
  <2> QED
    BY <1>0, <2>1, <2>3 DEF WeightsInv, Vouched
<1>4. CASE VerifyWeights
  <2>1. obj \in Object /\ cur \in MD
    BY <1>0, <1>4 DEF VerifyWeights
  <2>2. CASE bucket[cur] = model
    <3>1. /\ obj' = [obj EXCEPT !.weights = "True", !.digest = model]
          /\ verified' = verified \cup {<<cur, model>>}
          /\ UNCHANGED <<md, mdC, cur, model>>
      BY <1>4, <2>2 DEF VerifyWeights, Goto, serverVars, cacheVars
    <3>2. obj'.digest = model
      BY <2>1, <3>1 DEF Object
    <3> QED
      BY <3>1, <3>2 DEF WeightsInv, ScheduledWeightsVerified, Vouched
  <2>3. CASE bucket[cur] # model
    <3>1. obj' = [obj EXCEPT !.weights = "False"]
          /\ pc' = "failStatus" /\ UNCHANGED <<md, mdC, cur, verified>>
      BY <1>4, <2>3 DEF VerifyWeights, VerificationFails, Goto, serverVars, cacheVars
    <3>2. obj'.digest = obj.digest /\ obj # Absent
      BY <2>1, <3>1, ConstantsAssumption DEF Object
    <3> QED
      BY <1>0, <1>4, <3>1, <3>2
      DEF WeightsInv, ScheduledWeightsVerified, Vouched, VerifyWeights
  <2> QED
    BY <2>2, <2>3
<1>5. CASE FailStatus
  BY <1>0, <1>5, WeightsStep DEF FailStatus, Requeue, Idle
<1>6. CASE ReconcileDeployment \/ ReconcileService \/ ReconcileScaledObject
  BY <1>0, <1>6, WeightsStep
  DEF ReconcileDeployment, ReconcileService, ReconcileScaledObject, Goto, Requeue, Idle, Vouched
<1>7. CASE AddRoute
  <2>1. obj' = [obj EXCEPT !.routable = TRUE] /\ obj \in Object /\ cur \in MD
        /\ pc # "idle" /\ pc' = "status" /\ UNCHANGED <<md, mdC, cur, verified>>
    BY <1>0, <1>7 DEF AddRoute, Goto
  <2>2. obj'.digest = obj.digest /\ obj # Absent
    BY <2>1, ConstantsAssumption DEF Object
  <2> QED
    BY <1>0, <2>1, <2>2 DEF WeightsInv, ScheduledWeightsVerified, Vouched
<1>8. CASE UpdateStatus
  BY <1>0, <1>8, WeightsStep DEF UpdateStatus, Requeue, Idle
<1>9. CASE RemoveRoute
  BY <1>0, <1>9, WeightsStep DEF RemoveRoute, Goto, Requeue, Idle, Vouched
<1>10. CASE RemoveFinalizer
  BY <1>0, <1>10, WeightsStep DEF RemoveFinalizer, Requeue, Idle
<1> QED
  BY <1>1, <1>2, <1>3, <1>4, <1>5, <1>6, <1>7, <1>8, <1>9, <1>10 DEF Worker

LEMMA WeightsFaults ==
    ASSUME TypeOK, WeightsInv, Faults
    PROVE  WeightsInv'
<1> USE DEF TypeOK, ServerTypeOK, CacheTypeOK
<1>0. pc # "idle" => cur \in MD /\ obj \in Object /\ obj # Absent /\ Vouched(cur, obj)
  BY ConstantsAssumption DEF WorkerTypeOK, WeightsInv
<1>1. CASE StoreUnavailable
  <2>1. /\ obj' = [obj EXCEPT !.weights = "False"] /\ obj \in Object /\ pc # "idle"
        /\ pc' = "failStatus" /\ UNCHANGED <<md, mdC, cur, verified>>
    BY <1>0, <1>1
    DEF StoreUnavailable, VerificationFails, Goto, serverVars, cacheVars
  <2>2. obj'.digest = obj.digest
    BY <2>1 DEF Object
  <2> QED
    BY <1>0, <2>1, <2>2 DEF WeightsInv, ScheduledWeightsVerified, Vouched
<1>2. CASE ApiUnavailable
  <2>1. CASE pc = "route"
    <3>1. /\ obj' = [obj EXCEPT !.routable = TRUE] /\ obj \in Object
          /\ pc' = "status" /\ UNCHANGED <<md, mdC, cur, verified>>
      BY <1>0, <1>2, <2>1 DEF ApiUnavailable, Goto, serverVars, cacheVars
    <3>2. obj'.digest = obj.digest
      BY <3>1 DEF Object
    <3> QED
      BY <1>0, <2>1, <3>1, <3>2 DEF WeightsInv, ScheduledWeightsVerified, Vouched
  <2>2. CASE pc # "route"
    BY <1>0, <1>2, <2>2, WeightsStep
    DEF ApiUnavailable, Requeue, Idle, serverVars, cacheVars
  <2> QED
    BY <2>1, <2>2
<1>3. CASE OperatorRestarts
  BY <1>3
  DEF OperatorRestarts, serverVars, WeightsInv, ScheduledWeightsVerified, Vouched
<1> QED
  BY <1>1, <1>2, <1>3 DEF Faults

(* No reconcile reaches the Deployment of a model whose catalog digest has  *)
(* not been verified, although the status it goes by may be an old copy     *)
(* and survives restarts, edits and changes of the catalog.                 *)
THEOREM WeightsSafe == Spec => []ScheduledWeightsVerified
<1>1. TypeOK /\ WeightsInv /\ [Next]_vars => WeightsInv'
  <2> SUFFICES ASSUME TypeOK, WeightsInv, [Next]_vars PROVE WeightsInv'
    OBVIOUS
  <2>1. CASE Next
    BY <2>1, WeightsWorker, WeightsFaults, WeightsInformers, WeightsOthers DEF Next
  <2>2. CASE UNCHANGED vars
    BY <2>2, WeightsUnchanged DEF vars, serverVars, cacheVars, workerVars
  <2> QED
    BY <2>1, <2>2
<1>2. WeightsInv => ScheduledWeightsVerified
  BY DEF WeightsInv
<1> QED
  BY <1>1, <1>2, TypeInit, TypeNext, WeightsInit, PTL DEF Spec

-----------------------------------------------------------------------------
(* What resourceVersions guarantee, whether or not the ConfigMap exists: a  *)
(* cached copy that counts as the latest is what the server has, and so is  *)
(* the worker's copy but for the status fields the worker itself sets.      *)
CacheLatest ==
    /\ \A m \in mdFresh : mdC[m] = md[m]
    /\ \A c \in childFresh : childC[c] = child[c]
    /\ routesFresh => routesC = routes
CopyLatest == rv => md[cur] # Absent /\ obj.phase = md[cur].phase

Copies == CacheLatest /\ CopyLatest

LEMMA CopiesInit == Init => Copies
  BY DEF Init, Copies, CacheLatest, CopyLatest

LEMMA CopiesUnchanged ==
    ASSUME Copies,
           UNCHANGED <<md, child, routes, mdC, childC, routesC, mdFresh, childFresh,
                       routesFresh, cur, obj, rv>>
    PROVE  Copies'
  BY DEF Copies, CacheLatest, CopyLatest

(* A write by someone else: every copy of what changes is outdated.         *)
LEMMA CopiesWriteByOther ==
    ASSUME TypeOK, Copies, NEW m \in MD, NEW o, WriteByOther(m, o),
           \A c \in childFresh' : c \in childFresh /\ child'[c] = child[c]
    PROVE  Copies'
<1> USE DEF TypeOK, ServerTypeOK, CacheTypeOK, WorkerTypeOK, WriteByOther
<1>1. CacheLatest'
  BY DEF Copies, CacheLatest
<1>2. CopyLatest'
  BY DEF Copies, CopyLatest
<1> QED
  BY <1>1, <1>2 DEF Copies

LEMMA CopiesOthers ==
    ASSUME TypeOK, Copies, Others
    PROVE  Copies'
<1> USE DEF TypeOK, ServerTypeOK, CacheTypeOK
<1>1. ASSUME NEW m \in MD,
             UserCreates(m) \/ UserEdits(m) \/ UserDeletes(m)
             \/ BudgetPauses(m) \/ AdminResumes(m)
      PROVE  Copies'
  <2>1. PICK o : WriteByOther(m, o)
    BY <1>1 DEF UserCreates, UserEdits, UserDeletes, BudgetPauses, AdminResumes
  <2>2. \/ UNCHANGED <<child, childFresh>>
        \/ childFresh' = {c \in childFresh : child'[c] = child[c]}
    BY <1>1 DEF UserCreates, UserEdits, UserDeletes, BudgetPauses, AdminResumes
  <2> QED
    BY <2>1, <2>2, CopiesWriteByOther
<1>2. ASSUME NEW m \in MD, StoreChanges(m) PROVE Copies'
  BY <1>2, CopiesUnchanged DEF StoreChanges, serverVars, cacheVars, workerVars
<1>3. ASSUME NEW m \in MD, Scales(m) PROVE Copies'
  BY <1>3 DEF Scales, workerVars, Copies, CacheLatest, CopyLatest
<1>4. ASSUME NEW c \in MD \X Kind, GarbageCollect(c) PROVE Copies'
  BY <1>4 DEF GarbageCollect, workerVars, Copies, CacheLatest, CopyLatest
<1> QED
  BY <1>1, <1>2, <1>3, <1>4 DEF Others

LEMMA CopiesInformers ==
    ASSUME TypeOK, Copies, Informers
    PROVE  Copies'
<1> USE DEF TypeOK, ServerTypeOK, CacheTypeOK, Copies, CacheLatest, CopyLatest,
            serverVars, workerVars
<1>1. ASSUME NEW m \in MD, SyncMD(m) PROVE Copies'
  BY <1>1 DEF SyncMD
<1>2. ASSUME NEW m \in MD, Resync(m) PROVE Copies'
  BY <1>2, CopiesUnchanged DEF Resync, cacheVars
<1>3. ASSUME NEW c \in MD \X Kind, SyncChild(c) PROVE Copies'
  BY <1>3 DEF SyncChild
<1>4. CASE SyncRoutes
  BY <1>4 DEF SyncRoutes
<1> QED
  BY <1>1, <1>2, <1>3, <1>4 DEF Informers

(* The worker's own writes keep what its other copies say, and leave its    *)
(* copy of the object the latest, or drop it.                               *)
LEMMA CopiesWrite ==
    ASSUME TypeOK, Copies, pc # "idle",
           UNCHANGED <<mdC, childC, routesC>>,
           \/ UNCHANGED <<md, mdFresh>>
           \/ \E o : WriteMD(o),
           \/ UNCHANGED <<child, childFresh>>
           \/ \E k \in Kind : \E o : WriteChild(k, o)
           \/ childFresh' = {c \in childFresh : child'[c] = child[c]},
           \/ UNCHANGED <<routes, routesFresh>>
           \/ \E rs : WriteRoutes(rs)
    PROVE  CacheLatest'
<1> USE DEF TypeOK, ServerTypeOK, CacheTypeOK, WorkerTypeOK, Copies, CacheLatest
<1>1. \A m \in mdFresh' : mdC'[m] = md'[m]
  BY DEF WriteMD
<1>2. \A c \in childFresh' : childC'[c] = child'[c]
  BY DEF WriteChild
<1>3. routesFresh' => routesC' = routes'
  BY DEF WriteRoutes
<1> QED
  BY <1>1, <1>2, <1>3

(* Changing these fields of its copy does not change the phase.             *)
LEMMA PhaseKept ==
    ASSUME NEW o \in Object
    PROVE  /\ \A e \in Engine, s \in Scale :
                 [o EXCEPT !.engine = e, !.scale = s].phase = o.phase
           /\ [o EXCEPT !.deleting = TRUE].phase = o.phase
           /\ [o EXCEPT !.finalizer = TRUE].phase = o.phase
           /\ [o EXCEPT !.weights = "False"].phase = o.phase
           /\ \A d \in Digest :
                 [o EXCEPT !.weights = "True", !.digest = d].phase = o.phase
           /\ [o EXCEPT !.routable = TRUE].phase = o.phase
  BY DEF Object

LEMMA CopiesWorker ==
    ASSUME TypeOK, Copies, Worker
    PROVE  Copies'
<1> USE DEF TypeOK, ServerTypeOK, CacheTypeOK
<1>0. /\ pc # "idle" => cur \in MD /\ obj \in Object /\ obj # Absent
      /\ CopyLatest
  BY ConstantsAssumption DEF WorkerTypeOK, Copies
<1>1. ASSUME NEW m \in MD, Start(m) PROVE Copies'
  <2>1. UNCHANGED <<serverVars, cacheVars>> /\ m \in MD
    BY <1>1 DEF Start
  <2>2. CacheLatest'
    BY <2>1 DEF Copies, CacheLatest, serverVars, cacheVars
  <2>3. CopyLatest'
    BY <1>1, <2>1 DEF Start, Copies, CacheLatest, CopyLatest, workerVars, serverVars
  <2> QED
    BY <2>2, <2>3 DEF Copies
<1>2. CASE AddFinalizer
  <2>1. pc = "addFinalizer"
    BY <1>2 DEF AddFinalizer
  <2>2. CacheLatest'
    BY <1>2, <2>1, CopiesWrite DEF AddFinalizer
  <2>3. CASE VersionAccepted
    <3>1. /\ obj' = [obj EXCEPT !.finalizer = TRUE] /\ md' = [md EXCEPT ![cur] = obj']
          /\ cur' = cur /\ rv' = rv
      BY <1>2, <2>3 DEF AddFinalizer, Goto, WriteMD
    <3>2. obj' \in Object
      BY <1>0, <2>1, <3>1, ObjectFields
    <3>3. CopyLatest'
      BY <1>0, <2>1, <3>1, <3>2, ConstantsAssumption DEF CopyLatest
    <3> QED
      BY <2>2, <3>3 DEF Copies
  <2>4. CASE ~VersionAccepted
    BY <1>2, <2>2, <2>4 DEF AddFinalizer, Requeue, Idle, Copies, CopyLatest
  <2> QED
    BY <2>3, <2>4
<1>3. CASE GetModel
  BY <1>3, CopiesUnchanged DEF GetModel, Goto, serverVars, cacheVars
<1>4. CASE VerifyWeights
  <2>1. /\ pc = "verify" /\ UNCHANGED <<serverVars, cacheVars, cur, rv>>
        /\ \/ \E d \in Digest : obj' = [obj EXCEPT !.weights = "True", !.digest = d]
           \/ obj' = [obj EXCEPT !.weights = "False"]
    <3>1. CASE bucket[cur] = model
      BY <1>0, <1>4, <3>1 DEF VerifyWeights, Goto, StoreTypeOK
    <3>2. CASE bucket[cur] # model
      BY <1>4, <3>2 DEF VerifyWeights, VerificationFails, Goto
    <3> QED
      BY <3>1, <3>2
  <2>2. obj \in Object
    BY <1>0, <2>1
  <2>3. obj'.phase = obj.phase
    <3>1. ASSUME NEW d \in Digest, obj' = [obj EXCEPT !.weights = "True", !.digest = d]
          PROVE  obj'.phase = obj.phase
      BY <2>2, <3>1 DEF Object
    <3>2. ASSUME obj' = [obj EXCEPT !.weights = "False"]
          PROVE  obj'.phase = obj.phase
      BY <2>2, <3>2 DEF Object
    <3> QED
      BY <2>1, <3>1, <3>2
  <2> QED
    BY <2>1, <2>3 DEF Copies, CacheLatest, CopyLatest, serverVars, cacheVars
<1>5. ASSUME FailStatus \/ UpdateStatus \/ RemoveFinalizer PROVE Copies'
  <2>1. rv' = FALSE
    BY <1>5 DEF FailStatus, UpdateStatus, RemoveFinalizer, Requeue, Idle
  <2>2. CacheLatest'
    BY <1>5, CopiesWrite DEF FailStatus, UpdateStatus, RemoveFinalizer
  <2> QED
    BY <2>1, <2>2 DEF Copies, CopyLatest
<1>6. ASSUME ReconcileDeployment \/ ReconcileService \/ ReconcileScaledObject
             \/ RemoveRoute
      PROVE  Copies'
  <2>1. UNCHANGED md /\ (UNCHANGED <<cur, obj, rv>> \/ rv' = FALSE)
    BY <1>6 DEF ReconcileDeployment, ReconcileService, ReconcileScaledObject,
                RemoveRoute, Requeue, Idle, Goto
  <2>2. CacheLatest'
    BY <1>6, CopiesWrite
    DEF ReconcileDeployment, ReconcileService, ReconcileScaledObject,
        CreateChild, UpdateChild, RemoveRoute
  <2> QED
    BY <2>1, <2>2 DEF Copies, CopyLatest
<1>7. CASE AddRoute
  <2>1. /\ pc = "route" /\ obj' = [obj EXCEPT !.routable = TRUE]
        /\ UNCHANGED <<md, cur, rv>>
    BY <1>7 DEF AddRoute, Goto
  <2>2. obj'.phase = obj.phase
    BY <1>0, <2>1, PhaseKept
  <2>3. CacheLatest'
    BY <1>7, CopiesWrite DEF AddRoute
  <2> QED
    BY <2>1, <2>2, <2>3 DEF Copies, CopyLatest
<1> QED
  BY <1>1, <1>2, <1>3, <1>4, <1>5, <1>6, <1>7 DEF Worker

LEMMA CopiesFaults ==
    ASSUME TypeOK, Copies, Faults
    PROVE  Copies'
<1> USE DEF TypeOK, ServerTypeOK, CacheTypeOK
<1>0. pc # "idle" => obj \in Object
  BY DEF WorkerTypeOK
<1>1. ASSUME StoreUnavailable \/ ApiUnavailable PROVE Copies'
  <2>1. /\ UNCHANGED <<serverVars, cacheVars>>
        /\ \/ rv' = FALSE
           \/ /\ pc # "idle" /\ UNCHANGED <<cur, rv>>
              /\ \/ obj' = [obj EXCEPT !.weights = "False"]
                 \/ obj' = [obj EXCEPT !.routable = TRUE]
    BY <1>1 DEF StoreUnavailable, ApiUnavailable, VerificationFails, Goto, Requeue, Idle
  <2>2. rv' => obj'.phase = obj.phase
    BY <1>0, <2>1, PhaseKept
  <2> QED
    BY <2>1, <2>2 DEF Copies, CacheLatest, CopyLatest, serverVars, cacheVars
<1>2. CASE OperatorRestarts
  BY <1>2 DEF OperatorRestarts, serverVars, Copies, CacheLatest, CopyLatest
<1> QED
  BY <1>1, <1>2 DEF Faults

LEMMA CopiesNext == TypeOK /\ Copies /\ [Next]_vars => Copies'
<1> SUFFICES ASSUME TypeOK, Copies, [Next]_vars PROVE Copies'
  OBVIOUS
<1>1. CASE Next
  BY <1>1, CopiesWorker, CopiesFaults, CopiesInformers, CopiesOthers DEF Next
<1>2. CASE UNCHANGED vars
  BY <1>2, CopiesUnchanged DEF vars, serverVars, cacheVars, workerVars
<1> QED
  BY <1>1, <1>2

-----------------------------------------------------------------------------
(* The server refuses the worker's older copy, and so its older phase.      *)
LEMMA PhaseStep ==
    ASSUME TypeOK, Copies, Next, NEW m \in MD,
           md[m] # Absent, md'[m] # Absent,
           md[m].phase = "BudgetPaused", md'[m].phase # "BudgetPaused"
    PROVE  AdminResumes(m)
<1> USE DEF TypeOK, ServerTypeOK, CacheTypeOK
<1>0. /\ md[m] \in Object /\ md' # md
      /\ pc # "idle" => cur \in MD /\ obj \in Object
  BY DEF WorkerTypeOK
<1>1. ASSUME NEW n \in MD, NEW o, WriteByOther(n, o),
             o # Absent => md[n] = Absent \/ o.phase \in {"BudgetPaused", md[n].phase}
      PROVE  FALSE
  BY <1>0, <1>1 DEF WriteByOther
<1>2. ASSUME NEW n \in MD, UserCreates(n) \/ UserEdits(n) PROVE FALSE
  <2>1. CASE UserCreates(n)
    BY <1>1, <2>1 DEF UserCreates
  <2>2. CASE UserEdits(n)
    <3>1. PICK spec \in Specs :
             WriteByOther(n, [md[n] EXCEPT !.engine = spec[1], !.scale = spec[2]])
      BY <2>2 DEF UserEdits
    <3>2. md[n] \in Object /\ spec[1] \in Engine /\ spec[2] \in Scale
      BY <2>2, ConstantsAssumption DEF UserEdits
    <3> DEFINE o == [md[n] EXCEPT !.engine = spec[1], !.scale = spec[2]]
    <3>3. o.phase = md[n].phase
      BY <3>2, PhaseKept
    <3> HIDE DEF o
    <3> QED
      BY <1>1, <3>1, <3>3 DEF o
  <2> QED
    BY <1>2, <2>1, <2>2
<1>3. ASSUME NEW n \in MD, UserDeletes(n) PROVE FALSE
  <2>1. md[n] \in Object
    BY <1>3 DEF UserDeletes
  <2>2. [md[n] EXCEPT !.deleting = TRUE].phase = md[n].phase
    BY <2>1, PhaseKept
  <2> QED
    BY <1>1, <1>3, <2>2 DEF UserDeletes
<1>4. ASSUME NEW n \in MD, BudgetPauses(n) PROVE FALSE
  <2>1. mdC[n] \in Object
    BY <1>4 DEF BudgetPauses
  <2>2. [mdC[n] EXCEPT !.phase = "BudgetPaused"].phase = "BudgetPaused"
    BY <2>1 DEF Object
  <2> QED
    BY <1>1, <1>4, <2>2 DEF BudgetPauses
<1>5. ASSUME NEW n \in MD, AdminResumes(n) PROVE n = m
  BY <1>0, <1>5 DEF AdminResumes, WriteByOther
<1>6. ASSUME Others PROVE AdminResumes(m)
  <2>1. \A n \in MD : StoreChanges(n) \/ Scales(n) => UNCHANGED md
    BY DEF StoreChanges, Scales, serverVars
  <2>2. \A c \in MD \X Kind : GarbageCollect(c) => UNCHANGED md
    BY DEF GarbageCollect
  <2> QED
    BY <1>0, <1>2, <1>3, <1>4, <1>5, <1>6, <2>1, <2>2 DEF Others
<1>7. ASSUME Informers \/ Faults PROVE FALSE
  BY <1>0, <1>7
  DEF Informers, SyncMD, Resync, SyncChild, SyncRoutes, Faults, StoreUnavailable,
      ApiUnavailable, OperatorRestarts, serverVars
<1>8. ASSUME Worker PROVE FALSE
  <2>1. \/ /\ pc # "idle" /\ rv
           /\ \/ md' = [md EXCEPT ![cur] = Absent]
              \/ md' = [md EXCEPT ![cur] = obj]
              \/ md' = [md EXCEPT ![cur] = [obj EXCEPT !.finalizer = TRUE]]
        \/ UNCHANGED md
    BY <1>8
    DEF Worker, Start, AddFinalizer, GetModel, VerifyWeights, FailStatus,
        ReconcileDeployment, ReconcileService, ReconcileScaledObject, AddRoute,
        UpdateStatus, RemoveRoute, RemoveFinalizer, WriteMD, VersionAccepted, serverVars
  <2>2. pc # "idle" => [obj EXCEPT !.finalizer = TRUE].phase = obj.phase
    BY <1>0, PhaseKept
  <2> QED
    BY <1>0, <2>1, <2>2 DEF Copies, CopyLatest
<1> QED
  BY <1>6, <1>7, <1>8 DEF Next

(* ResumeModelDeployment alone ends a budget pause: the status the worker   *)
(* writes at the end of a reconcile, and the copies the budget controller,  *)
(* users and restarts work on, never bring an older phase back.             *)
THEOREM PauseSafe == Spec => PauseSurvives
<1>1. TypeOK /\ Copies /\ [Next]_vars =>
        [\A m \in MD :
            /\ md[m] # Absent /\ md'[m] # Absent
            /\ md[m].phase = "BudgetPaused" /\ md'[m].phase # "BudgetPaused"
            => AdminResumes(m)]_vars
  BY PhaseStep
<1> QED
  BY <1>1, TypeInit, TypeNext, CopiesInit, CopiesNext, PTL DEF Spec, PauseSurvives

(* An update of a Deployment carries the replicas of the latest version.    *)
LEMMA ReplicasStep ==
    ASSUME TypeOK, Copies, Next, NEW m \in MD,
           child[<<m, "Deployment">>] # Absent, child'[<<m, "Deployment">>] # Absent,
           child[<<m, "Deployment">>].replicas # child'[<<m, "Deployment">>].replicas
    PROVE  Scales(m)
<1> USE DEF TypeOK, ServerTypeOK, CacheTypeOK
<1> DEFINE d == <<m, "Deployment">>
<1>0. d \in MD \X Kind /\ child[d] \in Child /\ child' # child
  OBVIOUS
<1>1. \A n \in MD, c \in MD \X Kind :
          child[c] # Absent => Orphaned(n)[c].replicas = child[c].replicas
  <2>1. \A c \in Child : [c EXCEPT !.orphan = TRUE].replicas = c.replicas
    BY DEF Child
  <2> QED
    BY <2>1 DEF Orphaned
<1>2. ASSUME NEW n \in MD, Scales(n) PROVE n = m
  BY <1>0, <1>2 DEF Scales
<1>3. ASSUME NEW n \in MD, UserDeletes(n) PROVE FALSE
  BY <1>0, <1>1, <1>3 DEF UserDeletes
<1>4. ASSUME NEW c \in MD \X Kind, GarbageCollect(c) PROVE FALSE
  BY <1>0, <1>4 DEF GarbageCollect
<1>5. ASSUME Others PROVE Scales(m)
  <2>1. \A n \in MD : UserCreates(n) \/ UserEdits(n) \/ BudgetPauses(n)
                      \/ AdminResumes(n) \/ StoreChanges(n) => UNCHANGED child
    BY DEF UserCreates, UserEdits, BudgetPauses, AdminResumes, StoreChanges, serverVars
  <2> QED
    BY <1>0, <1>2, <1>3, <1>4, <1>5, <2>1 DEF Others
<1>6. ASSUME Informers \/ Faults PROVE FALSE
  BY <1>0, <1>6
  DEF Informers, SyncMD, Resync, SyncChild, SyncRoutes, Faults, StoreUnavailable,
      ApiUnavailable, OperatorRestarts, serverVars
<1>7. ASSUME NEW k \in Kind, CreateChild(k) \/ UpdateChild(k), pc # "idle" PROVE FALSE
  <2>1. cur \in MD /\ <<cur, k>> \in MD \X Kind
    BY <1>7 DEF WorkerTypeOK
  <2>2. CASE CreateChild(k)
    BY <1>0, <2>1, <2>2 DEF CreateChild, WriteChild
  <2>3. CASE UpdateChild(k)
    <3>1. /\ childC[<<cur, k>>] = child[<<cur, k>>] /\ childC[<<cur, k>>] # Absent
          /\ child' = [child EXCEPT ![<<cur, k>>] =
                         [childC[<<cur, k>>] EXCEPT !.engine = obj.engine]]
      BY <2>3 DEF UpdateChild, WriteChild, Copies, CacheLatest
    <3>2. [childC[<<cur, k>>] EXCEPT !.engine = obj.engine].replicas
            = child[<<cur, k>>].replicas
      BY <2>1, <3>1 DEF Child
    <3> QED
      BY <1>0, <2>1, <3>1, <3>2
  <2> QED
    BY <1>7, <2>2, <2>3
<1>8. ASSUME Worker PROVE FALSE
  <2>1. CASE ReconcileDeployment \/ ReconcileService \/ ReconcileScaledObject
    BY <1>0, <1>7, <2>1 DEF ReconcileDeployment, ReconcileService, ReconcileScaledObject
  <2>2. CASE RemoveFinalizer
    BY <1>0, <1>1, <2>2 DEF RemoveFinalizer, WorkerTypeOK
  <2> QED
    BY <1>0, <1>8, <2>1, <2>2
    DEF Worker, Start, AddFinalizer, GetModel, VerifyWeights, FailStatus, AddRoute,
        UpdateStatus, RemoveRoute, serverVars
<1> QED
  BY <1>5, <1>6, <1>8 DEF Next

(* Nobody but KEDA changes the replicas of a Deployment that exists: the    *)
(* operator's updates carry those of a copy that is the latest, or fail.    *)
THEOREM ReplicasSafe == Spec => ReplicasKept
<1>1. TypeOK /\ Copies /\ [Next]_vars =>
        [\A m \in MD : LET d == <<m, "Deployment">> IN
            /\ child[d] # Absent /\ child'[d] # Absent
            /\ child[d].replicas # child'[d].replicas
            => Scales(m)]_vars
  BY ReplicasStep
<1> QED
  BY <1>1, TypeInit, TypeNext, CopiesInit, CopiesNext, PTL DEF Spec, ReplicasKept

(* What the worker writes to an existing ConfigMap is the latest version    *)
(* with one change, to the route it is working on.                          *)
LEMMA RoutesStep ==
    ASSUME TypeOK, Copies, Next, routes # NoConfigMap, routes' # routes
    PROVE  /\ cur \in MD
           /\ \/ AddRoute /\ routes' = routes \cup {cur}
              \/ RemoveRoute /\ routes' = routes \ {cur}
<1> USE DEF TypeOK, ServerTypeOK, CacheTypeOK
<1>1. AddRoute \/ RemoveRoute
  BY DEF Next, Worker, Start, AddFinalizer, GetModel, VerifyWeights, FailStatus,
         ReconcileDeployment, ReconcileService, ReconcileScaledObject,
         UpdateStatus, RemoveFinalizer, Faults, StoreUnavailable, ApiUnavailable,
         OperatorRestarts, Informers, SyncMD, Resync, SyncChild, SyncRoutes, Others,
         UserCreates, UserEdits, UserDeletes, BudgetPauses, AdminResumes,
         StoreChanges, Scales, GarbageCollect, WriteByOther, serverVars
<1>2. cur \in MD
  BY <1>1 DEF AddRoute, RemoveRoute, WorkerTypeOK
<1>3. ~RoutesRefused => routesC = routes
  BY DEF RoutesRefused, Copies, CacheLatest
<1>4. CASE AddRoute
  BY <1>2, <1>3, <1>4 DEF AddRoute, WriteRoutes
<1>5. CASE RemoveRoute
  BY <1>2, <1>3, <1>5 DEF RemoveRoute, WriteRoutes
<1> QED
  BY <1>1, <1>4, <1>5

(* No conflict, retry or restart loses the route of another ModelDeployment *)
(* or brings it back: the ConfigMap is never overwritten from an old copy.  *)
THEOREM RoutesSafe == Spec => OthersRoutesKept
<1>1. TypeOK /\ Copies /\ [Next]_vars =>
        [routes # NoConfigMap /\ routes' # NoConfigMap =>
            \A m \in MD \ {cur} : m \in routes' <=> m \in routes]_vars
  BY RoutesStep
<1> QED
  BY <1>1, TypeInit, TypeNext, CopiesInit, CopiesNext, PTL DEF Spec, OthersRoutesKept

-----------------------------------------------------------------------------
(* The refinement: which ModelDeployments the operator holds.               *)
Held == {m \in MD : Live(m)}

LEMMA HeldOthers ==
    ASSUME TypeOK, Copies, Others
    PROVE  Held' = Held
<1> USE DEF TypeOK, ServerTypeOK, CacheTypeOK
<1>1. ASSUME NEW n \in MD, NEW o, WriteByOther(n, o), Live(n) <=> o # Absent /\ o.finalizer
      PROVE  Held' = Held
  BY <1>1 DEF WriteByOther, Held, Live
<1>2. ASSUME NEW n \in MD, UserCreates(n) PROVE Held' = Held
  <2>1. \A spec \in Specs : ~NewObject(spec).finalizer
    BY DEF NewObject
  <2> QED
    BY <1>1, <1>2, <2>1 DEF UserCreates, Live
<1>3. ASSUME NEW n \in MD, UserEdits(n) PROVE Held' = Held
  <2> DEFINE edit(spec) == [md[n] EXCEPT !.engine = spec[1], !.scale = spec[2]]
  <2>1. PICK spec \in Specs : WriteByOther(n, edit(spec))
    BY <1>3 DEF UserEdits
  <2>2. md[n] # Absent /\ md[n] \in Object /\ spec[1] \in Engine /\ spec[2] \in Scale
    BY <1>3, ConstantsAssumption DEF UserEdits
  <2>3. edit(spec) \in Object /\ edit(spec).finalizer = md[n].finalizer
    BY <2>2, ObjectFields, FinalizerKept
  <2>4. edit(spec) # Absent
    BY <2>3, ConstantsAssumption
  <2> HIDE DEF edit
  <2> QED
    BY <1>1, <2>1, <2>2, <2>3, <2>4 DEF Live
<1>4. ASSUME NEW n \in MD, UserDeletes(n) PROVE Held' = Held
  <2> DEFINE o == [md[n] EXCEPT !.deleting = TRUE]
  <2>1. md[n] # Absent /\ md[n] \in Object
    BY <1>4 DEF UserDeletes
  <2>2. o # Absent /\ o.finalizer = md[n].finalizer
    BY <2>1, ObjectFields, FinalizerKept, ConstantsAssumption
  <2>3. IF md[n].finalizer THEN WriteByOther(n, o) ELSE WriteByOther(n, Absent)
    BY <1>4 DEF UserDeletes
  <2> HIDE DEF o
  <2> QED
    BY <1>1, <2>1, <2>2, <2>3 DEF Live
<1>5. ASSUME NEW n \in MD, BudgetPauses(n) PROVE Held' = Held
  <2> DEFINE o == [mdC[n] EXCEPT !.phase = "BudgetPaused"]
  <2>1. mdC[n] # Absent /\ mdC[n] \in Object /\ mdC[n] = md[n] /\ WriteByOther(n, o)
    BY <1>5 DEF BudgetPauses, Copies, CacheLatest
  <2>2. o # Absent /\ o.finalizer = md[n].finalizer
    BY <2>1, ObjectFields, FinalizerKept, ConstantsAssumption
  <2> HIDE DEF o
  <2> QED
    BY <1>1, <2>1, <2>2 DEF Live
<1>6. ASSUME NEW n \in MD, AdminResumes(n) PROVE Held' = Held
  <2> DEFINE o == [md[n] EXCEPT !.phase = "Pending"]
  <2>1. md[n] # Absent /\ md[n] \in Object /\ WriteByOther(n, o)
    BY <1>6 DEF AdminResumes
  <2>2. o # Absent /\ o.finalizer = md[n].finalizer
    BY <2>1, ObjectFields, FinalizerKept, ConstantsAssumption
  <2> HIDE DEF o
  <2> QED
    BY <1>1, <2>1, <2>2 DEF Live
<1>7. \/ \E n \in MD : StoreChanges(n) \/ Scales(n)
      \/ \E c \in MD \X Kind : GarbageCollect(c)
      => Held' = Held
  BY DEF StoreChanges, Scales, GarbageCollect, serverVars, Held, Live
<1> QED
  BY <1>2, <1>3, <1>4, <1>5, <1>6, <1>7 DEF Others

(* The worker holds an object when it has admitted it, and lets it go when  *)
(* its last write takes the finalizer away.                                 *)
LEMMA HeldWorker ==
    ASSUME TypeOK, RouteInv, Worker, md' # md
    PROVE  /\ cur \in MD
           /\ \/ Held' = Held \cup {cur}
              \/ cur \notin routes /\ Held' = Held \ {cur}
<1> USE DEF TypeOK, ServerTypeOK, CacheTypeOK
<1>0. pc # "idle" => cur \in MD /\ obj \in Object
  BY DEF WorkerTypeOK
<1>1. \/ AddFinalizer /\ md' = [md EXCEPT ![cur] = [obj EXCEPT !.finalizer = TRUE]]
      \/ (FailStatus \/ UpdateStatus) /\ md' = [md EXCEPT ![cur] = obj]
      \/ RemoveFinalizer /\ md' = [md EXCEPT ![cur] = Absent]
  BY DEF Worker, Start, AddFinalizer, GetModel, VerifyWeights, FailStatus,
         ReconcileDeployment, ReconcileService, ReconcileScaledObject, AddRoute,
         UpdateStatus, RemoveRoute, RemoveFinalizer, WriteMD, serverVars
<1>2. cur \in MD /\ obj \in Object
  BY <1>0, <1>1 DEF AddFinalizer, FailStatus, UpdateStatus, RemoveFinalizer
<1>3. ASSUME NEW o \in Object, o.finalizer, md' = [md EXCEPT ![cur] = o]
      PROVE  Held' = Held \cup {cur}
  BY <1>2, <1>3, ConstantsAssumption DEF Held, Live
<1>4. CASE md' = [md EXCEPT ![cur] = [obj EXCEPT !.finalizer = TRUE]]
  <2>1. [obj EXCEPT !.finalizer = TRUE] \in Object
    BY <1>2, ObjectFields
  <2>2. [obj EXCEPT !.finalizer = TRUE].finalizer
    BY <1>2 DEF Object
  <2> QED
    BY <1>2, <1>3, <1>4, <2>1, <2>2
<1>5. CASE (FailStatus \/ UpdateStatus) /\ md' = [md EXCEPT ![cur] = obj]
  <2>1. obj.finalizer
    BY <1>5 DEF FailStatus, UpdateStatus, RouteInv, AdmittedIsLive, Admitted, Removal
  <2> QED
    BY <1>2, <1>3, <1>5, <2>1
<1>6. CASE RemoveFinalizer /\ md' = [md EXCEPT ![cur] = Absent]
  BY <1>2, <1>6 DEF RemoveFinalizer, RouteInv, RouteRemoved, Held, Live
<1> QED
  BY <1>1, <1>2, <1>4, <1>5, <1>6

LEMMA RegistryStep ==
    ASSUME TypeOK, Copies, RouteInv, [Next]_vars
    PROVE  [Registry!RegistryNext]_(Registry!registryVars)
<1> USE DEF Registry!registryVars
<1> DEFINE table == IF routes = NoConfigMap THEN {} ELSE routes
           held  == {m \in MD : md[m] # Absent /\ md[m].finalizer}
<1>0. held = Held /\ held' = Held' /\ table = routes
  BY DEF Held, Live, RouteInv, ConfigMapStays
<1>1. CASE Next /\ routes' # routes
  <2>1. /\ cur \in MD
        /\ \/ AddRoute /\ routes' = routes \cup {cur}
           \/ RemoveRoute /\ routes' = routes \ {cur}
    BY <1>1, RoutesStep DEF RouteInv, ConfigMapStays
  <2>2. routes' # NoConfigMap
    BY <1>1, RouteNext DEF RouteInv, ConfigMapStays
  <2>3. held' = held /\ table' = routes'
    BY <2>1, <2>2 DEF AddRoute, RemoveRoute
  <2>4. CASE AddRoute /\ routes' = routes \cup {cur}
    <3>1. cur \in held
      BY <2>1, <2>4
      DEF AddRoute, RouteInv, AdmittedIsLive, Admitted, Removal, Live
    <3>2. Registry!Register(cur)
      BY <1>0, <2>3, <2>4, <3>1 DEF Registry!Register
    <3> QED
      BY <2>1, <3>2 DEF Registry!RegistryNext
  <2>5. CASE routes' = routes \ {cur}
    <3>1. Registry!Unregister(cur)
      BY <1>0, <2>3, <2>5 DEF Registry!Unregister
    <3> QED
      BY <2>1, <3>1 DEF Registry!RegistryNext
  <2> QED
    BY <2>1, <2>4, <2>5
<1>2. CASE Next /\ UNCHANGED routes
  <2>1. table' = table
    BY <1>2
  <2>2. CASE UNCHANGED md
    BY <2>1, <2>2
  <2>3. CASE Worker /\ md' # md
    <3>1. PICK m \in MD : \/ held' = held \cup {m}
                          \/ m \notin table /\ held' = held \ {m}
      BY <1>0, <2>3, HeldWorker
    <3>2. Registry!Hold(m) \/ Registry!Release(m)
      BY <2>1, <3>1 DEF Registry!Hold, Registry!Release
    <3> QED
      BY <3>2 DEF Registry!RegistryNext
  <2>4. CASE Others
    BY <1>0, <2>1, <2>4, HeldOthers
  <2>5. Informers \/ Faults => UNCHANGED md
    BY DEF Informers, SyncMD, Resync, SyncChild, SyncRoutes, Faults, StoreUnavailable,
           ApiUnavailable, OperatorRestarts, serverVars
  <2> QED
    BY <1>2, <2>2, <2>3, <2>4, <2>5 DEF Next
<1>3. CASE UNCHANGED vars
  BY <1>3 DEF vars, serverVars
<1> QED
  BY <1>1, <1>2, <1>3

(* The operator is a route registry: of all that users, caches, conflicts,  *)
(* restarts and the budget controller do, the gateway sees one route at a   *)
(* time enter, and leave before its ModelDeployment is let go.              *)
THEOREM RoutesImplement == ConfigMapAtInstall /\ Spec => ImplementsRegistry
<1>1. ConfigMapAtInstall /\ Init => Registry!RegistryInit
  BY DEF Init, Registry!RegistryInit
<1>2. TypeOK /\ Copies /\ RouteInv /\ [Next]_vars
      => [Registry!RegistryNext]_(Registry!registryVars)
  BY RegistryStep
<1> QED
  BY <1>1, <1>2, TypeInit, TypeNext, CopiesInit, CopiesNext, RouteInit, RouteNext, PTL
  DEF Spec, ImplementsRegistry, Registry!RegistrySpec
=============================================================================
