---------------------- MODULE HTTPRouteAccounting_proofs ----------------------
(***************************************************************************)
(* The bookkeeping of cloud services, for all constants and any number of   *)
(* faults: a deletion reaches the deleted route's services only             *)
(* (DeletesOwnServicesOnly), a recorded live service is never replaced      *)
(* (NoLiveServiceForgotten), and every live service is recorded, held or    *)
(* known to be lost (Accounted).                                            *)
(*                                                                          *)
(* The argument, on top of ownership and versions: a route that is worked   *)
(* on is live and keeps its finalizer, one that is cleaned up is being      *)
(* deleted (Life, PassLife); the map of a pass differs from the annotations *)
(* only where the recorded service is gone (Maps); and a deletion has ended *)
(* or given up every recorded service before it removes the finalizer       *)
(* (Doom).                                                                  *)
(***************************************************************************)
EXTENDS HTTPRouteVersions_proofs

----------------------------------------------------------------------------
(* The worker's steps, field by field.                                       *)

\* Where a pass that deletes stands, and one that programs the cloud.
DeletePCs == {"deleteRoutes", "deleteServices", "deleteNodePorts", "removeFinalizer"}
RunPCs == ItemPCs \union {"parent", "save", "status", "failed"}

\* The pass goes on with its route, maps and list of services to delete.
Keeps == /\ w'.route = w.route /\ w'.sids = w.sids /\ w'.rids = w.rids
         /\ w'.doomed = w.doomed

\* ... and with its object, at the same item.
KeepsPlace == Keeps /\ w'.obj = w.obj /\ w'.item = w.item

\* An error keeps all but a condition.
LEMMA FailFields ==
  ASSUME w \in Worker, Fail
  PROVE  /\ w'.pc = "failed" /\ Keeps /\ w'.item = w.item
         /\ w'.obj = WithCondition(w.obj, "False")
  BY DEF Fail, Keeps, Worker

\* A pass that ended holds nothing.
LEMMA IdleFields ==
  ASSUME w' = Idle
  PROVE  /\ w'.pc = "idle" /\ w'.route = None /\ w'.sids = NoServiceIDs
         /\ w'.rids = NoRouteIDs /\ w'.doomed = {}
  BY DEF Idle

\* A pass starts on the cached copy, with empty maps.
LEMMA StartFields ==
  ASSUME NEW r \in Routes, Reconcile(r), ~UNCHANGED w
  PROVE  /\ w.pc = "idle" /\ UNCHANGED <<hr, hrCache, services, routes>>
         /\ w'.route = r /\ w'.obj = hrCache[r]
         /\ w'.sids = NoServiceIDs /\ w'.rids = NoRouteIDs
         /\ hrCache[r].phase = "live"
         /\ \/ /\ hrCache[r].deleting /\ hrCache[r].finalizer
               /\ \/ /\ w'.pc = "deleteRoutes" /\ w'.doomed = ServicesToDelete(hrCache[r])
                     /\ UNCHANGED abandoned
                  \/ /\ w'.pc = FirstNodePortStep(hrCache[r]) /\ w'.doomed = {}
                     /\ abandoned' = abandoned \union ServicesToDelete(hrCache[r])
            \/ /\ ~hrCache[r].deleting /\ w'.doomed = {}
               /\ w'.pc = IF hrCache[r].finalizer THEN "parent" ELSE "finalizer"
               /\ UNCHANGED abandoned
<1> DEFINE o == hrCache[r]
<1>1. w.pc = "idle" /\ UNCHANGED <<hr, hrCache, services, routes>>
  BY DEF Reconcile, cloudVars
<1>2. CASE o.phase = "live" /\ o.deleting /\ o.finalizer /\ StartDelete(o, r)
  <2>1. CASE DeletionClient(o, r)
    <3>1. /\ w'.pc = "deleteRoutes" /\ w'.route = r /\ w'.obj = o
          /\ w'.sids = NoServiceIDs /\ w'.rids = NoRouteIDs
          /\ w'.doomed = ServicesToDelete(o) /\ UNCHANGED abandoned
      BY <1>2, <2>1 DEF StartDelete, Idle
    <3> QED
      BY <1>1, <1>2, <3>1
  <2>2. CASE ~DeletionClient(o, r)
    <3>1. /\ w'.pc = FirstNodePortStep(o) /\ w'.route = r /\ w'.obj = o
          /\ w'.sids = NoServiceIDs /\ w'.rids = NoRouteIDs /\ w'.doomed = {}
          /\ abandoned' = abandoned \union ServicesToDelete(o)
      BY <1>2, <2>2 DEF StartDelete, Idle
    <3> QED
      BY <1>1, <1>2, <3>1
  <2> QED
    BY <2>1, <2>2
<1>3. CASE /\ o.phase = "live" /\ ~o.deleting /\ UNCHANGED abandoned
           /\ w' = [Idle EXCEPT !.pc = IF o.finalizer THEN "parent" ELSE "finalizer",
                                !.route = r, !.obj = o]
  <2>1. /\ w'.pc = (IF o.finalizer THEN "parent" ELSE "finalizer") /\ w'.route = r /\ w'.obj = o
        /\ w'.sids = NoServiceIDs /\ w'.rids = NoRouteIDs /\ w'.doomed = {}
    BY <1>3 DEF Idle
  <2> QED
    BY <1>1, <1>3, <2>1
<1> QED
  BY <1>2, <1>3 DEF Reconcile, Read

\* A parent is resolved: its maps are those of the object.
LEMMA ResolveFields ==
  ASSUME w \in Worker, ResolveParent
  PROVE  /\ w.pc = "parent" /\ UNCHANGED <<services, routes, hr, abandoned>>
         /\ \/ Fail
            \/ /\ w'.pc = IF w.obj.spec = <<>> THEN "save" ELSE "nodeport"
               /\ w'.item = 1 /\ w'.route = w.route /\ w'.obj = w.obj /\ w'.doomed = w.doomed
               /\ w'.sids = w.obj.svcIDs /\ w'.rids = w.obj.rtIDs
  BY DEF ResolveParent, cloudVars, Worker

\* The calls before a service is at hand: they look up, and update its host.
LEMMA LookupFields ==
  ASSUME w \in Worker, EnsureNodePort \/ RereadNodePort \/ GetServiceCall \/ UpdateServiceCall
  PROVE  /\ w.pc \in ItemPCs /\ UNCHANGED <<hr, abandoned>>
         /\ \/ Fail
            \/ /\ w'.pc \in ItemPCs \ {"listRoutes", "reqTransform", "respTransform"}
               /\ KeepsPlace
               /\ w'.pc = "createService" => ~Exists(CurrentService) /\ UNCHANGED services
               /\ w'.pc \in {"getService", "updateService", "createRoute"}
                     => CurrentService # None
                        \/ w.pc \in {"getService", "updateService"}
<1>1. ~Exists(None)
  BY CloudAssumption DEF Exists
<1>2. CASE EnsureNodePort
  BY <1>1, <1>2 DEF EnsureNodePort, WithHost, KeepsPlace, Keeps, Worker, ItemPCs, cloudVars
<1>3. CASE RereadNodePort
  BY <1>1, <1>3 DEF RereadNodePort, WithHost, KeepsPlace, Keeps, Worker, ItemPCs, cloudVars
<1>4. CASE GetServiceCall
  BY <1>4 DEF GetServiceCall, LookupFails, KeepsPlace, Keeps, Worker, ItemPCs, cloudVars
<1>5. CASE UpdateServiceCall
  BY <1>5 DEF UpdateServiceCall, KeepsPlace, Keeps, Worker, ItemPCs
<1> QED
  BY <1>2, <1>3, <1>4, <1>5

\* POST /services: the new identifier is under the backend's key, or lost.
LEMMA CreateServiceFields ==
  ASSUME w \in Worker, CreateServiceCall
  PROVE  /\ w.pc = "createService" /\ UNCHANGED hr
         /\ \/ Fail /\ UNCHANGED <<services, routes, abandoned>>
            \/ \E s \in FreshServices :
                  /\ CreateService(s, <<w.route, ServiceKey>>, w.host)
                  /\ \/ Fail /\ abandoned' = abandoned \union {s}
                     \/ /\ w'.pc = "createRoute" /\ w'.route = w.route /\ w'.obj = w.obj
                        /\ w'.item = w.item /\ w'.rids = w.rids /\ w'.doomed = w.doomed
                        /\ w'.sids = [w.sids EXCEPT ![ServiceKey] = s]
                        /\ UNCHANGED abandoned
<1> DEFINE s == CHOOSE x \in FreshServices : TRUE
<1>1. FreshServices # {} => s \in FreshServices
  OBVIOUS
<1> HIDE DEF s
<1>2. CASE /\ CreateService(s, <<w.route, ServiceKey>>, w.host) /\ FreshServices # {}
           /\ w' = [w EXCEPT !.sids[ServiceKey] = s, !.pc = "createRoute"]
           /\ UNCHANGED abandoned
  <2>1. /\ w'.pc = "createRoute" /\ w'.route = w.route /\ w'.obj = w.obj
        /\ w'.item = w.item /\ w'.rids = w.rids /\ w'.doomed = w.doomed
        /\ w'.sids = [w.sids EXCEPT ![ServiceKey] = s]
    BY <1>2 DEF Worker
  <2> QED
    BY <1>1, <1>2, <2>1 DEF CreateServiceCall
<1> QED
  BY <1>1, <1>2 DEF CreateServiceCall, cloudVars, s

\* A route is created, or found after a conflict.
LEMMA RouteFields ==
  ASSUME w \in Worker, CreateRouteCall \/ ListRoutesCall, Linked(services, routes)
  PROVE  /\ w.pc \in {"createRoute", "listRoutes"} /\ UNCHANGED <<services, hr, abandoned>>
         /\ \/ Fail
            \/ w'.pc = "listRoutes" /\ KeepsPlace
            \/ /\ w'.pc = "reqTransform" /\ w'.route = w.route /\ w'.obj = w.obj
               /\ w'.item = w.item /\ w'.sids = w.sids /\ w'.doomed = w.doomed
               /\ \E t \in RouteIDs : w'.rids = [w.rids EXCEPT ![RuleKey] = t]
<1>1. ASSUME NEW t \in RouteIDs, GotRoute(t)
      PROVE  /\ w'.pc = "reqTransform" /\ w'.route = w.route /\ w'.obj = w.obj
             /\ w'.item = w.item /\ w'.sids = w.sids /\ w'.doomed = w.doomed
             /\ w'.rids = [w.rids EXCEPT ![RuleKey] = t]
  BY <1>1 DEF GotRoute, Worker
<1>2. CASE CreateRouteCall
  <2> DEFINE t == CHOOSE x \in FreshRoutes : TRUE
  <2>1. CreateRoute(t, CurrentService, RouteName, CurrentItem.path) => t \in RouteIDs
    BY DEF CreateRoute, FreshRoutes
  <2> HIDE DEF t
  <2>2. UNCHANGED services
    BY <1>2 DEF CreateRouteCall, CreateRoute, cloudVars, t
  <2>3. CASE OnConflict
    BY <1>2, <2>2, <2>3 DEF CreateRouteCall, OnConflict, KeepsPlace, Keeps, Worker
  <2>4. CASE Fail
    BY <1>2, <2>2, <2>4 DEF CreateRouteCall
  <2>5. CASE CreateRoute(t, CurrentService, RouteName, CurrentItem.path) /\ GotRoute(t)
    BY <1>1, <1>2, <2>1, <2>2, <2>5 DEF CreateRouteCall
  <2> QED
    BY <1>2, <2>3, <2>4, <2>5 DEF CreateRouteCall, t
<1>3. CASE ListRoutesCall
  <2>1. UNCHANGED <<services, hr, abandoned>> /\ w.pc = "listRoutes"
    BY <1>3 DEF ListRoutesCall, cloudVars
  <2>2. Fail \/ \E t \in RouteIDs : GotRoute(t)
    BY <1>3 DEF ListRoutesCall, RoutesOn
  <2> QED
    BY <1>1, <2>1, <2>2
<1> QED
  BY <1>2, <1>3

\* The transforms of a route, or nothing for a backendRef that is passed over, and on
\* to the next item or the end of the loop.
LEMMA TransformFields ==
  ASSUME TypeOK, SkipBackendRef \/ SetRequestTransformCall \/ SetResponseTransformCall
  PROVE  /\ w.pc \in {"nodeport", "reqTransform", "respTransform"}
         /\ UNCHANGED <<services, hr, abandoned>>
         /\ w.pc = "nodeport" => SkipBackendRef
         /\ Keeps /\ w'.obj = w.obj
         /\ \/ w'.pc = "respTransform" /\ w'.item = w.item /\ w.pc # "nodeport"
            \/ w'.pc = "nodeport" /\ w'.item = w.item + 1
            \/ w'.pc = "save" /\ w.item = Len(w.obj.spec)
<1>1. /\ w.pc \in {"nodeport", "reqTransform", "respTransform"}
      /\ UNCHANGED <<services, hr, abandoned>>
      /\ w.pc = "nodeport" => SkipBackendRef
      /\ w' = NextItem \/ (w.pc # "nodeport" /\ w' = [w EXCEPT !.pc = "respTransform"])
  BY DEF SkipBackendRef, SetRequestTransformCall, SetResponseTransformCall, SetRequestTransform,
     SetResponseTransform, cloudVars
<1>2. /\ w \in Worker /\ w.item \in DOMAIN w.obj.spec /\ w.obj \in HTTPRoute
  BY <1>1 DEF TypeOK, ItemPCs, Worker
<1>3. w.item \in 1 .. Len(w.obj.spec) /\ Len(w.obj.spec) \in Nat
  BY <1>2, SpecType
<1>4. CASE w.pc # "nodeport" /\ w' = [w EXCEPT !.pc = "respTransform"]
  BY <1>1, <1>2, <1>4 DEF Keeps, Worker
<1>5. CASE w' = NextItem /\ w.item < Len(w.obj.spec)
  <2> DEFINE i == w.item + 1
  <2>1. w' = [w EXCEPT !.pc = "nodeport", !.item = i]
    BY <1>5 DEF NextItem
  <2> HIDE DEF i
  <2>2. w'.pc = "nodeport" /\ w'.item = i /\ Keeps /\ w'.obj = w.obj
    BY <1>2, <2>1 DEF Keeps, Worker
  <2> QED
    BY <1>1, <2>2 DEF i
<1>6. CASE w' = NextItem /\ ~(w.item < Len(w.obj.spec))
  <2>1. w.item = Len(w.obj.spec)
    BY <1>3, <1>6
  <2> DEFINE i == w.item
  <2>2. w' = [w EXCEPT !.pc = "save", !.item = i]
    BY <1>6 DEF NextItem
  <2> HIDE DEF i
  <2>3. w'.pc = "save" /\ Keeps /\ w'.obj = w.obj
    BY <1>2, <2>2 DEF Keeps, Worker
  <2> QED
    BY <1>1, <2>1, <2>3
<1> QED
  BY <1>1, <1>4, <1>5, <1>6

\* The finalizer is written, and the pass goes on with the answer, or ends.
LEMMA AddFinalizerFields ==
  ASSUME TypeOK, AddFinalizer
  PROVE  /\ w.pc = "finalizer" /\ UNCHANGED <<services, routes, abandoned>>
         /\ \/ w' = Idle
            \/ /\ w'.pc = "parent" /\ Keeps
               /\ Fresh(w.obj) /\ Put(MetaPut([w.obj EXCEPT !.finalizer = TRUE]))
               /\ w'.obj = Decoded([w.obj EXCEPT !.finalizer = TRUE],
                                   MetaPut([w.obj EXCEPT !.finalizer = TRUE]))
<1> DEFINE o == [w.obj EXCEPT !.finalizer = TRUE]
<1>1. w.pc = "finalizer" /\ w \in Worker /\ w.obj \in HTTPRoute
      /\ UNCHANGED <<services, routes, abandoned>>
  BY DEF TypeOK, AddFinalizer, Worker, cloudVars
<1>2. o.rv = w.obj.rv
  BY <1>1 DEF HTTPRoute
<1> HIDE DEF o
<1>3. CASE w' = Idle
  BY <1>1, <1>3
<1>4. CASE /\ Fresh(o) /\ Put(MetaPut(o))
           /\ w' = [w EXCEPT !.obj = Decoded(o, MetaPut(o)), !.pc = "parent"]
  <2>1. w'.pc = "parent" /\ Keeps /\ w'.obj = Decoded(o, MetaPut(o))
    BY <1>1, <1>4 DEF Keeps, Worker
  <2> QED
    BY <1>1, <1>2, <1>4, <2>1 DEF Fresh, o
<1> QED
  BY <1>3, <1>4 DEF AddFinalizer, Requeue, o

\* The annotations are written, and the pass goes on with the answer, or fails.
LEMMA SaveFields ==
  ASSUME TypeOK, SaveAnnotations
  PROVE  /\ w.pc = "save" /\ UNCHANGED <<services, routes, abandoned>>
         /\ \/ Fail
            \/ /\ w'.pc \in {"status", "parent"} /\ Keeps /\ Fresh(w.obj)
               /\ LET o == [w.obj EXCEPT !.svcIDs = w.sids, !.rtIDs = w.rids] IN
                  /\ Put(MetaPut(o))
                  /\ w'.obj = WithCondition(Decoded(o, MetaPut(o)), "True")
<1> DEFINE o == [w.obj EXCEPT !.svcIDs = w.sids, !.rtIDs = w.rids]
<1>1. w.pc = "save" /\ w \in Worker /\ w.obj \in HTTPRoute
      /\ UNCHANGED <<services, routes, abandoned>>
  BY DEF TypeOK, SaveAnnotations, Worker, cloudVars
<1>2. o.rv = w.obj.rv
  BY <1>1 DEF HTTPRoute
<1> HIDE DEF o
<1>3. CASE Fail
  BY <1>1, <1>3
<1>4. CASE ~Fail
  <2> DEFINE saved == WithCondition(Decoded(o, MetaPut(o)), "True")
  <2> DEFINE pc == IF LastParent THEN "status" ELSE "parent"
  <2> DEFINE parent == IF LastParent THEN w.parent ELSE w.parent + 1
  <2>1. Fresh(o) /\ Put(MetaPut(o)) /\ w' = [w EXCEPT !.obj = saved, !.pc = pc, !.parent = parent]
    BY <1>4 DEF SaveAnnotations, o
  <2>2. pc \in {"status", "parent"}
    OBVIOUS
  <2> HIDE DEF saved, pc, parent
  <2>3. w'.pc = pc /\ Keeps /\ w'.obj = saved
    BY <1>1, <2>1 DEF Keeps, Worker
  <2> QED
    BY <1>1, <1>2, <2>1, <2>2, <2>3 DEF Fresh, o, saved
<1> QED
  BY <1>3, <1>4

\* The status is written, or the error reported, or the finalizer removed: the
\* pass is over; what an error leaves unsaved is lost.
LEMMA EndFields ==
  ASSUME WriteStatus \/ ReportError \/ RemoveFinalizer
  PROVE  /\ w.pc \in {"status", "failed", "removeFinalizer"}
         /\ UNCHANGED <<services, routes>> /\ w' = Idle
         /\ abandoned' = IF w.pc = "failed" THEN abandoned \union (InHand \ Tracked(w.route))
                         ELSE abandoned
  BY DEF WriteStatus, ReportError, RemoveFinalizer, Requeue, cloudVars

\* The deletion of routes leaves services alone.
LEMMA DeleteRoutesFields ==
  ASSUME w \in Worker, DeleteRoutes
  PROVE  /\ w.pc = "deleteRoutes" /\ UNCHANGED <<services, hr, abandoned>>
         /\ w'.pc \in {"deleteRoutes", "deleteServices"} /\ Keeps /\ w'.obj = w.obj
<1>1. w.pc = "deleteRoutes" /\ UNCHANGED <<services, hr, abandoned>>
  BY DEF DeleteRoutes, DeleteRoute, cloudVars
<1>2. \/ w' = [w EXCEPT !.pc = "deleteServices"]
      \/ \E p \in w.pairs : w' = [w EXCEPT !.pairs = @ \ {p}]
  BY DEF DeleteRoutes
<1>3. CASE w' = [w EXCEPT !.pc = "deleteServices"]
  BY <1>1, <1>3 DEF Keeps, Worker
<1>4. ASSUME NEW pairs, w' = [w EXCEPT !.pairs = pairs]
      PROVE  w'.pc = w.pc /\ Keeps /\ w'.obj = w.obj
  BY <1>4 DEF Keeps, Worker
<1> QED
  BY <1>1, <1>2, <1>3, <1>4

\* Services are deleted one by one; one whose deletion fails is given up.
LEMMA DeleteServicesFields ==
  ASSUME w \in Worker, DeleteServices
  PROVE  /\ w.pc = "deleteServices" /\ UNCHANGED hr
         /\ w'.route = w.route /\ w'.sids = w.sids /\ w'.obj = w.obj
         /\ \/ /\ w'.pc = FirstNodePortStep(w.obj) /\ w.doomed = {} /\ w'.doomed = {}
               /\ UNCHANGED <<services, abandoned>>
            \/ /\ w'.pc = "deleteServices"
               /\ \E s \in w.doomed :
                     /\ w'.doomed = w.doomed \ {s}
                     /\ \/ DeleteService(s) /\ UNCHANGED abandoned
                        \/ /\ UNCHANGED services \/ DeleteService(s)
                           /\ abandoned' = abandoned \union {s}
<1>1. w.pc = "deleteServices" /\ UNCHANGED hr
  BY DEF DeleteServices
<1>2. CASE /\ w.doomed = {} /\ w' = [w EXCEPT !.pc = FirstNodePortStep(w.obj)]
           /\ UNCHANGED <<cloudVars, abandoned>>
  <2>1. /\ w'.pc = FirstNodePortStep(w.obj) /\ w'.doomed = w.doomed
        /\ w'.route = w.route /\ w'.sids = w.sids /\ w'.obj = w.obj
    BY <1>2 DEF Worker
  <2> QED
    BY <1>1, <1>2, <2>1 DEF cloudVars
<1>3. ASSUME NEW s \in w.doomed, w' = [w EXCEPT !.doomed = @ \ {s}]
      PROVE  /\ w'.pc = "deleteServices" /\ w'.doomed = w.doomed \ {s}
             /\ w'.route = w.route /\ w'.sids = w.sids /\ w'.obj = w.obj
  BY <1>1, <1>3 DEF Worker
<1> QED
  BY <1>1, <1>2, <1>3 DEF DeleteServices, cloudVars

\* The deletion of NodePort Services leaves the cloud alone.
LEMMA DeleteNodePortsFields ==
  ASSUME w \in Worker, DeleteNodePorts
  PROVE  /\ w.pc = "deleteNodePorts" /\ UNCHANGED <<services, routes, hr, abandoned>>
         /\ w'.pc \in {"deleteNodePorts", "removeFinalizer"} /\ Keeps /\ w'.obj = w.obj
<1>1. w.pc = "deleteNodePorts" /\ UNCHANGED <<services, routes, hr, abandoned>>
  BY DEF DeleteNodePorts, cloudVars
<1>2. \/ w' = [w EXCEPT !.pc = "removeFinalizer"]
      \/ \E i \in {w.item + 1} : w' = [w EXCEPT !.item = i]
  BY DEF DeleteNodePorts
<1>3. CASE w' = [w EXCEPT !.pc = "removeFinalizer"]
  BY <1>1, <1>3 DEF Keeps, Worker
<1>4. ASSUME NEW i, w' = [w EXCEPT !.item = i]
      PROVE  w'.pc = w.pc /\ Keeps /\ w'.obj = w.obj
  BY <1>4 DEF Keeps, Worker
<1> QED
  BY <1>1, <1>2, <1>3, <1>4

\* Where a pass goes: a deletion stays one, a pass that programs the cloud too.
LEMMA PassPCs ==
  ASSUME TypeInv, Linked(services, routes), WorkerStep
  PROVE  \/ w' = Idle
         \/ /\ w'.route = w.route
            /\ \/ w.pc \in DeletePCs /\ w'.pc \in DeletePCs
               \/ w.pc \in RunPCs /\ w'.pc \in RunPCs
               \/ AddFinalizer /\ w'.pc = "parent"
<1> USE DEF DeletePCs, RunPCs, ItemPCs
<1>1. TypeOK /\ w \in Worker
  BY DEF TypeInv, TypeOK
<1>2. Fail => w'.pc = "failed" /\ w'.route = w.route
  BY <1>1, FailFields DEF Keeps
<1>3. CASE AddFinalizer
  BY <1>1, <1>3, AddFinalizerFields DEF Keeps
<1>4. CASE ResolveParent \/ EnsureNodePort \/ RereadNodePort \/ GetServiceCall \/ UpdateServiceCall
  BY <1>1, <1>2, <1>4, ResolveFields, LookupFields DEF KeepsPlace, Keeps
<1>5. CASE CreateServiceCall \/ CreateRouteCall \/ ListRoutesCall
  BY <1>1, <1>2, <1>5, CreateServiceFields, RouteFields DEF KeepsPlace, Keeps
<1>6. CASE SkipBackendRef \/ SetRequestTransformCall \/ SetResponseTransformCall \/ SaveAnnotations
  BY <1>1, <1>2, <1>6, TransformFields, SaveFields DEF Keeps
<1>7. CASE WriteStatus \/ ReportError \/ RemoveFinalizer
  BY <1>7, EndFields
<1>8. CASE DeleteRoutes \/ DeleteServices \/ DeleteNodePorts
  BY <1>1, <1>8, DeleteRoutesFields, DeleteServicesFields, DeleteNodePortsFields
     DEF Keeps, FirstNodePortStep
<1> QED
  BY <1>3, <1>4, <1>5, <1>6, <1>7, <1>8 DEF WorkerStep

----------------------------------------------------------------------------
(* The life of a route as the informers and the pass see it.                 *)

\* An object that is gone was being deleted and had no finalizer; the cached copy
\* of one that is gone shows a deletion, or no finalizer yet; a finalizer once
\* seen stays while the object lives, and so does the mark of a deletion.
Life ==
    \A r \in Routes :
        /\ hr[r].phase = "gone" => /\ hr[r].deleting /\ ~hr[r].finalizer
                                   /\ hrCache[r].deleting \/ ~hrCache[r].finalizer
        /\ hr[r].phase = "live" /\ hrCache[r].finalizer => hr[r].finalizer
        /\ hrCache[r].deleting => hr[r].deleting

\* A pass that deletes has seen the mark; one that programs the cloud works for a
\* route that lives and cannot go, because it has the finalizer.
PassLife ==
    /\ w.pc \in DeletePCs => hrCache[w.route].deleting
    /\ w.pc \in RunPCs => hr[w.route].phase = "live" /\ hr[w.route].finalizer

LifeInv == VerInv /\ Life /\ PassLife

\* What a write of the pass is made from.
LEMMA WrittenFrom ==
  ASSUME LifeInv, w.pc # "idle", hr[w.route].rv = w.obj.rv
  PROVE  SameButStatus(w.obj, hr[w.route])
  BY DEF LifeInv, VerInv, PassFaithful

\* What a write of the pass does to the life of the route.
LEMMA WriteLife ==
  ASSUME LifeInv, w.pc # "idle", hr[w.route].rv = w.obj.rv, NEW new,
         PassWrites(hr[w.route], new), new # hr[w.route]
  PROVE  /\ hr[w.route].phase = "live" /\ new.deleting = hr[w.route].deleting
         /\ \/ w.pc \in RunPCs \union {"finalizer"} /\ new.phase = "live" /\ new.finalizer
            \/ /\ w.pc = "removeFinalizer" /\ new.phase = "gone"
               /\ new.deleting /\ ~new.finalizer
<1> USE DEF DeletePCs, RunPCs, ItemPCs
<1>1. /\ hr[w.route].phase = "live" /\ new.deleting = hr[w.route].deleting
      /\ new.phase = IF new.deleting /\ ~new.finalizer THEN "gone" ELSE "live"
  BY DEF PassWrites, Written
<1>2. SameButStatus(w.obj, hr[w.route])
  BY WrittenFrom
<1>3. w.route \in Routes
  BY DEF LifeInv, VerInv, TypeInv, TypeOK
<1>4. CASE w.pc = "finalizer"
  BY <1>1, <1>4 DEF PassWrites
<1>5. CASE w.pc = "removeFinalizer"
  <2>1. hr[w.route].deleting
    BY <1>3, <1>5 DEF LifeInv, PassLife, Life
  <2> QED
    BY <1>1, <1>5, <2>1 DEF PassWrites
<1>6. CASE w.pc \in {"save", "status", "failed"}
  <2>1. hr[w.route].finalizer
    BY <1>6 DEF LifeInv, PassLife
  <2>2. new.finalizer
    BY <1>2, <1>6, <2>1 DEF PassWrites, SameButStatus
  <2> QED
    BY <1>1, <1>6, <2>2
<1> QED
  BY <1>4, <1>5, <1>6 DEF PassWrites

\* The cached copy of an object nobody created yet is blank too.
LEMMA BlankCache ==
  ASSUME VerInv, NEW r \in Routes, hr[r].phase = "new"
  PROVE  hr[r] = Uncreated /\ hrCache[r] = Uncreated
<1>1. hr[r] = Uncreated /\ hr[r].rv = 0
  <2>1. hr[r] = Uncreated
    BY DEF VerInv, NewIsBlank
  <2>2. Uncreated.rv = 0
    BY DEF Uncreated
  <2> QED
    BY <2>1, <2>2
<1>2. hrCache[r].rv \in Nat
  BY DEF VerInv, TypeInv, TypeOK, HTTPRoute
<1>3. hrCache[r].rv = hr[r].rv
  BY <1>1, <1>2 DEF VerInv, CacheFaithful
<1> QED
  BY <1>1, <1>3 DEF VerInv, CacheFaithful

\* The server's objects and their cached copies.
LEMMA LifeKept ==
  ASSUME LifeInv, [Next]_vars
  PROVE  Life'
<1> SUFFICES ASSUME NEW r \in Routes
             PROVE  /\ hr'[r].phase = "gone" =>
                          /\ hr'[r].deleting /\ ~hr'[r].finalizer
                          /\ hrCache'[r].deleting \/ ~hrCache'[r].finalizer
                    /\ hr'[r].phase = "live" /\ hrCache'[r].finalizer => hr'[r].finalizer
                    /\ hrCache'[r].deleting => hr'[r].deleting
  BY DEF Life
<1>1. /\ hr[r].phase = "gone" => /\ hr[r].deleting /\ ~hr[r].finalizer
                                 /\ hrCache[r].deleting \/ ~hrCache[r].finalizer
      /\ hr[r].phase = "live" /\ hrCache[r].finalizer => hr[r].finalizer
      /\ hrCache[r].deleting => hr[r].deleting
  BY DEF LifeInv, Life
<1>2. TypeInv /\ VerInv
  BY DEF LifeInv, VerInv
<1>3. hrCache'[r] = hrCache[r] \/ hrCache'[r] = hr[r]
  BY <1>2, CacheStep
<1>4. CASE hr'[r] = hr[r]
  BY <1>1, <1>3, <1>4
<1>5. CASE Created(hr[r], hr'[r])
  <2>1. hr[r] = Uncreated /\ hrCache'[r] = Uncreated
    BY <1>2, <1>3, <1>5, BlankCache DEF Created
  <2> QED
    BY <1>5, <2>1 DEF Created, Uncreated
<1>6. CASE Edited(hr[r], hr'[r]) \/ Marked(hr[r], hr'[r])
  BY <1>1, <1>3, <1>6 DEF Edited, Marked
<1>7. CASE /\ w.pc # "idle" /\ w.route = r /\ hr[r].rv = w.obj.rv /\ hr'[r] # hr[r]
           /\ PassWrites(hr[r], hr'[r])
  <2>1. /\ hr[r].phase = "live" /\ hr'[r].deleting = hr[r].deleting
        /\ \/ hr'[r].phase = "live" /\ hr'[r].finalizer
           \/ /\ w.pc = "removeFinalizer" /\ hr'[r].phase = "gone"
              /\ hr'[r].deleting /\ ~hr'[r].finalizer
    BY <1>7, WriteLife
  <2>2. w.pc = "removeFinalizer" => hrCache[r].deleting
    BY <1>7 DEF LifeInv, PassLife, DeletePCs
  <2> QED
    BY <1>1, <1>3, <2>1, <2>2
<1> QED
  BY <1>2, <1>4, <1>5, <1>6, <1>7, ServerStep

\* The route of the pass.
LEMMA PassLifeKept ==
  ASSUME LifeInv, Linked(services, routes), [Next]_vars
  PROVE  PassLife'
<1> USE DEF DeletePCs, RunPCs, ItemPCs
<1>1. TypeInv /\ VerInv /\ w \in Worker
  BY DEF LifeInv, VerInv, TypeInv, TypeOK
<1>2. ASSUME NEW r \in Routes, hrCache[r].deleting
      PROVE  hrCache'[r].deleting
  <2>1. hrCache'[r] = hrCache[r] \/ hrCache'[r] = hr[r]
    BY <1>1, CacheStep
  <2> QED
    BY <1>2, <2>1 DEF LifeInv, Life
<1>3. ASSUME NEW r \in Routes, hr[r].phase = "live", hr[r].finalizer,
             w.route = r => w.pc # "removeFinalizer"
      PROVE  hr'[r].phase = "live" /\ hr'[r].finalizer
  <2>1. CASE hr'[r] = hr[r] \/ Edited(hr[r], hr'[r]) \/ Marked(hr[r], hr'[r])
    BY <1>3, <2>1 DEF Edited, Marked
  <2>2. CASE /\ w.pc # "idle" /\ w.route = r /\ hr[r].rv = w.obj.rv /\ hr'[r] # hr[r]
             /\ PassWrites(hr[r], hr'[r])
    BY <1>3, <2>2, WriteLife
  <2> QED
    BY <1>1, <1>3, <2>1, <2>2, ServerStep DEF Created
<1>4. ASSUME w.pc # "idle", w'.route = w.route,
             \/ w.pc \in DeletePCs /\ w'.pc \in DeletePCs
             \/ w.pc \in RunPCs /\ w'.pc \in RunPCs
             \/ w'.pc = w.pc
      PROVE  PassLife'
  <2>1. w.route \in Routes
    BY <1>1, <1>4 DEF TypeInv, TypeOK
  <2> QED
    BY <1>2, <1>3, <1>4, <2>1 DEF LifeInv, PassLife
<1>5. CASE AddFinalizer /\ w'.pc = "parent"
  <2> DEFINE o == [w.obj EXCEPT !.finalizer = TRUE]
  <2>1. /\ w'.route = w.route /\ Fresh(w.obj) /\ Put(MetaPut(o)) /\ w.pc = "finalizer"
    BY <1>1, <1>5, AddFinalizerFields DEF TypeInv, Keeps, Idle
  <2>2. w.route \in Routes /\ w.obj \in HTTPRoute /\ hr \in [Routes -> HTTPRoute]
    BY <1>1, <2>1, InPass DEF TypeInv, TypeOK
  <2>3. o \in HTTPRoute /\ o.finalizer
    BY <2>2 DEF HTTPRoute
  <2> HIDE DEF o
  <2>4. hr'[w.route] = MetaPut(o) /\ hr[w.route].phase = "live"
    BY <2>1, <2>2 DEF Put, Fresh
  <2>5. MetaPut(o).finalizer /\ Written(hr[w.route], MetaPut(o))
    BY <1>1, <2>2, <2>3, <2>4, MetaPutFields DEF TypeInv
  <2> QED
    BY <1>5, <2>1, <2>4, <2>5 DEF PassLife, Written
<1>6. ASSUME NEW r \in Routes, Reconcile(r), ~UNCHANGED w
      PROVE  PassLife'
  <2>1. /\ w'.route = r /\ UNCHANGED <<hr, hrCache>> /\ hrCache[r].phase = "live"
        /\ \/ hrCache[r].deleting /\ w'.pc \in DeletePCs
           \/ ~hrCache[r].deleting /\ w'.pc = IF hrCache[r].finalizer THEN "parent" ELSE "finalizer"
    BY <1>6, StartFields DEF FirstNodePortStep
  <2>2. CASE hrCache[r].deleting /\ w'.pc \in DeletePCs
    BY <2>1, <2>2 DEF PassLife
  <2>3. CASE ~hrCache[r].deleting /\ w'.pc = "finalizer"
    BY <2>3 DEF PassLife
  <2>4. CASE ~hrCache[r].deleting /\ hrCache[r].finalizer /\ w'.pc = "parent"
    <3>1. hr[r].phase # "new"
      BY <1>1, <2>1, BlankCache DEF Uncreated
    <3>2. hr[r].phase # "gone"
      BY <2>4 DEF LifeInv, Life
    <3>3. hr[r].phase = "live"
      BY <1>1, <3>1, <3>2 DEF TypeInv, TypeOK, HTTPRoute
    <3>4. hr[r].finalizer
      BY <2>4, <3>3 DEF LifeInv, Life
    <3> QED
      BY <2>1, <2>4, <3>3, <3>4 DEF PassLife
  <2> QED
    BY <2>1, <2>2, <2>3, <2>4
<1>7. CASE w'.pc = "idle"
  BY <1>7 DEF PassLife
<1>8. CASE UNCHANGED w
  BY <1>4, <1>7, <1>8
<1>9. CASE WorkerStep
  <2>1. w' = Idle => w'.pc = "idle"
    BY DEF Idle
  <2>2. DeletePCs \subseteq PCs \ {"idle"} /\ RunPCs \subseteq PCs \ {"idle"}
    BY DEF PCs
  <2> QED
    BY <1>1, <1>4, <1>5, <1>7, <1>9, <2>1, <2>2, PassPCs
<1>10. Restart => w'.pc = "idle"
  BY DEF Restart, Idle
<1> QED
  BY <1>6, <1>7, <1>8, <1>9, <1>10, WhoMoves

\* No route has a life yet at the start.
LEMMA LifeInit == Init => LifeInv
<1> SUFFICES ASSUME Init PROVE LifeInv
  OBVIOUS
<1>1. VerInv /\ hr = [r \in Routes |-> Uncreated] /\ hrCache = hr /\ w.pc = "idle"
  BY VerInit DEF Init, Idle
<1>2. Uncreated.phase = "new" /\ ~Uncreated.deleting
  BY DEF Uncreated
<1> QED
  BY <1>1, <1>2 DEF LifeInv, Life, PassLife, DeletePCs, RunPCs, ItemPCs

\* Every step keeps what Life and PassLife say.
LEMMA LifeInvKept == LifeInv /\ Linked(services, routes) /\ [Next]_vars => LifeInv'
  BY VerInvKept, LifeKept, PassLifeKept DEF LifeInv

----------------------------------------------------------------------------
(* What a step does to a service and to a route's annotation.                *)

\* A service is born by the pass's call, deleted by the pass that cleans up, or
\* removed by others; it never comes back.
LEMMA ServiceStep ==
  ASSUME TypeInv, Linked(services, routes), [Next]_vars, NEW s \in ServiceIDs
  PROVE  \/ services'[s].state = services[s].state
         \/ services[s].state = "live" /\ services'[s].state = "removed"
         \/ /\ services[s].state = "live" /\ services'[s].state = "deleted"
            /\ DeleteServices /\ s \in w.doomed
         \/ /\ services[s].state = "unborn" /\ services'[s].state = "live"
            /\ CreateServiceCall /\ CreateService(s, <<w.route, ServiceKey>>, w.host)
<1>1. TypeOK /\ w \in Worker /\ CloudTypeOK /\ services \in [ServiceIDs -> Service]
  BY DEF TypeInv, TypeOK, CloudTypeOK
<1>2. CASE UNCHANGED services
  BY <1>2
<1>3. ASSUME NEW ss, NEW how \in {"deleted", "removed"}, EndServices(ss, how)
      PROVE  \/ services'[s].state = services[s].state
             \/ s \in ss /\ services[s].state = "live" /\ services'[s].state = how
  <2>1. services'[s] = IF s \in ss /\ Exists(s) THEN [services[s] EXCEPT !.state = how]
                       ELSE services[s]
    BY <1>3 DEF EndServices
  <2> QED
    BY <1>1, <2>1 DEF Service, Exists
<1>4. CASE UpdateServiceCall
  BY <1>1, <1>2, <1>4 DEF UpdateServiceCall, UpdateService, cloudVars, Service
<1>5. CASE CreateServiceCall
  <2>1. ASSUME NEW x \in FreshServices, CreateService(x, <<w.route, ServiceKey>>, w.host)
        PROVE  \/ services'[s].state = services[s].state
               \/ /\ services[s].state = "unborn" /\ services'[s].state = "live"
                  /\ CreateService(s, <<w.route, ServiceKey>>, w.host)
    BY <1>1, <2>1 DEF CreateService, FreshServices
  <2> QED
    BY <1>1, <1>2, <1>5, <2>1, CreateServiceFields
<1>6. CASE DeleteServices
  BY <1>1, <1>2, <1>3, <1>6, DeleteServicesFields DEF DeleteService
<1>7. CASE \E x \in ServiceIDs : CloudRemoves(x)
  BY <1>3, <1>7 DEF CloudRemoves
<1>8. CASE Restart
  BY <1>2, <1>3, <1>8 DEF Restart, cloudVars
<1>9. CASE ResolveParent \/ CreateRouteCall \/ ListRoutesCall \/ SkipBackendRef
           \/ SetRequestTransformCall
           \/ SetResponseTransformCall \/ DeleteRoutes \/ DeleteNodePorts \/ AddFinalizer
           \/ SaveAnnotations \/ WriteStatus \/ ReportError \/ RemoveFinalizer
  BY <1>1, <1>2, <1>9, ResolveFields, RouteFields, TransformFields, DeleteRoutesFields,
     DeleteNodePortsFields, AddFinalizerFields, SaveFields, EndFields
<1>10. EnsureNodePort \/ RereadNodePort \/ GetServiceCall => UNCHANGED services
  BY DEF EnsureNodePort, RereadNodePort, GetServiceCall, cloudVars
<1>11. ASSUME NEW r \in Routes,
              Reconcile(r) \/ SyncRoute(r) \/ RetryDue(r) \/ UserCreates(r) \/ UserEdits(r)
              \/ UserDeletes(r)
       PROVE  UNCHANGED services
  BY <1>11 DEF Reconcile, SyncRoute, RetryDue, UserCreates, UserEdits, UserDeletes, cloudVars
<1>12. ASSUME NEW b \in Backends,
              SyncNodePort(b) \/ GarbageCollect(b) \/ BackendChanges(b) \/ OutsiderServes(b)
       PROVE  UNCHANGED services
  BY <1>12 DEF SyncNodePort, GarbageCollect, BackendChanges, OutsiderServes, cloudVars
<1>13. ASSUME NEW g \in Gateways, GatewayReady(g) \/ SecretChanges(g) \/ GatewayDeleted(g)
       PROVE  UNCHANGED services
  BY <1>13 DEF GatewayReady, SecretChanges, GatewayDeleted, cloudVars
<1>14. Resync \/ ClientChanges \/ NodeChanges \/ UNCHANGED vars => UNCHANGED services
  BY DEF Resync, ClientChanges, NodeChanges, vars, cloudVars
<1> QED
  BY <1>2, <1>4, <1>5, <1>6, <1>7, <1>8, <1>9, <1>10, <1>11, <1>12, <1>13, <1>14
     DEF Next, WorkerStep

\* A service that was created and ended stays ended.
LEMMA DeadStays ==
  ASSUME TypeInv, Linked(services, routes), [Next]_vars, NEW s,
         s \in ServiceIDs => services[s].state \notin {"unborn", "live"}
  PROVE  s \in ServiceIDs => services'[s].state \notin {"unborn", "live"}
  BY ServiceStep

\* The annotation of a route changes when a pass saves its map, made from the
\* current version, and never else.
LEMMA AnnotationStep ==
  ASSUME LifeInv, [Next]_vars, NEW r \in Routes
  PROVE  \/ SameRecords(hr'[r], hr[r])
         \/ /\ w.pc = "save" /\ w.route = r /\ SameButStatus(w.obj, hr[r])
            /\ hr'[r].svcIDs = w.sids /\ hr'[r].rtIDs = w.rids
<1>1. TypeInv
  BY DEF LifeInv, VerInv
<1>2. CASE hr'[r] = hr[r]
  BY <1>2 DEF SameRecords
<1>3. CASE Created(hr[r], hr'[r]) \/ Edited(hr[r], hr'[r]) \/ Marked(hr[r], hr'[r])
  BY <1>3 DEF Created, Edited, Marked
<1>4. CASE /\ w.pc # "idle" /\ w.route = r /\ hr[r].rv = w.obj.rv
           /\ PassWrites(hr[r], hr'[r])
  <2>1. SameButStatus(w.obj, hr[r])
    BY <1>4, WrittenFrom
  <2> QED
    BY <1>4, <2>1 DEF PassWrites, SameRecords, SameButStatus
<1> QED
  BY <1>1, <1>2, <1>3, <1>4, ServerStep

----------------------------------------------------------------------------
(* The map of a pass and the annotations.                                    *)

\* A pass that deletes holds nothing; one between two parents, or about to write
\* the status, holds what is recorded; one under way differs from what it read
\* only where the service it read about is gone.
Maps ==
    /\ w.pc \in DeletePCs \union {"idle", "finalizer"} => w.sids = NoServiceIDs
    /\ w.pc = "parent" => w.sids = NoServiceIDs \/ w.sids = hr[w.route].svcIDs
    /\ w.pc = "status" => w.sids = hr[w.route].svcIDs
    /\ w.pc \in ItemPCs \union {"save"} =>
          \A b \in Backends : \/ w.obj.svcIDs[b] = None
                              \/ w.sids[b] = w.obj.svcIDs[b]
                              \/ ~Exists(w.obj.svcIDs[b])
    /\ w.pc = "createService" => ~Exists(CurrentService)

MapInv == OwnInv /\ LifeInv /\ Maps

\* What is recorded or held was created once.
LEMMA RecordedBorn ==
  ASSUME OwnInv, NEW b \in Backends
  PROVE  /\ \A r \in Routes : hr[r].svcIDs[b] # None =>
                /\ hr[r].svcIDs[b] \in ServiceIDs
                /\ services[hr[r].svcIDs[b]].state # "unborn"
                /\ services[hr[r].svcIDs[b]].owner = <<r, b>>
         /\ w.pc # "idle" /\ w.obj.svcIDs[b] # None =>
                /\ w.obj.svcIDs[b] \in ServiceIDs
                /\ services[w.obj.svcIDs[b]].state # "unborn"
                /\ services[w.obj.svcIDs[b]].owner = <<w.route, b>>
         /\ w.pc # "idle" /\ w.sids[b] # None =>
                /\ w.sids[b] \in ServiceIDs
                /\ services[w.sids[b]].state # "unborn"
                /\ services[w.sids[b]].owner = <<w.route, b>>
<1>1. /\ hr \in [Routes -> HTTPRoute] /\ w.obj \in HTTPRoute
      /\ w.sids \in [Backends -> ServiceIDs \union {None}]
  BY DEF OwnInv, TypeInv, TypeOK, Worker
<1>2. \A r \in Routes : hr[r].svcIDs[b] \in ServiceIDs \union {None}
  BY <1>1 DEF HTTPRoute
<1>3. w.obj.svcIDs[b] \in ServiceIDs \union {None} /\ w.sids[b] \in ServiceIDs \union {None}
  BY <1>1 DEF HTTPRoute
<1> QED
  BY <1>2, <1>3 DEF OwnInv, ObjectsOwn, WorkerOwn, OwnIn

\* What the map and the object of a pass say of each other outlasts a step.
LEMMA MapsCarried ==
  ASSUME MapInv, [Next]_vars, w.pc \in ItemPCs \union {"save"}, NEW b \in Backends
  PROVE  \/ w.obj.svcIDs[b] = None
         \/ w.sids[b] = w.obj.svcIDs[b]
         \/ ~(w.obj.svcIDs[b] \in ServiceIDs /\ services'[w.obj.svcIDs[b]].state = "live")
<1>1. TypeInv /\ Linked(services, routes) /\ w.pc # "idle"
  BY DEF MapInv, OwnInv, ItemPCs
<1> DEFINE s == w.obj.svcIDs[b]
<1>2. s # None /\ w.sids[b] # s => s \in ServiceIDs /\ services[s].state \notin {"unborn", "live"}
  BY <1>1, RecordedBorn DEF MapInv, Maps, Exists
<1> HIDE DEF s
<1>3. CASE s # None /\ w.sids[b] # s
  BY <1>1, <1>2, <1>3, DeadStays DEF s
<1> QED
  BY <1>3 DEF s

\* The service a pass is about to replace stays gone.
LEMMA ReplacedCarried ==
  ASSUME MapInv, [Next]_vars, w.pc = "createService"
  PROVE  ~(CurrentService \in ServiceIDs /\ services'[CurrentService].state = "live")
<1>1. TypeInv /\ TypeOK /\ Linked(services, routes) /\ w.pc # "idle" /\ w.pc \in ItemPCs
  BY DEF MapInv, OwnInv, TypeInv, ItemPCs
<1>2. ServiceKey \in Backends /\ CurrentService = w.sids[ServiceKey]
  BY <1>1, InCall DEF CurrentService
<1> DEFINE s == CurrentService
<1> HIDE DEF s
<1>3. s \in ServiceIDs => services[s].state \notin {"unborn", "live"}
  <2>1. s \in ServiceIDs => s # None
    BY CloudAssumption
  <2> QED
    BY <1>1, <1>2, <2>1, RecordedBorn DEF MapInv, Maps, Exists, s
<1> QED
  BY <1>1, <1>3, DeadStays DEF s

\* The maps after the steps of a pass that looks up, creates and saves.
LEMMA RunMaps ==
  ASSUME MapInv, [Next]_vars,
         \/ EnsureNodePort \/ RereadNodePort \/ GetServiceCall \/ UpdateServiceCall
         \/ CreateServiceCall \/ CreateRouteCall \/ ListRoutesCall
         \/ SkipBackendRef \/ SetRequestTransformCall \/ SetResponseTransformCall,
         ~Fail
  PROVE  Maps'
<1> USE DEF DeletePCs, ItemPCs
<1>1. TypeInv /\ TypeOK /\ w \in Worker /\ Linked(services, routes)
  BY DEF MapInv, OwnInv, TypeInv, TypeOK
<1>2. w.pc \in ItemPCs
  BY <1>1, LookupFields, CreateServiceFields, RouteFields, TransformFields
<1>3. \A b \in Backends : \/ w.obj.svcIDs[b] = None
                          \/ w.sids[b] = w.obj.svcIDs[b]
                          \/ ~(w.obj.svcIDs[b] \in ServiceIDs
                               /\ services'[w.obj.svcIDs[b]].state = "live")
  BY <1>2, MapsCarried
<1>4. CASE EnsureNodePort \/ RereadNodePort \/ GetServiceCall \/ UpdateServiceCall
  <2>1. /\ w'.pc \in ItemPCs /\ KeepsPlace
        /\ w'.pc = "createService" => ~Exists(CurrentService) /\ UNCHANGED services
    BY <1>1, <1>4, LookupFields
  <2>2. CurrentService' = CurrentService
    BY <2>1 DEF KeepsPlace, Keeps, CurrentService, ServiceKey, CurrentItem
  <2> QED
    BY <1>3, <2>1, <2>2 DEF Maps, KeepsPlace, Keeps, Exists
<1>5. CASE CreateServiceCall
  <2>1. PICK s \in FreshServices :
          /\ w.pc = "createService" /\ w'.pc = "createRoute" /\ w'.obj = w.obj
          /\ w'.sids = [w.sids EXCEPT ![ServiceKey] = s]
    BY <1>1, <1>5, CreateServiceFields
  <2>2. ServiceKey \in Backends /\ w.sids \in [Backends -> ServiceIDs \union {None}]
    BY <1>1, <1>2, InCall DEF Worker
  <2>3. ~(CurrentService \in ServiceIDs /\ services'[CurrentService].state = "live")
    BY <2>1, ReplacedCarried
  <2>4. ASSUME NEW b \in Backends
        PROVE  \/ w'.obj.svcIDs[b] = None
               \/ w'.sids[b] = w'.obj.svcIDs[b]
               \/ ~(w'.obj.svcIDs[b] \in ServiceIDs
                    /\ services'[w'.obj.svcIDs[b]].state = "live")
    <3>1. CASE b = ServiceKey
      BY <1>3, <2>1, <2>3, <3>1 DEF CurrentService
    <3>2. CASE b # ServiceKey
      BY <1>3, <2>1, <2>2, <3>2
    <3> QED
      BY <3>1, <3>2
  <2> QED
    BY <2>1, <2>4 DEF Maps, Exists
<1>6. CASE \/ CreateRouteCall \/ ListRoutesCall
           \/ SkipBackendRef \/ SetRequestTransformCall \/ SetResponseTransformCall
  <2>1. /\ w'.pc \in {"listRoutes", "reqTransform", "respTransform", "nodeport", "save"}
        /\ w'.obj = w.obj /\ w'.sids = w.sids
    BY <1>1, <1>6, RouteFields, TransformFields DEF KeepsPlace, Keeps
  <2> QED
    BY <1>3, <2>1 DEF Maps, Exists
<1> QED
  BY <1>4, <1>5, <1>6

\* The maps after the annotations are saved: they are the annotations.
LEMMA SavedMaps ==
  ASSUME TypeOK, SaveAnnotations, ~Fail
  PROVE  /\ w'.pc \in {"status", "parent"} /\ w'.route = w.route
         /\ w'.sids = w.sids /\ w'.rids = w.rids
         /\ hr'[w.route].svcIDs = w.sids /\ hr'[w.route].rtIDs = w.rids
<1> DEFINE o == [w.obj EXCEPT !.svcIDs = w.sids, !.rtIDs = w.rids]
<1>1. w.pc # "idle" /\ w \in Worker /\ w.obj \in HTTPRoute /\ w.route \in Routes
      /\ hr \in [Routes -> HTTPRoute]
  BY InPass DEF TypeOK, SaveAnnotations
<1>2. /\ w'.pc \in {"status", "parent"} /\ Keeps /\ Put(MetaPut(o))
  BY SaveFields
<1>3. o \in HTTPRoute /\ o.svcIDs = w.sids /\ o.rtIDs = w.rids
  BY <1>1 DEF HTTPRoute, Worker
<1> HIDE DEF o
<1>4. hr'[w.route] = MetaPut(o) /\ SameRecords(MetaPut(o), o)
  BY <1>1, <1>2, <1>3, MetaPutRecords DEF Put
<1> QED
  BY <1>2, <1>3, <1>4 DEF Keeps, SameRecords

\* The maps of a pass keep agreeing with the annotations.
LEMMA MapsKept ==
  ASSUME MapInv, [Next]_vars
  PROVE  Maps'
<1> USE DEF DeletePCs, ItemPCs
<1>1. TypeInv /\ TypeOK /\ w \in Worker /\ Linked(services, routes)
  BY DEF MapInv, OwnInv, TypeInv, TypeOK
<1>2. CASE w' = Idle
  BY <1>2, IdleFields DEF Maps
<1>3. CASE Fail
  <2>1. w'.pc = "failed"
    BY <1>1, <1>3, FailFields
  <2> QED
    BY <2>1 DEF Maps
<1>4. CASE UNCHANGED w
  <2>1. ASSUME w.pc # "idle", w.pc # "save"
        PROVE  hr'[w.route].svcIDs = hr[w.route].svcIDs
    <3>1. w.route \in Routes
      BY <1>1, <2>1, InPass
    <3> QED
      BY <2>1, <3>1, AnnotationStep DEF MapInv, SameRecords
  <2>2. CurrentService' = CurrentService
    BY <1>4 DEF CurrentService, ServiceKey, CurrentItem
  <2> QED
    BY <1>4, <2>1, <2>2, MapsCarried, ReplacedCarried DEF MapInv, Maps, Exists
<1>5. CASE AddFinalizer
  <2>1. w.pc = "finalizer" /\ (w' = Idle \/ (w'.pc = "parent" /\ w'.sids = w.sids))
    BY <1>1, <1>5, AddFinalizerFields DEF Keeps
  <2> QED
    BY <1>2, <2>1 DEF MapInv, Maps
<1>6. CASE ResolveParent
  <2>1. \/ Fail
        \/ w'.pc \in {"save", "nodeport"} /\ w'.obj = w.obj /\ w'.sids = w.obj.svcIDs
    BY <1>1, <1>6, ResolveFields
  <2> QED
    BY <1>3, <2>1 DEF Maps
<1>7. CASE \/ EnsureNodePort \/ RereadNodePort \/ GetServiceCall \/ UpdateServiceCall
           \/ CreateServiceCall \/ CreateRouteCall \/ ListRoutesCall
           \/ SkipBackendRef \/ SetRequestTransformCall \/ SetResponseTransformCall
  BY <1>3, <1>7, RunMaps
<1>8. CASE SaveAnnotations
  BY <1>1, <1>3, <1>8, SavedMaps DEF Maps
<1>9. CASE WriteStatus \/ ReportError \/ RemoveFinalizer
  BY <1>2, <1>9, EndFields
<1>10. CASE DeleteRoutes \/ DeleteServices \/ DeleteNodePorts
  <2>1. w.pc \in DeletePCs /\ w'.pc \in DeletePCs /\ w'.sids = w.sids
    BY <1>1, <1>10, DeleteRoutesFields, DeleteServicesFields, DeleteNodePortsFields
       DEF Keeps, FirstNodePortStep
  <2> QED
    BY <2>1 DEF MapInv, Maps
<1>11. ASSUME NEW r \in Routes, Reconcile(r), ~UNCHANGED w
       PROVE  Maps'
  <2>1. w'.sids = NoServiceIDs /\ w'.pc \in DeletePCs \union {"parent", "finalizer"}
    BY <1>11, StartFields DEF FirstNodePortStep
  <2> QED
    BY <2>1 DEF Maps
<1>12. CASE Restart
  BY <1>2, <1>12 DEF Restart
<1> QED
  BY <1>4, <1>5, <1>6, <1>7, <1>8, <1>9, <1>10, <1>11, <1>12, WhoMoves DEF WorkerStep

\* Nothing is held or recorded at the start.
LEMMA MapInit == Init => MapInv
  BY OwnInit, LifeInit DEF Init, Idle, MapInv, Maps, DeletePCs, ItemPCs

\* Every step keeps it.
LEMMA MapInvKept == MapInv /\ [Next]_vars => MapInv'
  BY OwnInvKept, LifeInvKept, MapsKept DEF MapInv, OwnInv

----------------------------------------------------------------------------
(* A deletion, service by service.                                           *)

\* A service a deletion need not care about any more: ended, or given up.
Over(s) == s \in abandoned \/ ~Exists(s)

\* What is left to delete is part of what the object records, and the rest of that
\* is over; all of it is once the deletion turns to the NodePort Services.
Doom ==
    /\ w.pc \in {"deleteRoutes", "deleteServices"} =>
          /\ w.doomed \subseteq ServicesToDelete(w.obj)
          /\ \A s \in ServicesToDelete(w.obj) : s \in w.doomed \/ Over(s)
    /\ w.pc \in {"deleteNodePorts", "removeFinalizer"} =>
          \A s \in ServicesToDelete(w.obj) : Over(s)

\* What a pass gave up stays given up.
LEMMA AbandonedGrows ==
  ASSUME TypeInv, Linked(services, routes), [Next]_vars
  PROVE  abandoned \subseteq abandoned'
<1>1. TypeOK /\ w \in Worker
  BY DEF TypeInv, TypeOK
<1>2. CASE AddFinalizer \/ ResolveParent \/ EnsureNodePort \/ RereadNodePort \/ GetServiceCall
           \/ UpdateServiceCall \/ CreateServiceCall \/ CreateRouteCall \/ ListRoutesCall
  BY <1>1, <1>2, AddFinalizerFields, ResolveFields, LookupFields, CreateServiceFields, RouteFields
<1>3. CASE SkipBackendRef \/ SetRequestTransformCall \/ SetResponseTransformCall
           \/ SaveAnnotations \/ WriteStatus
           \/ ReportError \/ DeleteRoutes \/ DeleteServices \/ DeleteNodePorts \/ RemoveFinalizer
  BY <1>1, <1>3, TransformFields, SaveFields, EndFields, DeleteRoutesFields,
     DeleteServicesFields, DeleteNodePortsFields
<1>4. ASSUME NEW r \in Routes, Reconcile(r)
      PROVE  abandoned \subseteq abandoned'
  BY <1>4 DEF Reconcile, StartDelete
<1>5. ASSUME NEW r \in Routes,
             SyncRoute(r) \/ RetryDue(r) \/ UserCreates(r) \/ UserEdits(r) \/ UserDeletes(r)
      PROVE  UNCHANGED abandoned
  BY <1>5 DEF SyncRoute, RetryDue, UserCreates, UserEdits, UserDeletes
<1>6. ASSUME NEW b \in Backends,
             SyncNodePort(b) \/ GarbageCollect(b) \/ BackendChanges(b) \/ OutsiderServes(b)
      PROVE  UNCHANGED abandoned
  BY <1>6 DEF SyncNodePort, GarbageCollect, BackendChanges, OutsiderServes
<1>7. ASSUME NEW g \in Gateways, GatewayReady(g) \/ SecretChanges(g) \/ GatewayDeleted(g)
      PROVE  UNCHANGED abandoned
  BY <1>7 DEF GatewayReady, SecretChanges, GatewayDeleted
<1>8. \/ Resync \/ ClientChanges \/ NodeChanges \/ UNCHANGED vars
      \/ (\E s \in ServiceIDs : CloudRemoves(s))
      => UNCHANGED abandoned
  BY DEF Resync, ClientChanges, NodeChanges, CloudRemoves, vars
<1>9. Restart => abandoned \subseteq abandoned'
  BY DEF Restart
<1> QED
  BY <1>2, <1>3, <1>4, <1>5, <1>6, <1>7, <1>8, <1>9 DEF Next, WorkerStep

\* What the object of a pass records was made for its route, once.
LEMMA ToDeleteBorn ==
  ASSUME OwnInv, w.pc # "idle", NEW s \in ServicesToDelete(w.obj)
  PROVE  /\ s \in ServiceIDs /\ services[s].state # "unborn"
         /\ services[s].owner[1] = w.route
<1>1. PICK b \in Backends : s = w.obj.svcIDs[b] /\ s # None
  BY DEF ServicesToDelete
<1> QED
  BY <1>1, RecordedBorn

\* What is over stays over.
LEMMA OverStays ==
  ASSUME MapInv, [Next]_vars, w.pc # "idle", NEW s \in ServicesToDelete(w.obj), Over(s)
  PROVE  s \in abandoned' \/ ~(s \in ServiceIDs /\ services'[s].state = "live")
<1>1. OwnInv /\ TypeInv /\ Linked(services, routes)
  BY DEF MapInv, OwnInv
<1>2. CASE s \in abandoned
  BY <1>1, <1>2, AbandonedGrows
<1>3. CASE ~Exists(s)
  <2>1. s \in ServiceIDs => services[s].state \notin {"unborn", "live"}
    BY <1>1, <1>3, ToDeleteBorn DEF Exists
  <2> QED
    BY <1>1, <2>1, DeadStays
<1> QED
  BY <1>2, <1>3 DEF Over

\* A deletion keeps its account of what is left.
LEMMA DoomKept ==
  ASSUME MapInv, Doom, [Next]_vars
  PROVE  Doom'
<1> USE DEF DeletePCs
<1>1. OwnInv /\ TypeInv /\ TypeOK /\ w \in Worker /\ Linked(services, routes)
  BY DEF MapInv, OwnInv, TypeInv, TypeOK
<1>2. CASE w'.pc \notin DeletePCs
  BY <1>2 DEF Doom
<1>3. CASE UNCHANGED w
  BY <1>3, OverStays DEF Doom, Over, Exists, ServicesToDelete
<1>4. CASE DeleteRoutes
  <2>1. /\ w.pc = "deleteRoutes" /\ w'.pc \in {"deleteRoutes", "deleteServices"}
        /\ w'.obj = w.obj /\ w'.doomed = w.doomed
    BY <1>1, <1>4, DeleteRoutesFields DEF Keeps
  <2> QED
    BY <2>1, OverStays DEF Doom, Over, Exists, ServicesToDelete
<1>5. CASE DeleteServices
  <2>1. w.pc = "deleteServices" /\ w'.obj = w.obj /\ w.obj \in HTTPRoute
    BY <1>1, <1>5, DeleteServicesFields DEF Worker
  <2>2. CASE w'.pc = FirstNodePortStep(w.obj) /\ w.doomed = {}
    <3>1. w'.pc \in {"deleteNodePorts", "removeFinalizer"}
      BY <2>2 DEF FirstNodePortStep
    <3> QED
      BY <2>1, <2>2, <3>1, OverStays DEF Doom, Over, Exists, ServicesToDelete
  <2>3. ASSUME NEW s \in w.doomed, w'.pc = "deleteServices", w'.doomed = w.doomed \ {s},
               DeleteService(s) \/ abandoned' = abandoned \union {s}
        PROVE  Doom'
    <3>1. s \in abandoned' \/ ~(s \in ServiceIDs /\ services'[s].state = "live")
      <4>1. CASE DeleteService(s)
        <5>1. s \in ServiceIDs => services'[s] = IF Exists(s)
                THEN [services[s] EXCEPT !.state = "deleted"] ELSE services[s]
          BY <4>1 DEF DeleteService, EndServices
        <5>2. s \in ServiceIDs => services[s] \in Service
          BY <1>1 DEF TypeOK, CloudTypeOK
        <5> QED
          BY <5>1, <5>2 DEF Service, Exists
      <4> QED
        BY <2>3, <4>1
    <3> QED
      BY <2>1, <2>3, <3>1, OverStays DEF Doom, Over, Exists, ServicesToDelete
  <2> QED
    BY <1>1, <1>5, <2>2, <2>3, DeleteServicesFields
<1>6. CASE DeleteNodePorts
  <2>1. /\ w.pc = "deleteNodePorts" /\ w'.pc \in {"deleteNodePorts", "removeFinalizer"}
        /\ w'.obj = w.obj
    BY <1>1, <1>6, DeleteNodePortsFields DEF Keeps
  <2> QED
    BY <2>1, OverStays DEF Doom, Over, Exists, ServicesToDelete
<1>7. ASSUME NEW r \in Routes, Reconcile(r), ~UNCHANGED w
      PROVE  Doom'
  <2>1. CASE w'.pc = "deleteRoutes" /\ w'.doomed = ServicesToDelete(hrCache[r])
    BY <1>7, <2>1, StartFields DEF Doom, ServicesToDelete
  <2>2. CASE /\ w'.pc = FirstNodePortStep(hrCache[r])
             /\ abandoned' = abandoned \union ServicesToDelete(hrCache[r])
    BY <1>7, <2>2, StartFields DEF Doom, Over, ServicesToDelete, FirstNodePortStep
  <2>3. CASE w'.pc \in {"parent", "finalizer"}
    BY <1>2, <2>3
  <2> QED
    BY <1>7, <2>1, <2>2, <2>3, StartFields
<1>8. CASE WorkerStep
  <2>1. CASE w'.pc \in DeletePCs
    <3>1. w.pc \in DeletePCs /\ w' # Idle
      BY <1>1, <1>8, <2>1, PassPCs DEF Idle, RunPCs, ItemPCs
    <3>2. DeleteRoutes \/ DeleteServices \/ DeleteNodePorts \/ RemoveFinalizer
      BY <1>8, <3>1 DEF WorkerStep, AddFinalizer, ResolveParent, EnsureNodePort, RereadNodePort,
         GetServiceCall, UpdateServiceCall, CreateServiceCall, CreateRouteCall, ListRoutesCall,
         SkipBackendRef, SetRequestTransformCall, SetResponseTransformCall, SaveAnnotations,
         WriteStatus,
         ReportError
    <3> QED
      BY <1>4, <1>5, <1>6, <3>1, <3>2, EndFields
  <2> QED
    BY <1>2, <2>1
<1>9. CASE Restart
  BY <1>2, <1>9 DEF Restart, Idle
<1> QED
  BY <1>3, <1>7, <1>8, <1>9, WhoMoves

----------------------------------------------------------------------------
(* The account.                                                              *)

DoomInv == MapInv /\ Doom

\* A service's account is in order: it is lost, recorded or held.
InOrder(s) ==
    LET r == services[s].owner[1] IN
    /\ hr[r].phase = "live" /\ hr[r].finalizer
    /\ s \in Tracked(r) \/ (w.route = r /\ s \in InHand)

\* A service that was created was created for a route.
Owned == \A s \in ServiceIDs : services[s].state # "unborn" => services[s].owner[1] \in Routes

AccountInv == DoomInv /\ Owned /\ Accounted

\* A pass that holds a service works for a route that is live with its finalizer.
LEMMA HeldByLive ==
  ASSUME MapInv, NEW s, s \in InHand
  PROVE  /\ w.pc \in RunPCs /\ w.route \in Routes
         /\ hr[w.route].phase = "live" /\ hr[w.route].finalizer
         /\ s \in ServiceIDs /\ services[s].owner[1] = w.route
<1>1. PICK b \in Backends : s = w.sids[b] /\ s # None
  BY DEF InHand
<1>2. w.pc \notin DeletePCs \union {"idle", "finalizer"}
  BY <1>1 DEF MapInv, Maps, NoServiceIDs
<1>3. w.pc \in RunPCs
  BY <1>2 DEF MapInv, OwnInv, TypeInv, TypeOK, Worker, PCs, DeletePCs, RunPCs
<1>4. w.pc # "idle" /\ w.route \in Routes
  BY <1>2, InPass DEF MapInv, OwnInv, TypeInv
<1>5. hr[w.route].phase = "live" /\ hr[w.route].finalizer
  BY <1>3 DEF MapInv, LifeInv, PassLife
<1>6. s \in ServiceIDs /\ services[s].owner = <<w.route, b>>
  BY <1>1, <1>4, RecordedBorn DEF MapInv
<1> QED
  BY <1>3, <1>4, <1>5, <1>6

\* A recorded service that lives stays recorded, with its route, unless it ends or
\* is given up (:174-177, :389-410).
LEMMA RecordedStays ==
  ASSUME DoomInv, [Next]_vars, NEW r \in Routes, NEW s \in Tracked(r),
         Exists(s), s \notin abandoned, hr[r].finalizer
  PROVE  hr'[r].phase = "live" /\ hr'[r].finalizer /\ s \in Tracked(r)'
<1>1. /\ TypeInv /\ TypeOK /\ MapInv /\ LifeInv /\ OwnInv /\ w \in Worker
  BY DEF DoomInv, MapInv, OwnInv, TypeInv, TypeOK
<1>2. hr[r].phase = "live" /\ \E b \in Backends : s = hr[r].svcIDs[b] /\ s # None
  BY DEF Tracked
<1>3. PICK b \in Backends : s = hr[r].svcIDs[b] /\ s # None
  BY <1>2
<1>4. ASSUME w.pc = "removeFinalizer", w.route = r, SameButStatus(w.obj, hr[r])
      PROVE  FALSE
  <2>1. s \in ServicesToDelete(w.obj)
    BY <1>3, <1>4 DEF SameButStatus, ServicesToDelete
  <2> QED
    BY <1>4, <2>1 DEF DoomInv, Doom, Over
<1>5. hr'[r].phase = "live" /\ hr'[r].finalizer
  <2>1. CASE hr'[r] = hr[r] \/ Edited(hr[r], hr'[r]) \/ Marked(hr[r], hr'[r])
    BY <1>2, <2>1 DEF Edited, Marked
  <2>2. CASE /\ w.pc # "idle" /\ w.route = r /\ hr[r].rv = w.obj.rv /\ hr'[r] # hr[r]
             /\ PassWrites(hr[r], hr'[r])
    <3>1. SameButStatus(w.obj, hr[r])
      BY <1>1, <2>2, WrittenFrom
    <3> QED
      BY <1>1, <1>4, <2>2, <3>1, WriteLife
  <2> QED
    BY <1>1, <1>2, <2>1, <2>2, ServerStep DEF Created
<1>6. s = hr'[r].svcIDs[b]
  <2>1. CASE SameRecords(hr'[r], hr[r])
    BY <1>3, <2>1 DEF SameRecords
  <2>2. CASE w.pc = "save" /\ w.route = r /\ SameButStatus(w.obj, hr[r]) /\ hr'[r].svcIDs = w.sids
    BY <1>1, <1>3, <2>2 DEF MapInv, Maps, SameButStatus
  <2> QED
    BY <1>1, <2>1, <2>2, AnnotationStep
<1> QED
  BY <1>3, <1>5, <1>6 DEF Tracked

\* A held service that lives stays held or is recorded, unless it is given up.
LEMMA HeldStays ==
  ASSUME DoomInv, [Next]_vars, NEW s \in InHand, Exists(s), s \notin abandoned',
         services'[s].state = "live"
  PROVE  s \in Tracked(w.route) \/ (w'.route = w.route /\ s \in InHand')
<1>1. /\ TypeInv /\ TypeOK /\ MapInv /\ LifeInv /\ OwnInv /\ w \in Worker
      /\ Linked(services, routes)
  BY DEF DoomInv, MapInv, OwnInv, TypeInv, TypeOK
<1>2. PICK b \in Backends : s = w.sids[b] /\ s # None
  BY DEF InHand
<1>3. w.pc \in RunPCs /\ w.route \in Routes /\ hr[w.route].phase = "live"
  BY <1>1, HeldByLive
<1>4. w'.route = w.route /\ w'.sids = w.sids => w'.route = w.route /\ s \in InHand'
  BY <1>2 DEF InHand
<1>5. CASE UNCHANGED w \/ Fail
  BY <1>1, <1>4, <1>5, FailFields DEF Keeps
<1>6. ASSUME hr[w.route].svcIDs = w.sids
      PROVE  s \in Tracked(w.route)
  BY <1>2, <1>3, <1>6 DEF Tracked
<1>7. CASE ResolveParent
  <2>1. w.sids = hr[w.route].svcIDs
    BY <1>1, <1>2, <1>7, ResolveFields DEF MapInv, Maps, NoServiceIDs
  <2> QED
    BY <1>6, <2>1
<1>8. CASE EnsureNodePort \/ RereadNodePort \/ GetServiceCall \/ UpdateServiceCall
  BY <1>1, <1>4, <1>5, <1>8, LookupFields DEF KeepsPlace, Keeps
<1>9. CASE CreateServiceCall /\ ~Fail
  <2>1. PICK x \in FreshServices : /\ w.pc = "createService" /\ w'.route = w.route
                                   /\ w'.sids = [w.sids EXCEPT ![ServiceKey] = x]
    BY <1>1, <1>9, CreateServiceFields
  <2>2. b # ServiceKey
    BY <1>1, <1>2, <2>1 DEF MapInv, Maps, CurrentService
  <2>3. w.sids \in [Backends -> ServiceIDs \union {None}]
    BY <1>1 DEF Worker
  <2>4. w'.sids[b] = s
    BY <1>2, <2>1, <2>2, <2>3
  <2> QED
    BY <1>2, <2>1, <2>4 DEF InHand
<1>10. CASE \/ CreateRouteCall \/ ListRoutesCall
            \/ SkipBackendRef \/ SetRequestTransformCall \/ SetResponseTransformCall
  BY <1>1, <1>4, <1>5, <1>10, RouteFields, TransformFields DEF KeepsPlace, Keeps
<1>11. CASE SaveAnnotations
  BY <1>1, <1>4, <1>5, <1>11, SavedMaps
<1>12. CASE WriteStatus
  <2>1. hr[w.route].svcIDs = w.sids
    BY <1>1, <1>12 DEF WriteStatus, MapInv, Maps
  <2> QED
    BY <1>6, <2>1
<1>13. CASE ReportError
  BY <1>13 DEF ReportError
<1>14. CASE Restart
  <2>1. w.route # None
    BY <1>3, CloudAssumption
  <2> QED
    BY <1>14, <2>1 DEF Restart
<1>15. ~(AddFinalizer \/ DeleteRoutes \/ DeleteServices \/ DeleteNodePorts \/ RemoveFinalizer)
  BY <1>3 DEF AddFinalizer, DeleteRoutes, DeleteServices, DeleteNodePorts, RemoveFinalizer,
     RunPCs, ItemPCs
<1>16. ASSUME NEW r \in Routes, Reconcile(r)
       PROVE  FALSE
  BY <1>3, <1>16 DEF Reconcile, RunPCs, ItemPCs
<1> QED
  BY <1>5, <1>7, <1>8, <1>9, <1>10, <1>11, <1>12, <1>13, <1>14, <1>15, <1>16, WhoMoves
     DEF WorkerStep

\* A new service is held by the pass that made it, or lost with the answer.
LEMMA NewbornHeld ==
  ASSUME DoomInv, NEW s \in ServiceIDs, CreateServiceCall, services[s].state = "unborn",
         CreateService(s, <<w.route, ServiceKey>>, w.host), s \notin abandoned'
  PROVE  services'[s].owner[1] = w.route /\ w'.route = w.route /\ s \in InHand'
<1>1. TypeOK /\ w \in Worker /\ services \in [ServiceIDs -> Service]
      /\ w.pc = "createService" /\ w.pc \in ItemPCs
  BY DEF DoomInv, MapInv, OwnInv, TypeInv, TypeOK, CloudTypeOK, CreateServiceCall, ItemPCs
<1>2. /\ services' = [services EXCEPT ![s] = [state |-> "live", owner |-> <<w.route, ServiceKey>>,
                                              host |-> w.host]]
  BY DEF CreateService
<1>3. services'[s].owner = <<w.route, ServiceKey>> /\ services'[s].state = "live"
  BY <1>1, <1>2
<1>4. services' # services
  BY <1>3
<1>5. PICK x \in FreshServices :
        /\ CreateService(x, <<w.route, ServiceKey>>, w.host)
        /\ \/ abandoned' = abandoned \union {x}
           \/ /\ w'.route = w.route /\ w'.sids = [w.sids EXCEPT ![ServiceKey] = x]
  BY <1>1, <1>4, CreateServiceFields
<1>6. x = s
  BY <1>1, <1>3, <1>5 DEF CreateService
<1>7. w'.route = w.route /\ w'.sids = [w.sids EXCEPT ![ServiceKey] = s]
  BY <1>5, <1>6
<1>8. ServiceKey \in Backends /\ w.sids \in [Backends -> ServiceIDs \union {None}]
  BY <1>1, InCall DEF Worker
<1>9. w'.sids[ServiceKey] = s /\ s # None
  BY <1>7, <1>8, CloudAssumption
<1> QED
  BY <1>3, <1>7, <1>8, <1>9 DEF InHand

\* The account stays in order.
LEMMA AccountedKept ==
  ASSUME AccountInv, MapInv', [Next]_vars
  PROVE  Accounted'
<1> SUFFICES ASSUME NEW s \in ServiceIDs, services'[s].state = "live", s \notin abandoned'
             PROVE  InOrder(s)'
  BY DEF Accounted, InOrder
<1>1. TypeInv /\ OwnInv /\ MapInv /\ DoomInv /\ Linked(services, routes)
  BY DEF AccountInv, DoomInv, MapInv, OwnInv
<1>2. s \notin abandoned
  BY <1>1, AbandonedGrows
<1>3. w'.route = services'[s].owner[1] /\ s \in InHand' => InOrder(s)'
  <2>1. ASSUME s \in InHand'
        PROVE  hr'[w'.route].phase = "live" /\ hr'[w'.route].finalizer
    <3>1. PICK b \in Backends : s = w'.sids[b] /\ s # None
      BY <2>1 DEF InHand
    <3>2. w'.pc \notin DeletePCs \union {"idle", "finalizer"}
      BY <3>1 DEF MapInv, Maps, NoServiceIDs
    <3>3. w'.pc \in RunPCs
      BY <3>2 DEF MapInv, OwnInv, TypeInv, TypeOK, Worker, PCs, DeletePCs, RunPCs
    <3> QED
      BY <3>3 DEF MapInv, LifeInv, PassLife
  <2> QED
    BY <2>1 DEF InOrder
<1>4. CASE services[s].state = "live"
  <2>1. PICK r \in Routes : r = services[s].owner[1]
    BY <1>4 DEF AccountInv, Owned
  <2>2. services'[s].owner = services[s].owner
    BY <1>1, <1>4, CloudStep DEF TypeInv, CloudKept, Stable
  <2>3. /\ hr[r].phase = "live" /\ hr[r].finalizer
        /\ s \in Tracked(r) \/ (w.route = r /\ s \in InHand)
    BY <1>2, <1>4, <2>1 DEF AccountInv, Accounted
  <2>4. Exists(s)
    BY <1>4 DEF Exists
  <2>5. CASE s \in Tracked(r)
    <3>1. hr'[r].phase = "live" /\ hr'[r].finalizer /\ s \in Tracked(r)'
      BY <1>1, <1>2, <2>1, <2>3, <2>4, <2>5, RecordedStays
    <3> QED
      BY <2>1, <2>2, <3>1 DEF InOrder, Tracked
  <2>6. CASE w.route = r /\ s \in InHand /\ s \notin Tracked(r)
    <3>1. w'.route = w.route /\ s \in InHand'
      BY <1>1, <2>4, <2>6, HeldStays
    <3> QED
      BY <1>3, <2>1, <2>2, <2>6, <3>1
  <2> QED
    BY <2>3, <2>5, <2>6
<1>5. CASE services[s].state = "unborn"
  <2>1. CreateServiceCall /\ CreateService(s, <<w.route, ServiceKey>>, w.host)
    BY <1>1, <1>5, ServiceStep
  <2> QED
    BY <1>1, <1>3, <1>5, <2>1, NewbornHeld
<1>6. services[s].state \in {"live", "unborn"}
  BY <1>1, DeadStays DEF TypeInv, TypeOK, CloudTypeOK, Service
<1> QED
  BY <1>4, <1>5, <1>6

\* Services are created for the route of the pass.
LEMMA OwnedKept ==
  ASSUME TypeInv, Linked(services, routes), Owned, [Next]_vars
  PROVE  Owned'
<1> SUFFICES ASSUME NEW s \in ServiceIDs, services'[s].state # "unborn"
             PROVE  services'[s].owner[1] \in Routes
  BY DEF Owned
<1>1. CASE services[s].state # "unborn"
  <2>1. services'[s].owner = services[s].owner
    BY <1>1, CloudStep DEF TypeInv, CloudKept, Stable
  <2> QED
    BY <1>1, <2>1 DEF Owned
<1>2. CASE services[s].state = "unborn"
  <2>1. CreateServiceCall /\ CreateService(s, <<w.route, ServiceKey>>, w.host)
    BY <1>2, ServiceStep
  <2>2. CloudTypeOK /\ w.route \in Routes
    BY <2>1, InPass DEF TypeInv, TypeOK, CreateServiceCall
  <2>3. services'[s].owner = <<w.route, ServiceKey>>
    BY <2>1, <2>2, CreateServiceKeeps
  <2> QED
    BY <2>2, <2>3
<1> QED
  BY <1>1, <1>2

\* There is no service at the start.
LEMMA AccountInit == Init => AccountInv
<1> SUFFICES ASSUME Init PROVE AccountInv
  OBVIOUS
<1>1. MapInv
  BY MapInit
<1>2. \A s \in ServiceIDs : services[s].state = "unborn"
  BY DEF Init, CloudInit
<1>3. w.pc = "idle"
  BY DEF Init, Idle
<1> QED
  BY <1>1, <1>2, <1>3 DEF AccountInv, DoomInv, Doom, Owned, Accounted

\* The inductive invariant is one.
LEMMA AccountInvKept == AccountInv /\ [Next]_vars => AccountInv'
<1> SUFFICES ASSUME AccountInv, [Next]_vars PROVE AccountInv'
  OBVIOUS
<1>1. TypeInv /\ Linked(services, routes) /\ MapInv /\ Doom /\ Owned
  BY DEF AccountInv, DoomInv, MapInv, OwnInv
<1>2. MapInv' /\ Doom' /\ Owned'
  BY <1>1, MapInvKept, DoomKept, OwnedKept
<1> QED
  BY <1>2, AccountedKept DEF AccountInv, DoomInv

\* A step deletes services of the route of the pass, which is being deleted.
LEMMA DeletesOwn ==
  ASSUME AccountInv, [Next]_vars, NEW s \in ServiceIDs,
         services[s].state = "live", services'[s].state = "deleted"
  PROVE  hr[services[s].owner[1]].deleting
<1>1. TypeInv /\ OwnInv /\ LifeInv /\ Doom /\ Linked(services, routes)
  BY DEF AccountInv, DoomInv, MapInv, OwnInv
<1>2. w.pc = "deleteServices" /\ s \in w.doomed
  BY <1>1, ServiceStep DEF DeleteServices
<1>3. s \in ServicesToDelete(w.obj)
  BY <1>1, <1>2 DEF Doom
<1>4. services[s].owner[1] = w.route /\ w.route \in Routes
  BY <1>1, <1>2, <1>3, ToDeleteBorn, InPass DEF TypeInv
<1> QED
  BY <1>1, <1>2, <1>4 DEF LifeInv, PassLife, Life, DeletePCs

\* A step replaces the record of a service only when the service is gone.
LEMMA ForgetsGoneOnly ==
  ASSUME MapInv, [Next]_vars, NEW r \in Routes, NEW b \in Backends,
         hr[r].svcIDs[b] # None, hr'[r].svcIDs[b] # hr[r].svcIDs[b]
  PROVE  ~Exists(hr[r].svcIDs[b])
<1>1. LifeInv
  BY DEF MapInv
<1>2. w.pc = "save" /\ w.obj.svcIDs = hr[r].svcIDs /\ hr'[r].svcIDs = w.sids
  BY <1>1, AnnotationStep DEF SameRecords, SameButStatus
<1> QED
  BY <1>2 DEF MapInv, Maps

\* A deletion reaches the services of the route it deletes and of no other, whatever
\* routes share, however stale the copy the deletion started from (:389-394).
THEOREM DeletionsAreOwn == Spec => DeletesOwnServicesOnly
<1>1. AccountInv /\ [Next]_vars =>
        [\A s \in ServiceIDs :
            services[s].state = "live" /\ services'[s].state = "deleted"
               => hr[services[s].owner[1]].deleting]_vars
  BY DeletesOwn
<1> QED
  BY <1>1, AccountInit, AccountInvKept, PTL DEF Spec, DeletesOwnServicesOnly

\* A pass never overwrites the record of a service that lives, neither one that
\* another pass made nor one it read itself (:177, :193-213).
THEOREM RecordsReplacedWhenGone == Spec => NoLiveServiceForgotten
<1>1. AccountInv /\ [Next]_vars =>
        [\A r \in Routes, b \in Backends :
            LET s == hr[r].svcIDs[b] IN
            s # None /\ hr'[r].svcIDs[b] # s => ~Exists(s)]_vars
  BY ForgetsGoneOnly DEF AccountInv, DoomInv
<1> QED
  BY <1>1, AccountInit, AccountInvKept, PTL DEF Spec, NoLiveServiceForgotten

\* Every live service is recorded on a route that still has its finalizer, or held by
\* the pass that made it, or was given up by a pass that failed or had no client;
\* nothing else leaks, through any interleaving and any faults (:148-179, :376-410).
THEOREM ServicesAccounted == Spec => []Accounted
<1>1. AccountInv => Accounted
  BY DEF AccountInv
<1> QED
  BY <1>1, AccountInit, AccountInvKept, PTL DEF Spec
=============================================================================
