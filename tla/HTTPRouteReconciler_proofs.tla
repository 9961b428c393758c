--------------------- MODULE HTTPRouteReconciler_proofs ---------------------
(***************************************************************************)
(* Proofs about the HTTPRoute controller, for every set of routes,          *)
(* backends, Gateways, specs and identifiers and without bounds on faults   *)
(* or moves: the types of every action.                                     *)
(***************************************************************************)
EXTENDS HTTPRouteProperties, TLAPS

----------------------------------------------------------------------------
(* What the operators of the model return.                                   *)

\* An object that does not exist yet is an object.
LEMMA UncreatedType == Uncreated \in HTTPRoute
  BY DEF Uncreated, HTTPRoute, NoServiceIDs, NoRouteIDs, NoStatus, Condition

\* A worker at rest is a worker.
LEMMA IdleType == Idle \in Worker
  BY UncreatedType DEF Idle, Worker, PCs, NoServiceIDs, NoRouteIDs, NoUpstream, Upstream

\* A write leaves an object (Update and Status().Update at the API server).
LEMMA BumpedType ==
  ASSUME NEW old \in HTTPRoute, NEW new \in HTTPRoute
  PROVE  Bumped(old, new) \in HTTPRoute
<1> DEFINE phase == IF new.deleting /\ ~new.finalizer THEN "gone" ELSE new.phase
<1>1. phase \in {"new", "live", "gone"} /\ new.rv + 1 \in Nat
  BY DEF HTTPRoute
<1> HIDE DEF phase
<1>2. [new EXCEPT !.rv = new.rv + 1, !.phase = phase] \in HTTPRoute
  BY <1>1 DEF HTTPRoute
<1> QED
  BY <1>2 DEF Bumped, phase

\* Update stores an object: metadata and annotations over the server's copy.
LEMMA MetaPutType ==
  ASSUME TypeOK, w.route \in Routes, NEW o \in HTTPRoute
  PROVE  MetaPut(o) \in HTTPRoute
<1>1. hr[w.route] \in HTTPRoute
  BY DEF TypeOK
<1>2. [hr[w.route] EXCEPT !.finalizer = o.finalizer, !.svcIDs = o.svcIDs, !.rtIDs = o.rtIDs]
         \in HTTPRoute
  BY <1>1 DEF HTTPRoute
<1> QED
  BY <1>1, <1>2, BumpedType DEF MetaPut

\* Status().Update stores an object: conditions over the server's copy.
LEMMA StatusPutType ==
  ASSUME TypeOK, w.route \in Routes, NEW o \in HTTPRoute
  PROVE  StatusPut(o) \in HTTPRoute
<1>1. hr[w.route] \in HTTPRoute
  BY DEF TypeOK
<1>2. [hr[w.route] EXCEPT !.status = o.status] \in HTTPRoute
  BY <1>1 DEF HTTPRoute
<1> QED
  BY <1>1, <1>2, BumpedType DEF StatusPut

\* What Update's answer is decoded into is an object.
LEMMA DecodedType ==
  ASSUME NEW o \in HTTPRoute, NEW answer \in HTTPRoute
  PROVE  Decoded(o, answer) \in HTTPRoute
  BY DEF Decoded, HTTPRoute

\* The parent under way is a Gateway.
LEMMA ParentType ==
  ASSUME TypeOK, w.pc # "idle"
  PROVE  Parent \in Gateways
  BY ReconcilerAssumption DEF TypeOK, Parent

\* setRouteCondition leaves an object.
LEMMA WithConditionType ==
  ASSUME TypeOK, w.pc # "idle", NEW o \in HTTPRoute, NEW acc \in {"True", "False"}
  PROVE  WithCondition(o, acc) \in HTTPRoute
<1>1. Parent \in Gateways
  BY ParentType
<1>2. [acc |-> acc, gen |-> o.gen] \in Condition
  BY DEF HTTPRoute, Condition
<1> QED
  BY <1>1, <1>2 DEF WithCondition, HTTPRoute

\* Sequences of items: what a spec is.
LEMMA SpecType ==
  ASSUME NEW o \in HTTPRoute
  PROVE  /\ o.spec \in Seq(Item)
         /\ Len(o.spec) \in Nat
         /\ DOMAIN o.spec = 1 .. Len(o.spec)
         /\ o.spec # <<>> => Len(o.spec) >= 1
<1>1. o.spec \in Specs \union {<<>>}
  BY DEF HTTPRoute
<1>2. o.spec \in Seq(Item)
  <2>1. <<>> \in Seq(Item)
    OBVIOUS
  <2> QED
    BY <1>1, <2>1, ReconcilerAssumption
<1>3. Len(o.spec) \in Nat /\ DOMAIN o.spec = 1 .. Len(o.spec)
  BY <1>2
<1>4. o.spec # <<>> => Len(o.spec) >= 1
  BY <1>2, <1>3
<1> QED
  BY <1>2, <1>3, <1>4

\* The backendRef under way is one of the spec's.
LEMMA CurrentItemType ==
  ASSUME TypeOK, w.pc \in ItemPCs \union {"deleteNodePorts"}
  PROVE  /\ CurrentItem \in Item
         /\ ServiceKey \in Backends
         /\ RuleKey \in Backends \X RuleIdx
         /\ RouteName \in Routes \X RuleIdx
         /\ CurrentService \in ServiceIDs \union {None}
<1>1. w.obj \in HTTPRoute /\ w.sids \in [Backends -> ServiceIDs \union {None}]
  BY DEF TypeOK, Worker
<1>2. w.item \in DOMAIN w.obj.spec /\ w.route \in Routes
  BY DEF TypeOK, ItemPCs
<1>3. CurrentItem \in Item
  BY <1>1, <1>2, SpecType DEF CurrentItem
<1> QED
  BY <1>1, <1>2, <1>3 DEF Item, ServiceKey, RuleKey, RouteName, CurrentService

----------------------------------------------------------------------------
(* Type correctness, part by part.                                           *)

ObjectsOK == hr \in [Routes -> HTTPRoute] /\ hrCache \in [Routes -> HTTPRoute]
WorldOK == World!WorldTypeOK
WorkerOK == /\ w \in Worker
            /\ w.pc # "idle" => w.route \in Routes /\ w.parent \in DOMAIN ParentRefs[w.route]
            /\ w.pc \in ItemPCs \union {"deleteNodePorts"} => w.item \in DOMAIN w.obj.spec
QueuesOK == queue \subseteq Routes /\ delayed \subseteq Routes
CountersOK == faults \in Nat /\ moves \in Nat

\* TypeOK, by the variables its parts speak of.
LEMMA TypeParts ==
  TypeOK <=> /\ CloudTypeOK /\ NodePortTypeOK /\ ObjectsOK /\ WorldOK
             /\ WorkerOK /\ QueuesOK /\ CountersOK /\ abandoned \subseteq ServiceIDs
  BY DEF TypeOK, ObjectsOK, WorldOK, WorkerOK, QueuesOK, CountersOK

\* ... and the same of the next state.
LEMMA TypePartsNext ==
  ASSUME CloudTypeOK', NodePortTypeOK', ObjectsOK', WorldOK', WorkerOK', QueuesOK',
         CountersOK', abandoned' \subseteq ServiceIDs
  PROVE  TypeOK'
  BY DEF TypeOK, ObjectsOK, WorldOK, WorkerOK, QueuesOK, CountersOK

\* What a call leaves alone keeps its type.
LEMMA CloudUnchanged ==
  ASSUME CloudTypeOK, UNCHANGED cloudVars
  PROVE  CloudTypeOK'
  BY DEF CloudTypeOK, cloudVars

\* What leaves NodePort Services and nodes alone keeps their types.
LEMMA NodePortUnchanged ==
  ASSUME NodePortTypeOK, UNCHANGED nodePortVars
  PROVE  NodePortTypeOK'
  BY DEF NodePortTypeOK, nodePortVars

\* What leaves Gateways, secrets and credentials alone keeps their types.
LEMMA WorldUnchanged ==
  ASSUME WorldOK, UNCHANGED worldVars
  PROVE  WorldOK'
  BY DEF WorldOK, World!WorldTypeOK, worldVars

\* Calls count at most one fault.
LEMMA CountersType ==
  ASSUME CountersOK, UNCHANGED moves, Answered \/ Fault \/ CloudFault
  PROVE  CountersOK'
  BY DEF CountersOK, Answered, Fault, CloudFault

\* The worker after the endings of its calls.
LEMMA AtRest ==
  ASSUME w' = Idle
  PROVE  WorkerOK'
  BY IdleType DEF WorkerOK, Idle, ItemPCs

\* A pass that ends with an error leaves a worker at rest and a queued route.
LEMMA AfterRequeue ==
  ASSUME TypeOK, w.pc # "idle", Requeue, UNCHANGED queue
  PROVE  WorkerOK' /\ QueuesOK'
  BY AtRest DEF Requeue, QueuesOK, TypeOK

\* A pass that fails stays with its route and parent.
LEMMA AfterFail ==
  ASSUME TypeOK, w.pc # "idle", Fail
  PROVE  WorkerOK'
<1>1. w \in Worker /\ w.obj \in HTTPRoute
  BY DEF TypeOK, Worker
<1>2. WithCondition(w.obj, "False") \in HTTPRoute
  BY <1>1, WithConditionType
<1>3. w' \in Worker /\ w'.pc = "failed" /\ w'.route = w.route /\ w'.parent = w.parent
  BY <1>1, <1>2 DEF Fail, Worker, PCs
<1> QED
  BY <1>3 DEF TypeOK, WorkerOK, ItemPCs

\* The worker goes to another call for the backendRef it is at.
LEMMA AtNextCall ==
  ASSUME TypeOK, w.pc \in ItemPCs, NEW pc \in ItemPCs, w' = [w EXCEPT !.pc = pc]
  PROVE  WorkerOK'
<1>1. w \in Worker
  BY DEF TypeOK
<1>2. /\ w' \in Worker /\ w'.pc = pc /\ w'.route = w.route /\ w'.parent = w.parent
      /\ w'.item = w.item /\ w'.obj = w.obj
  BY <1>1 DEF Worker, PCs, ItemPCs
<1> QED
  BY <1>2 DEF TypeOK, WorkerOK, ItemPCs

\* The loop over the backendRefs stays inside the spec (httproute_controller.go:125).
LEMMA AtNextItem ==
  ASSUME TypeOK, w.pc \in ItemPCs, w' = NextItem
  PROVE  WorkerOK'
<1>1. w \in Worker /\ w.obj \in HTTPRoute /\ w.item \in DOMAIN w.obj.spec
  BY DEF TypeOK, Worker
<1>2. /\ w.item \in Nat /\ Len(w.obj.spec) \in Nat
      /\ DOMAIN w.obj.spec = 1 .. Len(w.obj.spec)
  BY <1>1, SpecType
<1> DEFINE more == w.item < Len(w.obj.spec)
<1> DEFINE item == IF more THEN w.item + 1 ELSE w.item
<1> DEFINE pc == IF more THEN "nodeport" ELSE "save"
<1>3. item \in DOMAIN w.obj.spec /\ item \in Nat /\ pc \in {"nodeport", "save"}
  BY <1>1, <1>2
<1>4. w' = [w EXCEPT !.pc = pc, !.item = item]
  BY DEF NextItem
<1> HIDE DEF item, pc, more
<1>5. /\ w' \in Worker /\ w'.pc = pc /\ w'.route = w.route /\ w'.parent = w.parent
      /\ w'.item = item /\ w'.obj = w.obj
  BY <1>1, <1>3, <1>4 DEF Worker, PCs, ItemPCs
<1> QED
  BY <1>3, <1>5 DEF TypeOK, WorkerOK, ItemPCs

----------------------------------------------------------------------------
(* Type correctness of the calls on the cloud.                               *)

\* POST /services.
LEMMA CreateServiceType ==
  ASSUME CloudTypeOK, NEW s, NEW owner \in Routes \X Backends, NEW host \in Upstream,
         CreateService(s, owner, host)
  PROVE  CloudTypeOK' /\ s \in ServiceIDs
  BY DEF CloudTypeOK, CreateService, FreshServices, Service

\* PUT /services/{id}.
LEMMA UpdateServiceType ==
  ASSUME CloudTypeOK, NEW s, NEW host \in Upstream, UpdateService(s, host)
  PROVE  CloudTypeOK'
  BY DEF CloudTypeOK, UpdateService, Exists, Service

\* The end of services, and of the routes on them.
LEMMA EndServicesType ==
  ASSUME CloudTypeOK, NEW ss, NEW how \in {"deleted", "removed"}, EndServices(ss, how)
  PROVE  CloudTypeOK'
<1>1. ASSUME NEW s \in ServiceIDs PROVE [services[s] EXCEPT !.state = how] \in Service
  BY DEF CloudTypeOK, Service
<1>2. ASSUME NEW t \in RouteIDs PROVE [routes[t] EXCEPT !.state = "deleted"] \in Route
  BY DEF CloudTypeOK, Route
<1> QED
  BY <1>1, <1>2 DEF CloudTypeOK, EndServices

\* POST /services/{id}/routes.
LEMMA CreateRouteType ==
  ASSUME CloudTypeOK, NEW t, NEW s, NEW name \in Routes \X RuleIdx, NEW path \in Paths,
         CreateRoute(t, s, name, path)
  PROVE  CloudTypeOK' /\ t \in RouteIDs
<1>1. t \in RouteIDs /\ s \in ServiceIDs
  BY DEF CreateRoute, FreshRoutes, Exists
<1>2. NoTransform \in RequestTransform
  BY DEF NoTransform, RequestTransform
<1>3. [state |-> "live", service |-> s, name |-> name, path |-> path,
        reqT |-> NoTransform, respT |-> None] \in Route
  BY <1>1, <1>2 DEF Route
<1> QED
  BY <1>1, <1>3 DEF CloudTypeOK, CreateRoute

\* DELETE of a route.
LEMMA DeleteRouteType ==
  ASSUME CloudTypeOK, NEW s, NEW t, DeleteRoute(s, t)
  PROVE  CloudTypeOK'
<1>1. t \in RoutesOn(s) => t \in RouteIDs
  BY DEF RoutesOn
<1>2. t \in RouteIDs => [routes[t] EXCEPT !.state = "deleted"] \in Route
  BY DEF CloudTypeOK, Route
<1> QED
  BY <1>1, <1>2 DEF CloudTypeOK, DeleteRoute

\* PUT of a request transform.
LEMMA SetRequestTransformType ==
  ASSUME CloudTypeOK, NEW s, NEW t, NEW transform \in RequestTransform,
         SetRequestTransform(s, t, transform)
  PROVE  CloudTypeOK'
<1>1. t \in RoutesOn(s) => t \in RouteIDs
  BY DEF RoutesOn
<1>2. t \in RouteIDs => [routes[t] EXCEPT !.reqT = transform] \in Route
  BY DEF CloudTypeOK, Route
<1> QED
  BY <1>1, <1>2 DEF CloudTypeOK, SetRequestTransform

\* PUT of a response transform, or of none.
LEMMA SetResponseTransformType ==
  ASSUME CloudTypeOK, NEW s, NEW t, NEW transform \in Filters \union {None},
         SetResponseTransform(s, t, transform)
  PROVE  CloudTypeOK'
<1>1. t \in RoutesOn(s) => t \in RouteIDs
  BY DEF RoutesOn
<1>2. t \in RouteIDs => [routes[t] EXCEPT !.respT = transform] \in Route
  BY DEF CloudTypeOK, Route
<1> QED
  BY <1>1, <1>2 DEF CloudTypeOK, SetResponseTransform

\* Creation of a NodePort Service (nodeport.go:68-100).
LEMMA CreateNodePortType ==
  ASSUME NodePortTypeOK, NEW b \in Backends, NEW owner \in Routes, NEW port \in Ports,
         CreateNodePort(b, owner, port)
  PROVE  NodePortTypeOK'
  BY NodePortAssumption, CloudAssumption
     DEF NodePortTypeOK, CreateNodePort, FreeNodePorts, NodePortService

\* A Service of another tool.
LEMMA OutsiderTakesType ==
  ASSUME NodePortTypeOK, NEW b \in Backends, OutsiderTakes(b)
  PROVE  NodePortTypeOK'
  BY NodePortAssumption, CloudAssumption
     DEF NodePortTypeOK, OutsiderTakes, FreeNodePorts, NodePortService

\* Deletion of a NodePort Service (nodeport.go:144).
LEMMA DeleteNodePortType ==
  ASSUME NodePortTypeOK, NEW b \in Backends, DeleteNodePort(b)
  PROVE  NodePortTypeOK'
<1>1. Absent \in NodePortService
  BY DEF Absent, NodePortService
<1> QED
  BY <1>1 DEF NodePortTypeOK, DeleteNodePort

----------------------------------------------------------------------------
(* Type correctness is preserved by every action.                            *)

\* The types hold at the start.
LEMMA InitType == Init => TypeOK
<1> SUFFICES ASSUME Init PROVE TypeOK
  OBVIOUS
<1>1. CloudTypeOK
  BY DEF Init, CloudInit, CloudTypeOK, Service, Route, NoUpstream, Upstream, NoTransform,
         RequestTransform
<1>2. NodePortTypeOK
  <2>1. Absent \in NodePortService
    BY DEF Absent, NodePortService
  <2> QED
    BY <2>1, NodePortAssumption DEF Init, NodePortInit, NodePortTypeOK
<1>3. ObjectsOK
  BY UncreatedType DEF Init, ObjectsOK
<1>4. WorkerOK
  BY IdleType DEF Init, WorkerOK, Idle, ItemPCs
<1> QED
  BY <1>1, <1>2, <1>3, <1>4, TypeParts DEF Init, World!Init, World!WorldTypeOK, WorldOK, QueuesOK, CountersOK

\* A write of an object keeps the API server's types.
LEMMA PutType ==
  ASSUME TypeOK, w.route \in Routes, NEW o \in HTTPRoute, Put(o), UNCHANGED hrCache
  PROVE  ObjectsOK'
  BY DEF TypeOK, Put, ObjectsOK

\* A write that may or may not have reached the server.
LEMMA MaybePutType ==
  ASSUME TypeOK, w.route \in Routes, NEW o \in HTTPRoute,
         UNCHANGED hr \/ Put(MetaPut(o)) \/ Put(StatusPut(o)), UNCHANGED hrCache
  PROVE  ObjectsOK'
<1>1. MetaPut(o) \in HTTPRoute /\ StatusPut(o) \in HTTPRoute
  BY MetaPutType, StatusPutType
<1>2. UNCHANGED hr => ObjectsOK'
  BY DEF TypeOK, ObjectsOK
<1> QED
  BY <1>1, <1>2, PutType

\* A pass begins: the object is in memory, and what a deletion has collected.
LEMMA AtStart ==
  ASSUME NEW r \in Routes, NEW o \in HTTPRoute, NEW pc \in PCs,
         w' \in Worker, w'.pc = pc, w'.route = r, w'.parent = 1, w'.item = 1, w'.obj = o,
         pc \in ItemPCs \union {"deleteNodePorts"} => o.spec # <<>>
  PROVE  WorkerOK'
<1>1. 1 \in DOMAIN ParentRefs[r]
  <2>1. ParentRefs[r] \in Seq(Gateways) /\ ParentRefs[r] # <<>>
    BY ReconcilerAssumption
  <2> QED
    BY <2>1
<1>2. o.spec # <<>> => 1 \in DOMAIN o.spec
  BY SpecType
<1> QED
  BY <1>1, <1>2 DEF WorkerOK

\* What reconcileDelete collects is identifiers.
LEMMA CollectedType ==
  ASSUME NEW o \in HTTPRoute
  PROVE  /\ ServicesToDelete(o) \subseteq ServiceIDs
         /\ {o.rtIDs[k] : k \in Backends \X RuleIdx} \ {None} \subseteq RouteIDs
  BY DEF ServicesToDelete, HTTPRoute

\* reconcileDelete starts from a typed collection of identifiers (:365-379).
LEMMA StartDeleteType ==
  ASSUME TypeOK, NEW r \in Routes, NEW o \in HTTPRoute, StartDelete(o, r)
  PROVE  WorkerOK' /\ abandoned' \subseteq ServiceIDs
<1> DEFINE tids == {o.rtIDs[k] : k \in Backends \X RuleIdx} \ {None}
<1> DEFINE sids == ServicesToDelete(o)
<1>1. sids \subseteq ServiceIDs /\ sids \X tids \subseteq ServiceIDs \X RouteIDs
  BY CollectedType
<1>2. CASE DeletionClient(o, r)
  <2>1. w' = [Idle EXCEPT !.pc = "deleteRoutes", !.route = r, !.obj = o,
                          !.pairs = sids \X tids, !.doomed = sids]
        /\ UNCHANGED abandoned
    BY <1>2 DEF StartDelete
  <2> HIDE DEF sids, tids
  <2>2. /\ w' \in Worker /\ w'.pc = "deleteRoutes" /\ w'.route = r /\ w'.parent = 1
        /\ w'.item = 1 /\ w'.obj = o
    BY <1>1, <2>1, IdleType DEF Worker, PCs, Idle
  <2>3. WorkerOK'
    BY <2>2, AtStart DEF PCs, ItemPCs
  <2> QED
    BY <2>1, <2>3 DEF TypeOK
<1>3. CASE ~DeletionClient(o, r)
  <2> DEFINE pc == FirstNodePortStep(o)
  <2>1. w' = [Idle EXCEPT !.pc = pc, !.route = r, !.obj = o]
        /\ abandoned' = abandoned \union sids
    BY <1>3 DEF StartDelete
  <2>2. pc \in PCs /\ (pc \in ItemPCs \union {"deleteNodePorts"} => o.spec # <<>>)
    BY DEF FirstNodePortStep, PCs, ItemPCs
  <2> HIDE DEF pc
  <2>3. w' \in Worker /\ w'.pc = pc /\ w'.route = r /\ w'.parent = 1 /\ w'.item = 1 /\ w'.obj = o
    BY <2>1, <2>2, IdleType DEF Worker, Idle
  <2>4. WorkerOK'
    BY <2>2, <2>3, AtStart
  <2> QED
    BY <1>1, <2>1, <2>4 DEF TypeOK
<1> QED
  BY <1>2, <1>3

\* Taking a route off the queue (:40-62).
LEMMA ReconcileType ==
  ASSUME TypeOK, NEW r \in Routes, Reconcile(r)
  PROVE  TypeOK'
<1> DEFINE o == Read(r)
<1>1. o \in HTTPRoute
  BY DEF Read, TypeOK
<1> HIDE DEF o
<1>2. WorkerOK' /\ abandoned' \subseteq ServiceIDs
  <2>1. CASE UNCHANGED <<w, abandoned>>
    BY <2>1, TypeParts DEF WorkerOK
  <2>2. CASE StartDelete(o, r)
    BY <1>1, <2>2, StartDeleteType
  <2>3. CASE /\ w' = [Idle EXCEPT !.pc = IF o.finalizer THEN "parent" ELSE "finalizer",
                                  !.route = r, !.obj = o]
             /\ UNCHANGED abandoned
    <3> DEFINE pc == IF o.finalizer THEN "parent" ELSE "finalizer"
    <3>1. pc \in PCs /\ pc \notin ItemPCs \union {"deleteNodePorts"}
      BY DEF PCs, ItemPCs
    <3>2. w' = [Idle EXCEPT !.pc = pc, !.route = r, !.obj = o]
      BY <2>3
    <3> HIDE DEF pc
    <3>4. w' \in Worker /\ w'.pc = pc /\ w'.route = r /\ w'.parent = 1 /\ w'.item = 1 /\ w'.obj = o
      BY <1>1, <3>1, <3>2, IdleType DEF Worker, Idle
    <3>3. WorkerOK'
      BY <1>1, <3>1, <3>4, AtStart
    <3> QED
      BY <2>3, <3>3 DEF TypeOK
  <2> QED
    BY <2>1, <2>2, <2>3 DEF Reconcile, o
<1>3. QueuesOK'
  BY DEF Reconcile, QueuesOK, TypeOK
<1>4. CloudTypeOK' /\ NodePortTypeOK' /\ WorldOK'
  BY TypeParts, CloudUnchanged, NodePortUnchanged, WorldUnchanged DEF Reconcile
<1>5. ObjectsOK' /\ CountersOK'
  BY DEF Reconcile, TypeOK, ObjectsOK, CountersOK
<1> QED
  BY <1>2, <1>3, <1>4, <1>5, TypePartsNext

\* A call to the API server or the cloud: what it may touch, and what it leaves.
LEMMA CallType ==
  ASSUME TypeOK, CloudTypeOK', NodePortTypeOK', ObjectsOK', WorkerOK', QueuesOK',
         abandoned' \subseteq ServiceIDs, UNCHANGED <<worldVars, moves>>,
         Answered \/ Fault \/ CloudFault
  PROVE  TypeOK'
<1>1. WorldOK' /\ CountersOK'
  BY TypeParts, WorldUnchanged, CountersType
<1> QED
  BY <1>1, TypePartsNext

\* The finalizer's Update (:55-61).
LEMMA AddFinalizerType ==
  ASSUME TypeOK, AddFinalizer
  PROVE  TypeOK'
<1> DEFINE o == [w.obj EXCEPT !.finalizer = TRUE]
<1>1. /\ w \in Worker /\ w.obj \in HTTPRoute /\ w.pc = "finalizer" /\ w.route \in Routes
      /\ w.parent \in DOMAIN ParentRefs[w.route]
  BY DEF TypeOK, Worker, AddFinalizer
<1>2. o \in HTTPRoute
  BY <1>1 DEF HTTPRoute
<1> HIDE DEF o
<1>3. ObjectsOK'
  BY <1>1, <1>2, MaybePutType DEF AddFinalizer, o
<1>4. WorkerOK' /\ QueuesOK'
  <2>1. CASE w' = [w EXCEPT !.obj = Decoded(o, MetaPut(o)), !.pc = "parent"] /\ UNCHANGED delayed
    <3>1. Decoded(o, MetaPut(o)) \in HTTPRoute
      BY <1>1, <1>2, MetaPutType, DecodedType
    <3>2. w' \in Worker /\ w'.pc = "parent" /\ w'.route = w.route /\ w'.parent = w.parent
      BY <1>1, <2>1, <3>1 DEF Worker, PCs
    <3> QED
      BY <1>1, <2>1, <3>2 DEF WorkerOK, ItemPCs, QueuesOK, TypeOK, AddFinalizer
  <2>2. CASE Requeue
    BY <1>1, <2>2, AfterRequeue DEF AddFinalizer
  <2> QED
    BY <2>1, <2>2 DEF AddFinalizer, o
<1>5. CloudTypeOK' /\ NodePortTypeOK'
  BY TypeParts, CloudUnchanged, NodePortUnchanged DEF AddFinalizer
<1> QED
  BY <1>3, <1>4, <1>5, CallType DEF AddFinalizer, TypeOK

\* The start of reconcileParent enters a non-empty spec at its first item (:83-133).
LEMMA ResolveParentType ==
  ASSUME TypeOK, ResolveParent
  PROVE  TypeOK'
<1>1. /\ w \in Worker /\ w.obj \in HTTPRoute /\ w.pc = "parent" /\ w.route \in Routes
      /\ w.parent \in DOMAIN ParentRefs[w.route]
  BY DEF TypeOK, Worker, ResolveParent
<1>2. WorkerOK'
  <2>1. CASE Fail
    BY <1>1, <2>1, AfterFail
  <2> DEFINE pc == IF w.obj.spec = <<>> THEN "save" ELSE "nodeport"
  <2> DEFINE header == IF secret[Parent] THEN Parent ELSE None
  <2>2. CASE w' = [w EXCEPT !.pc = pc, !.item = 1, !.sids = w.obj.svcIDs,
                            !.rids = w.obj.rtIDs, !.header = header]
    <3>1. pc \in {"save", "nodeport"} /\ (pc = "nodeport" => 1 \in DOMAIN w.obj.spec)
      BY <1>1, SpecType
    <3>2. header \in Gateways \union {None}
      BY <1>1, ParentType
    <3>3. /\ w.obj.svcIDs \in [Backends -> ServiceIDs \union {None}]
          /\ w.obj.rtIDs \in [Backends \X RuleIdx -> RouteIDs \union {None}]
      BY <1>1 DEF HTTPRoute
    <3> HIDE DEF pc, header
    <3>4. /\ w' \in Worker /\ w'.pc = pc /\ w'.route = w.route /\ w'.parent = w.parent
          /\ w'.item = 1 /\ w'.obj = w.obj
      BY <1>1, <2>2, <3>1, <3>2, <3>3 DEF Worker, PCs, ItemPCs
    <3> QED
      BY <1>1, <3>1, <3>4 DEF WorkerOK, ItemPCs
  <2> QED
    BY <2>1, <2>2 DEF ResolveParent
<1>3. CloudTypeOK' /\ NodePortTypeOK' /\ WorldOK'
  BY TypeParts, CloudUnchanged, NodePortUnchanged, WorldUnchanged DEF ResolveParent
<1>4. ObjectsOK' /\ QueuesOK' /\ CountersOK' /\ abandoned' \subseteq ServiceIDs
  BY DEF ResolveParent, TypeOK, ObjectsOK, QueuesOK, CountersOK
<1> QED
  BY <1>2, <1>3, <1>4, TypePartsNext

\* A node port read from the cache is a number.
LEMMA CachedPortType ==
  ASSUME TypeOK, NEW b \in Backends
  PROVE  npCache[b].nodePort \in Nat
<1>1. npCache[b] \in NodePortService
  BY DEF TypeOK, NodePortTypeOK
<1>2. npCache[b].nodePort \in NodePorts \union {0}
  BY <1>1 DEF NodePortService
<1>3. NodePorts \union {0} \subseteq Nat
  BY CloudAssumption
<1> QED
  BY <1>2, <1>3

\* The address a pass computes for a backend.
LEMMA WithHostType ==
  ASSUME TypeOK, w.pc \in {"nodeport", "reread"}, NEW port \in Nat, w' = WithHost(port)
  PROVE  WorkerOK'
<1>1. w \in Worker /\ nodeIP \in IPs \union {None}
  BY DEF TypeOK, NodePortTypeOK
<1> DEFINE pc == IF CurrentService = None THEN "createService" ELSE "getService"
<1> DEFINE host == [ip |-> nodeIP, port |-> port]
<1>2. pc \in ItemPCs /\ host \in Upstream
  BY <1>1 DEF ItemPCs, Upstream
<1>3. w' = [w EXCEPT !.host = host, !.pc = pc]
  BY DEF WithHost
<1> HIDE DEF pc, host
<1>4. /\ w' \in Worker /\ w'.pc = pc /\ w'.route = w.route /\ w'.parent = w.parent
      /\ w'.item = w.item /\ w'.obj = w.obj
  BY <1>1, <1>2, <1>3 DEF Worker, PCs, ItemPCs
<1> QED
  BY <1>2, <1>4 DEF TypeOK, WorkerOK, ItemPCs

\* A backendRef is passed over.
LEMMA SkipBackendRefType ==
  ASSUME TypeOK, SkipBackendRef
  PROVE  TypeOK'
<1>1. WorkerOK'
  BY AtNextItem DEF SkipBackendRef, ItemPCs
<1>2. CloudTypeOK' /\ NodePortTypeOK' /\ WorldOK'
  BY TypeParts, CloudUnchanged, NodePortUnchanged, WorldUnchanged DEF SkipBackendRef
<1>3. ObjectsOK' /\ QueuesOK' /\ CountersOK' /\ abandoned' \subseteq ServiceIDs
  BY DEF SkipBackendRef, TypeOK, ObjectsOK, QueuesOK, CountersOK
<1> QED
  BY <1>1, <1>2, <1>3, TypePartsNext

\* The look-up or creation of a NodePort Service (nodeport.go:32-100).
LEMMA EnsureNodePortType ==
  ASSUME TypeOK, EnsureNodePort
  PROVE  TypeOK'
<1>1. w.pc = "nodeport" /\ w.route \in Routes
  BY DEF TypeOK, EnsureNodePort
<1>2. ServiceKey \in Backends /\ CurrentItem.port \in Ports
  BY <1>1, CurrentItemType DEF ItemPCs, Item
<1>3. npCache[ServiceKey].nodePort \in Nat
  BY <1>2, CachedPortType
<1>4. WorkerOK'
  <2>1. CASE Fail
    BY <1>1, <2>1, AfterFail
  <2>2. CASE w' = WithHost(npCache[ServiceKey].nodePort)
    BY <1>1, <1>3, <2>2, WithHostType
  <2>3. CASE w' = [w EXCEPT !.pc = "reread"]
    BY <1>1, <2>3, AtNextCall DEF ItemPCs
  <2> QED
    BY <2>1, <2>2, <2>3 DEF EnsureNodePort
<1>5. NodePortTypeOK'
  <2>1. CASE UNCHANGED nodePortVars
    BY <2>1, TypeParts, NodePortUnchanged
  <2>2. CASE CreateNodePort(ServiceKey, w.route, CurrentItem.port)
    BY <1>1, <1>2, <2>2, TypeParts, CreateNodePortType
  <2> QED
    BY <2>1, <2>2 DEF EnsureNodePort
<1>6. CloudTypeOK' /\ ObjectsOK' /\ QueuesOK'
  BY TypeParts, CloudUnchanged DEF EnsureNodePort, ObjectsOK, QueuesOK
<1> QED
  BY <1>4, <1>5, <1>6, CallType DEF EnsureNodePort, TypeOK

\* The re-read after a creation (nodeport.go:102-124).
LEMMA RereadNodePortType ==
  ASSUME TypeOK, RereadNodePort
  PROVE  TypeOK'
<1>1. w.pc = "reread"
  BY DEF RereadNodePort
<1>2. CachedNodePort(ServiceKey, CurrentItem.port) \in Nat
  BY <1>1, CurrentItemType, CachedPortType DEF CachedNodePort, ItemPCs
<1>3. WorkerOK'
  BY <1>1, <1>2, AfterFail, WithHostType DEF RereadNodePort
<1>4. CloudTypeOK' /\ NodePortTypeOK' /\ WorldOK'
  BY TypeParts, CloudUnchanged, NodePortUnchanged, WorldUnchanged DEF RereadNodePort
<1>5. ObjectsOK' /\ QueuesOK' /\ CountersOK' /\ abandoned' \subseteq ServiceIDs
  BY DEF RereadNodePort, TypeOK, ObjectsOK, QueuesOK, CountersOK
<1> QED
  BY <1>3, <1>4, <1>5, TypePartsNext

\* The facts the calls on the cloud start from.
LEMMA InCall ==
  ASSUME TypeOK, w.pc \in ItemPCs
  PROVE  /\ w \in Worker /\ w.obj \in HTTPRoute /\ w.pc # "idle" /\ w.route \in Routes
         /\ CloudTypeOK /\ NodePortTypeOK
         /\ ServiceKey \in Backends /\ RuleKey \in Backends \X RuleIdx
         /\ CurrentItem \in Item /\ RouteName \in Routes \X RuleIdx
         /\ w.host \in Upstream
<1>1. w \in Worker /\ w.pc # "idle"
  BY DEF TypeOK, ItemPCs
<1> QED
  BY <1>1, CurrentItemType DEF TypeOK, Worker

\* A call that writes nothing but the cloud, the worker and the ghost.
LEMMA CloudCallType ==
  ASSUME TypeOK, CloudTypeOK', WorkerOK', abandoned' \subseteq ServiceIDs,
         UNCHANGED <<nodePortVars, hr, hrCache, worldVars, queue, delayed, moves>>,
         Answered \/ CloudFault
  PROVE  TypeOK'
<1>1. NodePortTypeOK'
  BY TypeParts, NodePortUnchanged
<1>2. ObjectsOK' /\ QueuesOK'
  BY TypeParts DEF ObjectsOK, QueuesOK
<1> QED
  BY <1>1, <1>2, CallType

\* GetService and what its answer leads to (:184-214).
LEMMA GetServiceCallType ==
  ASSUME TypeOK, GetServiceCall
  PROVE  TypeOK'
<1>1. w.pc = "getService" /\ w.pc \in ItemPCs
  BY DEF GetServiceCall, ItemPCs
<1>2. WorkerOK'
  <2>1. CASE Fail
    BY <1>1, <2>1, AfterFail
  <2> DEFINE pc == IF HostChanged THEN "updateService" ELSE "createRoute"
  <2>2. CASE w' = [w EXCEPT !.pc = pc]
    <3>1. pc \in ItemPCs
      BY DEF ItemPCs
    <3> QED
      BY <1>1, <2>2, <3>1, AtNextCall
  <2>3. CASE w' = [w EXCEPT !.pc = "createService"]
    BY <1>1, <2>3, AtNextCall DEF ItemPCs
  <2> QED
    BY <2>1, <2>2, <2>3 DEF GetServiceCall, LookupFails
<1>3. CloudTypeOK'
  BY TypeParts, CloudUnchanged DEF GetServiceCall
<1> QED
  BY <1>2, <1>3, CloudCallType DEF GetServiceCall, TypeOK

\* UpdateService (:196-208).
LEMMA UpdateServiceCallType ==
  ASSUME TypeOK, UpdateServiceCall
  PROVE  TypeOK'
<1>1. w.pc = "updateService" /\ w.pc \in ItemPCs
  BY DEF UpdateServiceCall, ItemPCs
<1>2. WorkerOK'
  <2>1. CASE Fail
    BY <1>1, <2>1, AfterFail
  <2>2. CASE w' = [w EXCEPT !.pc = "createRoute"]
    BY <1>1, <2>2, AtNextCall DEF ItemPCs
  <2> QED
    BY <2>1, <2>2 DEF UpdateServiceCall
<1>3. CloudTypeOK'
  BY <1>1, InCall, CloudUnchanged, UpdateServiceType DEF UpdateServiceCall
<1> QED
  BY <1>2, <1>3, CloudCallType DEF UpdateServiceCall, TypeOK

\* CreateService puts an identifier of a service in memory (:214-230).
LEMMA CreateServiceCallType ==
  ASSUME TypeOK, CreateServiceCall
  PROVE  TypeOK'
<1> DEFINE s == CHOOSE x \in FreshServices : TRUE
<1> DEFINE created == CreateService(s, <<w.route, ServiceKey>>, w.host)
<1> HIDE DEF s
<1>1. w.pc = "createService" /\ w.pc \in ItemPCs
  BY DEF CreateServiceCall, ItemPCs
<1>2. created => CloudTypeOK' /\ s \in ServiceIDs
  <2>1. <<w.route, ServiceKey>> \in Routes \X Backends /\ w.host \in Upstream /\ CloudTypeOK
    BY <1>1, InCall
  <2> QED
    BY <2>1, CreateServiceType
<1> HIDE DEF created
<1>3. CASE Answered /\ created /\ w' = [w EXCEPT !.sids[ServiceKey] = s, !.pc = "createRoute"]
           /\ UNCHANGED abandoned
  <2>1. w' \in Worker /\ w'.pc = "createRoute" /\ w'.route = w.route /\ w'.parent = w.parent
        /\ w'.item = w.item /\ w'.obj = w.obj
    <3>1. [w.sids EXCEPT ![ServiceKey] = s] \in [Backends -> ServiceIDs \union {None}]
      BY <1>1, <1>2, <1>3, InCall DEF Worker
    <3>2. w' = [w EXCEPT !.sids = [w.sids EXCEPT ![ServiceKey] = s], !.pc = "createRoute"]
      BY <1>3
    <3> QED
      BY <1>1, InCall, <3>1, <3>2 DEF Worker, PCs, ItemPCs
  <2>2. WorkerOK'
    BY <1>1, <2>1 DEF TypeOK, WorkerOK, ItemPCs
  <2> QED
    BY <1>2, <1>3, <2>2, CloudCallType DEF CreateServiceCall, TypeOK
<1>4. CASE Fail /\ (Answered \/ CloudFault) /\ UNCHANGED <<cloudVars, abandoned>>
  <2>1. CloudTypeOK' /\ WorkerOK'
    BY <1>1, <1>4, AfterFail, CloudUnchanged, TypeParts
  <2> QED
    BY <1>4, <2>1, CloudCallType DEF CreateServiceCall, TypeOK
<1>5. CASE Fail /\ CloudFault /\ created /\ abandoned' = abandoned \union {s}
  <2>1. WorkerOK'
    BY <1>1, <1>5, AfterFail
  <2> QED
    BY <1>2, <1>5, <2>1, CloudCallType DEF CreateServiceCall, TypeOK
<1> QED
  BY <1>3, <1>4, <1>5 DEF CreateServiceCall, s, created

\* The worker has got a route from the cloud.
LEMMA AfterGotRoute ==
  ASSUME TypeOK, w.pc \in ItemPCs, NEW t \in RouteIDs, GotRoute(t)
  PROVE  WorkerOK'
<1>1. [w.rids EXCEPT ![RuleKey] = t] \in [Backends \X RuleIdx -> RouteIDs \union {None}]
  BY InCall DEF Worker
<1>2. w' = [w EXCEPT !.rids = [w.rids EXCEPT ![RuleKey] = t], !.pc = "reqTransform"]
  BY DEF GotRoute
<1>3. w' \in Worker /\ w'.pc = "reqTransform" /\ w'.route = w.route /\ w'.parent = w.parent
      /\ w'.item = w.item /\ w'.obj = w.obj
  BY InCall, <1>1, <1>2 DEF Worker, PCs, ItemPCs
<1> QED
  BY <1>3 DEF TypeOK, WorkerOK, ItemPCs

\* CreateRoute puts an identifier of a route in memory (:232-262).
LEMMA CreateRouteCallType ==
  ASSUME TypeOK, CreateRouteCall
  PROVE  TypeOK'
<1> DEFINE s == CurrentService
<1> DEFINE t == CHOOSE x \in FreshRoutes : TRUE
<1> DEFINE created == CreateRoute(t, s, RouteName, CurrentItem.path)
<1> HIDE DEF s, t
<1>1. w.pc = "createRoute" /\ w.pc \in ItemPCs
  BY DEF CreateRouteCall, ItemPCs
<1>2. created => CloudTypeOK' /\ t \in RouteIDs
  <2>1. RouteName \in Routes \X RuleIdx /\ CurrentItem.path \in Paths /\ CloudTypeOK
    BY <1>1, InCall DEF Item
  <2> QED
    BY <2>1, CreateRouteType
<1> HIDE DEF created
<1>3. CASE Answered /\ created /\ GotRoute(t)
  <2>1. WorkerOK'
    BY <1>1, <1>2, <1>3, AfterGotRoute
  <2> QED
    BY <1>2, <1>3, <2>1, CloudCallType DEF CreateRouteCall, TypeOK
<1>4. CASE Answered /\ OnConflict /\ UNCHANGED cloudVars
  <2>1. CloudTypeOK' /\ WorkerOK'
    BY <1>1, <1>4, AtNextCall, CloudUnchanged, TypeParts DEF OnConflict, ItemPCs
  <2> QED
    BY <1>4, <2>1, CloudCallType DEF CreateRouteCall, TypeOK
<1>5. CASE Fail /\ (Answered \/ CloudFault) /\ (UNCHANGED cloudVars \/ created)
  <2>1. CloudTypeOK' /\ WorkerOK'
    BY <1>1, <1>2, <1>5, AfterFail, CloudUnchanged, TypeParts
  <2> QED
    BY <1>5, <2>1, CloudCallType DEF CreateRouteCall, TypeOK
<1> QED
  BY <1>3, <1>4, <1>5 DEF CreateRouteCall, s, t, created

\* ListRoutes after a 409 (:262-278).
LEMMA ListRoutesCallType ==
  ASSUME TypeOK, ListRoutesCall
  PROVE  TypeOK'
<1>1. w.pc = "listRoutes" /\ w.pc \in ItemPCs
  BY DEF ListRoutesCall, ItemPCs
<1>2. WorkerOK'
  <2>1. CASE Fail
    BY <1>1, <2>1, AfterFail
  <2>2. CASE \E t \in RoutesOn(CurrentService) : GotRoute(t)
    BY <1>1, <2>2, AfterGotRoute DEF RoutesOn
  <2> QED
    BY <2>1, <2>2 DEF ListRoutesCall
<1>3. CloudTypeOK'
  BY TypeParts, CloudUnchanged DEF ListRoutesCall
<1> QED
  BY <1>2, <1>3, CloudCallType DEF ListRoutesCall, TypeOK

\* The request transform, and the step to the next backendRef (:280-323).
LEMMA SetRequestTransformCallType ==
  ASSUME TypeOK, SetRequestTransformCall
  PROVE  TypeOK'
<1> DEFINE transform == [header |-> w.header, filter |-> CurrentItem.req]
<1>1. w.pc = "reqTransform" /\ w.pc \in ItemPCs
  BY DEF SetRequestTransformCall, ItemPCs
<1>2. transform \in RequestTransform
  BY <1>1, InCall DEF RequestTransform, Worker, Item
<1> HIDE DEF transform
<1>3. CloudTypeOK'
  BY <1>1, <1>2, InCall, CloudUnchanged, SetRequestTransformType
     DEF SetRequestTransformCall, transform
<1>4. WorkerOK'
  <2>1. CASE w' = NextItem
    BY <1>1, <2>1, AtNextItem
  <2>2. CASE w' = [w EXCEPT !.pc = "respTransform"]
    BY <1>1, <2>2, AtNextCall DEF ItemPCs
  <2> QED
    BY <2>1, <2>2 DEF SetRequestTransformCall
<1> QED
  BY <1>3, <1>4, CloudCallType DEF SetRequestTransformCall, TypeOK

\* The response transform, and the step to the next backendRef (:325-363).
LEMMA SetResponseTransformCallType ==
  ASSUME TypeOK, SetResponseTransformCall
  PROVE  TypeOK'
<1> DEFINE filter == CurrentItem.resp
<1>1. w.pc = "respTransform" /\ w.pc \in ItemPCs
  BY DEF SetResponseTransformCall, ItemPCs
<1>2. filter \in Filters \union {None} /\ CloudTypeOK
  BY <1>1, InCall DEF Item
<1>3. WorkerOK'
  BY <1>1, AtNextItem DEF SetResponseTransformCall
<1> HIDE DEF filter
<1>4. CloudTypeOK'
  <2>1. CASE UNCHANGED cloudVars
    BY <1>2, <2>1, CloudUnchanged
  <2>2. CASE SetResponseTransform(CurrentService, w.rids[RuleKey], filter)
    BY <1>2, <2>2, SetResponseTransformType
  <2> QED
    BY <2>1, <2>2 DEF SetResponseTransformCall, filter
<1> QED
  BY <1>3, <1>4, CloudCallType DEF SetResponseTransformCall, TypeOK

\* A call that writes an HTTPRoute: what the pass leaves alone keeps its type.
LEMMA ObjectCallType ==
  ASSUME TypeOK, ObjectsOK', WorkerOK', QueuesOK', abandoned' \subseteq ServiceIDs,
         UNCHANGED <<cloudVars, nodePortVars, worldVars, moves>>, Answered \/ Fault
  PROVE  TypeOK'
<1>1. CloudTypeOK' /\ NodePortTypeOK'
  BY TypeParts, CloudUnchanged, NodePortUnchanged
<1> QED
  BY <1>1, CallType

\* The facts a call for a pass's route starts from.
LEMMA InPass ==
  ASSUME TypeOK, w.pc # "idle"
  PROVE  /\ w \in Worker /\ w.obj \in HTTPRoute /\ w.route \in Routes
         /\ w.parent \in DOMAIN ParentRefs[w.route]
         /\ Len(ParentRefs[w.route]) \in Nat /\ w.parent \in 1 .. Len(ParentRefs[w.route])
         /\ InHand \subseteq ServiceIDs
<1>1. /\ w \in Worker /\ w.obj \in HTTPRoute /\ w.route \in Routes
      /\ w.parent \in DOMAIN ParentRefs[w.route]
  BY DEF TypeOK, Worker
<1>2. ParentRefs[w.route] \in Seq(Gateways)
  BY <1>1, ReconcilerAssumption
<1>3. InHand \subseteq ServiceIDs
  BY <1>1 DEF InHand, Worker
<1> QED
  BY <1>1, <1>2, <1>3

\* Saving the annotations moves to a parent that exists, or to the status (:172-182).
LEMMA SaveAnnotationsType ==
  ASSUME TypeOK, SaveAnnotations
  PROVE  TypeOK'
<1> DEFINE o == [w.obj EXCEPT !.svcIDs = w.sids, !.rtIDs = w.rids]
<1> DEFINE saved == WithCondition(Decoded(o, MetaPut(o)), "True")
<1> DEFINE pc == IF LastParent THEN "status" ELSE "parent"
<1> DEFINE parent == IF LastParent THEN w.parent ELSE w.parent + 1
<1>1. w.pc = "save" /\ w.pc # "idle"
  BY DEF SaveAnnotations
<1>2. o \in HTTPRoute
  BY <1>1, InPass DEF HTTPRoute, Worker
<1> HIDE DEF o
<1>3. saved \in HTTPRoute
  <2>1. MetaPut(o) \in HTTPRoute
    BY <1>1, <1>2, InPass, MetaPutType
  <2>2. Decoded(o, MetaPut(o)) \in HTTPRoute
    BY <1>2, <2>1, DecodedType
  <2> QED
    BY <1>1, <2>2, WithConditionType
<1>4. pc \in {"status", "parent"} /\ parent \in Nat /\ parent \in DOMAIN ParentRefs[w.route]
  BY <1>1, InPass DEF LastParent
<1>5. WorkerOK'
  <2>1. CASE Fail
    BY <1>1, <2>1, AfterFail
  <2>2. CASE w' = [w EXCEPT !.obj = saved, !.pc = pc, !.parent = parent]
    <3> HIDE DEF saved, pc, parent
    <3>1. /\ w' \in Worker /\ w'.pc = pc /\ w'.route = w.route /\ w'.parent = parent
      BY <1>1, <1>3, <1>4, <2>2, InPass DEF Worker, PCs
    <3> QED
      BY <1>1, <1>4, <3>1, InPass DEF WorkerOK, ItemPCs
  <2> QED
    BY <2>1, <2>2 DEF SaveAnnotations, o
<1>6. ObjectsOK'
  BY <1>1, <1>2, InPass, MaybePutType DEF SaveAnnotations, o
<1> QED
  BY <1>5, <1>6, ObjectCallType DEF SaveAnnotations, TypeOK, QueuesOK

\* The status update of a pass that succeeded (:71-81).
LEMMA WriteStatusType ==
  ASSUME TypeOK, WriteStatus
  PROVE  TypeOK'
<1>1. w.pc # "idle" /\ w.obj \in HTTPRoute /\ w.route \in Routes
  BY InPass DEF WriteStatus
<1>2. WorkerOK' /\ QueuesOK'
  BY <1>1, AtRest, AfterRequeue DEF WriteStatus, TypeOK, QueuesOK
<1>3. ObjectsOK'
  BY <1>1, MaybePutType DEF WriteStatus
<1> QED
  BY <1>2, <1>3, ObjectCallType DEF WriteStatus, TypeOK

\* The status update of a pass that failed (:65-70).
LEMMA ReportErrorType ==
  ASSUME TypeOK, ReportError
  PROVE  TypeOK'
<1>1. w.pc # "idle" /\ w.obj \in HTTPRoute /\ w.route \in Routes /\ InHand \subseteq ServiceIDs
  BY InPass DEF ReportError
<1>2. WorkerOK' /\ QueuesOK'
  BY <1>1, AfterRequeue DEF ReportError
<1>3. ObjectsOK'
  BY <1>1, MaybePutType DEF ReportError
<1>4. abandoned' \subseteq ServiceIDs
  BY <1>1 DEF ReportError, TypeOK
<1> QED
  BY <1>2, <1>3, <1>4, ObjectCallType DEF ReportError

\* The finalizer's removal (:409-416).
LEMMA RemoveFinalizerType ==
  ASSUME TypeOK, RemoveFinalizer
  PROVE  TypeOK'
<1> DEFINE o == WithoutFinalizer(w.obj)
<1>1. w.pc # "idle" /\ w.obj \in HTTPRoute /\ w.route \in Routes
  BY InPass DEF RemoveFinalizer
<1>2. o \in HTTPRoute
  BY <1>1 DEF WithoutFinalizer, HTTPRoute
<1> HIDE DEF o
<1>3. WorkerOK' /\ QueuesOK'
  BY <1>1, AtRest, AfterRequeue DEF RemoveFinalizer, TypeOK, QueuesOK
<1>4. ObjectsOK'
  BY <1>1, <1>2, MaybePutType DEF RemoveFinalizer, o
<1> QED
  BY <1>3, <1>4, ObjectCallType DEF RemoveFinalizer, TypeOK

\* Deletion of the recorded routes (:376-388).
LEMMA DeleteRoutesType ==
  ASSUME TypeOK, DeleteRoutes
  PROVE  TypeOK'
<1>1. w \in Worker /\ w.pc = "deleteRoutes" /\ w.pc # "idle" /\ CloudTypeOK
  BY DEF DeleteRoutes, TypeOK
<1>2. w' \in Worker /\ w'.pc \in {"deleteRoutes", "deleteServices"}
      /\ w'.route = w.route /\ w'.parent = w.parent
  <2>1. CASE \E p \in w.pairs : w' = [w EXCEPT !.pairs = @ \ {p}]
    BY <1>1, <2>1 DEF Worker, PCs
  <2>2. CASE w' = [w EXCEPT !.pc = "deleteServices"]
    BY <1>1, <2>2 DEF Worker, PCs
  <2> QED
    BY <2>1, <2>2 DEF DeleteRoutes
<1>3. WorkerOK'
  BY <1>1, <1>2, InPass DEF WorkerOK, ItemPCs
<1>4. CloudTypeOK'
  <2>1. CASE UNCHANGED cloudVars
    BY <1>1, <2>1, CloudUnchanged
  <2>2. CASE \E p \in w.pairs : DeleteRoute(p[1], p[2])
    BY <1>1, <2>2, DeleteRouteType
  <2> QED
    BY <2>1, <2>2 DEF DeleteRoutes
<1> QED
  BY <1>3, <1>4, CloudCallType DEF DeleteRoutes, TypeOK

\* The first NodePort Service to delete is that of the spec's first backendRef.
LEMMA FirstNodePortType ==
  ASSUME NEW o \in HTTPRoute
  PROVE  /\ FirstNodePortStep(o) \in {"removeFinalizer", "deleteNodePorts"}
         /\ FirstNodePortStep(o) = "deleteNodePorts" => o.spec # <<>>
  BY DEF FirstNodePortStep

\* Deletion of the recorded services, from the first item of the spec on (:389-397).
LEMMA DeleteServicesType ==
  ASSUME TypeOK, w.pc = "deleteServices" => w.item = 1, DeleteServices
  PROVE  TypeOK'
<1>1. w \in Worker /\ w.pc = "deleteServices" /\ w.pc # "idle" /\ CloudTypeOK
      /\ abandoned \subseteq ServiceIDs
  BY DEF DeleteServices, TypeOK
<1>2. WorkerOK'
  <2>1. CASE \E s \in w.doomed : w' = [w EXCEPT !.doomed = @ \ {s}]
    <3>1. w' \in Worker /\ w'.pc = "deleteServices" /\ w'.route = w.route /\ w'.parent = w.parent
      BY <1>1, <2>1 DEF Worker
    <3> QED
      BY <1>1, <3>1, InPass DEF WorkerOK, ItemPCs
  <2> DEFINE pc == FirstNodePortStep(w.obj)
  <2>2. CASE w' = [w EXCEPT !.pc = pc]
    <3>1. /\ pc \in {"removeFinalizer", "deleteNodePorts"}
          /\ pc = "deleteNodePorts" => 1 \in DOMAIN w.obj.spec
      BY <1>1, InPass, FirstNodePortType, SpecType
    <3> HIDE DEF pc
    <3>2. /\ w' \in Worker /\ w'.pc = pc /\ w'.route = w.route /\ w'.parent = w.parent
          /\ w'.item = 1 /\ w'.obj = w.obj
      BY <1>1, <2>2, <3>1 DEF Worker, PCs
    <3> QED
      BY <1>1, <3>1, <3>2, InPass DEF WorkerOK, ItemPCs
  <2> QED
    BY <2>1, <2>2 DEF DeleteServices
<1>3. CloudTypeOK' /\ abandoned' \subseteq ServiceIDs
  <2>1. w.doomed \subseteq ServiceIDs
    BY <1>1 DEF Worker
  <2>2. CASE UNCHANGED cloudVars
    BY <1>1, <2>1, <2>2, CloudUnchanged DEF DeleteServices
  <2>3. CASE \E s \in w.doomed : DeleteService(s)
    BY <1>1, <2>1, <2>3, EndServicesType DEF DeleteService, DeleteServices
  <2> QED
    BY <2>2, <2>3 DEF DeleteServices
<1> QED
  BY <1>2, <1>3, CloudCallType DEF DeleteServices

\* Deletion of NodePort Services stays inside the spec (:399-407).
LEMMA DeleteNodePortsType ==
  ASSUME TypeOK, DeleteNodePorts
  PROVE  TypeOK'
<1>1. w.pc = "deleteNodePorts" /\ w.pc # "idle" /\ NodePortTypeOK /\ ServiceKey \in Backends
  BY CurrentItemType DEF DeleteNodePorts, TypeOK
<1>2. /\ w.item \in 1 .. Len(w.obj.spec) /\ Len(w.obj.spec) \in Nat
      /\ DOMAIN w.obj.spec = 1 .. Len(w.obj.spec)
  BY <1>1, InPass, SpecType DEF TypeOK
<1>3. WorkerOK'
  <2>1. CASE w.item < Len(w.obj.spec) /\ w' = [w EXCEPT !.item = @ + 1]
    <3>1. w.item + 1 \in Nat /\ w.item + 1 \in DOMAIN w.obj.spec
      BY <1>2, <2>1
    <3>2. /\ w' \in Worker /\ w'.pc = w.pc /\ w'.route = w.route /\ w'.parent = w.parent
          /\ w'.item = w.item + 1 /\ w'.obj = w.obj
      BY <1>1, <2>1, <3>1, InPass DEF Worker
    <3> QED
      BY <1>1, <3>1, <3>2, InPass DEF WorkerOK
  <2>2. CASE w' = [w EXCEPT !.pc = "removeFinalizer"]
    <3>1. /\ w' \in Worker /\ w'.pc = "removeFinalizer" /\ w'.route = w.route
          /\ w'.parent = w.parent
      BY <1>1, <2>2, InPass DEF Worker, PCs
    <3> QED
      BY <1>1, <3>1, InPass DEF WorkerOK, ItemPCs
  <2> QED
    BY <2>1, <2>2 DEF DeleteNodePorts
<1>4. NodePortTypeOK'
  BY <1>1, NodePortUnchanged, DeleteNodePortType DEF DeleteNodePorts
<1>5. CloudTypeOK' /\ ObjectsOK' /\ QueuesOK' /\ abandoned' \subseteq ServiceIDs
  BY TypeParts, CloudUnchanged DEF DeleteNodePorts, ObjectsOK, QueuesOK
<1> QED
  BY <1>3, <1>4, <1>5, CallType DEF DeleteNodePorts

----------------------------------------------------------------------------
(* ... and by informers, the garbage collector, the process and the users.   *)

\* What moves no worker: an event, a delivery, a user.
LEMMA EventType ==
  ASSUME TypeOK, CloudTypeOK', NodePortTypeOK', ObjectsOK', WorldOK', QueuesOK', CountersOK',
         UNCHANGED <<w, abandoned>>
  PROVE  TypeOK'
<1>1. WorkerOK'
  BY TypeParts DEF WorkerOK
<1> QED
  BY <1>1, TypeParts, TypePartsNext

\* A watch event of a route.
LEMMA SyncRouteType ==
  ASSUME TypeOK, NEW r \in Routes, SyncRoute(r)
  PROVE  TypeOK'
<1>1. ObjectsOK' /\ QueuesOK' /\ CountersOK'
  BY DEF SyncRoute, TypeOK, ObjectsOK, QueuesOK, CountersOK
<1>2. CloudTypeOK' /\ NodePortTypeOK' /\ WorldOK'
  BY TypeParts, CloudUnchanged, NodePortUnchanged, WorldUnchanged DEF SyncRoute
<1> QED
  BY <1>1, <1>2, EventType DEF SyncRoute

\* The end of a retry's delay.
LEMMA RetryDueType ==
  ASSUME TypeOK, NEW r \in Routes, RetryDue(r)
  PROVE  TypeOK'
<1>1. ObjectsOK' /\ QueuesOK' /\ CountersOK'
  BY DEF RetryDue, TypeOK, ObjectsOK, QueuesOK, CountersOK
<1>2. CloudTypeOK' /\ NodePortTypeOK' /\ WorldOK'
  BY TypeParts, CloudUnchanged, NodePortUnchanged, WorldUnchanged DEF RetryDue
<1> QED
  BY <1>1, <1>2, EventType DEF RetryDue

\* A watch event of a NodePort Service.
LEMMA SyncNodePortType ==
  ASSUME TypeOK, NEW b \in Backends, SyncNodePort(b)
  PROVE  TypeOK'
<1>1. np[b] \in NodePortService /\ npCache[b] \in NodePortService
  BY DEF TypeOK, NodePortTypeOK
<1>2. {np[b].owner, npCache[b].owner} \ {None} \subseteq Routes
  BY <1>1 DEF NodePortService
<1>3. ObjectsOK' /\ QueuesOK' /\ CountersOK'
  BY <1>2 DEF SyncNodePort, TypeOK, ObjectsOK, QueuesOK, CountersOK
<1>4. NodePortTypeOK'
  BY <1>1 DEF SyncNodePort, TypeOK, NodePortTypeOK
<1>5. CloudTypeOK' /\ WorldOK'
  BY TypeParts, CloudUnchanged, WorldUnchanged DEF SyncNodePort
<1> QED
  BY <1>3, <1>4, <1>5, EventType DEF SyncNodePort

\* The garbage collector.
LEMMA GarbageCollectType ==
  ASSUME TypeOK, NEW b \in Backends, GarbageCollect(b)
  PROVE  TypeOK'
<1>1. NodePortTypeOK'
  BY TypeParts, DeleteNodePortType DEF GarbageCollect
<1>2. CloudTypeOK' /\ WorldOK'
  BY TypeParts, CloudUnchanged, WorldUnchanged DEF GarbageCollect
<1>3. ObjectsOK' /\ QueuesOK' /\ CountersOK'
  BY DEF GarbageCollect, TypeOK, ObjectsOK, QueuesOK, CountersOK
<1> QED
  BY <1>1, <1>2, <1>3, EventType DEF GarbageCollect

\* The periodic resync.
LEMMA ResyncType ==
  ASSUME TypeOK, Resync
  PROVE  TypeOK'
<1>1. ObjectsOK' /\ QueuesOK' /\ CountersOK'
  BY DEF Resync, TypeOK, ObjectsOK, QueuesOK, CountersOK
<1>2. CloudTypeOK' /\ NodePortTypeOK' /\ WorldOK'
  BY TypeParts, CloudUnchanged, NodePortUnchanged, WorldUnchanged DEF Resync
<1> QED
  BY <1>1, <1>2, EventType DEF Resync

\* A restart of the process.
LEMMA RestartType ==
  ASSUME TypeOK, Restart
  PROVE  TypeOK'
<1>1. WorkerOK'
  BY AtRest DEF Restart
<1>2. CloudTypeOK'
  BY TypeParts, CloudUnchanged, EndServicesType DEF Restart
<1>3. NodePortTypeOK' /\ ObjectsOK'
  BY DEF Restart, TypeOK, NodePortTypeOK, ObjectsOK
<1>4. QueuesOK' /\ CountersOK'
  BY DEF Restart, LiveRoutes, TypeOK, QueuesOK, CountersOK, Fault
<1>5. abandoned' \subseteq ServiceIDs
  BY DEF Restart, InHand, TypeOK, Worker
<1>6. WorldOK'
  BY TypeParts, WorldUnchanged DEF Restart
<1> QED
  BY <1>1, <1>2, <1>3, <1>4, <1>5, <1>6, TypePartsNext

\* A user creates a route.
LEMMA UserCreatesType ==
  ASSUME TypeOK, NEW r \in Routes, UserCreates(r)
  PROVE  TypeOK'
<1>1. hr[r] \in HTTPRoute
  BY DEF TypeOK
<1>2. PICK spec \in Specs :
         hr' = [hr EXCEPT ![r].phase = "live", ![r].gen = 1, ![r].rv = 1, ![r].spec = spec]
  BY DEF UserCreates
<1>3. [hr[r] EXCEPT !.phase = "live", !.gen = 1, !.rv = 1, !.spec = spec] \in HTTPRoute
  BY <1>1 DEF HTTPRoute
<1>4. ObjectsOK' /\ QueuesOK' /\ CountersOK'
  BY <1>2, <1>3 DEF UserCreates, TypeOK, ObjectsOK, QueuesOK, CountersOK
<1>5. CloudTypeOK' /\ NodePortTypeOK' /\ WorldOK'
  BY TypeParts, CloudUnchanged, NodePortUnchanged, WorldUnchanged DEF UserCreates
<1> QED
  BY <1>4, <1>5, EventType DEF UserCreates

\* A user edits a route.
LEMMA UserEditsType ==
  ASSUME TypeOK, NEW r \in Routes, UserEdits(r)
  PROVE  TypeOK'
<1>1. hr[r] \in HTTPRoute
  BY DEF TypeOK
<1>2. PICK spec \in Specs : hr' = [hr EXCEPT ![r].spec = spec, ![r].gen = @ + 1, ![r].rv = @ + 1]
  BY DEF UserEdits
<1> DEFINE gen == hr[r].gen + 1
<1> DEFINE rv == hr[r].rv + 1
<1>3. gen \in Nat /\ rv \in Nat
  BY <1>1 DEF HTTPRoute
<1>4. hr' = [hr EXCEPT ![r].spec = spec, ![r].gen = gen, ![r].rv = rv]
  BY <1>2
<1> HIDE DEF gen, rv
<1>5. [hr[r] EXCEPT !.spec = spec, !.gen = gen, !.rv = rv] \in HTTPRoute
  BY <1>1, <1>3 DEF HTTPRoute
<1>6. ObjectsOK' /\ QueuesOK' /\ CountersOK'
  <2>1. ObjectsOK'
    BY <1>4, <1>5 DEF UserEdits, TypeOK, ObjectsOK
  <2> QED
    BY <2>1 DEF UserEdits, Move, TypeOK, QueuesOK, CountersOK
<1>7. CloudTypeOK' /\ NodePortTypeOK' /\ WorldOK'
  BY TypeParts, CloudUnchanged, NodePortUnchanged, WorldUnchanged DEF UserEdits
<1> QED
  BY <1>6, <1>7, EventType DEF UserEdits

\* A user deletes a route.
LEMMA UserDeletesType ==
  ASSUME TypeOK, NEW r \in Routes, UserDeletes(r)
  PROVE  TypeOK'
<1> DEFINE gen == hr[r].gen + 1
<1> DEFINE marked == [hr[r] EXCEPT !.deleting = TRUE, !.gen = gen]
<1>1. hr[r] \in HTTPRoute
  BY DEF TypeOK
<1>2. marked \in HTTPRoute
  <2>1. gen \in Nat
    BY <1>1 DEF HTTPRoute
  <2> HIDE DEF gen
  <2> QED
    BY <1>1, <2>1 DEF HTTPRoute
<1>3. Bumped(hr[r], marked) \in HTTPRoute
  BY <1>1, <1>2, BumpedType
<1>4. hr' = [hr EXCEPT ![r] = Bumped(hr[r], marked)]
  BY DEF UserDeletes
<1> HIDE DEF marked
<1>5. ObjectsOK' /\ QueuesOK' /\ CountersOK'
  BY <1>3, <1>4 DEF UserDeletes, Move, TypeOK, ObjectsOK, QueuesOK, CountersOK
<1>6. CloudTypeOK' /\ NodePortTypeOK' /\ WorldOK'
  BY TypeParts, CloudUnchanged, NodePortUnchanged, WorldUnchanged DEF UserDeletes
<1> QED
  BY <1>5, <1>6, EventType DEF UserDeletes

\* A change of a Gateway, its secret or the client's inputs.
LEMMA WorldType ==
  ASSUME TypeOK, WorldOK', QueuesOK', CountersOK',
         UNCHANGED <<cloudVars, nodePortVars, hr, hrCache, w, abandoned>>
  PROVE  TypeOK'
<1>1. ObjectsOK'
  BY TypeParts DEF ObjectsOK
<1>2. CloudTypeOK' /\ NodePortTypeOK'
  BY TypeParts, CloudUnchanged, NodePortUnchanged
<1> QED
  BY <1>1, <1>2, EventType

\* What a Gateway event wakes is routes.
LEMMA RoutesOfType ==
  ASSUME NEW g \in Gateways
  PROVE  RoutesOf(g) \subseteq Routes
  BY ReconcilerAssumption DEF RoutesOf

\* A Gateway gets its subscription.
LEMMA GatewayReadyType ==
  ASSUME TypeOK, NEW g \in Gateways, GatewayReady(g)
  PROVE  TypeOK'
<1>1. WorldOK' /\ QueuesOK' /\ CountersOK'
  BY RoutesOfType DEF GatewayReady, TypeOK, WorldOK, QueuesOK, CountersOK,
         World!Annotated, World!WorldTypeOK
<1> QED
  BY <1>1, WorldType DEF GatewayReady

\* A Gateway gets its secret, or loses it.
LEMMA SecretChangesType ==
  ASSUME TypeOK, NEW g \in Gateways, SecretChanges(g)
  PROVE  TypeOK'
<1>1. WorldOK' /\ QueuesOK' /\ CountersOK'
  BY RoutesOfType DEF SecretChanges, Move, TypeOK, WorldOK, QueuesOK, CountersOK,
         World!SecretChanges, World!WorldTypeOK
<1> QED
  BY <1>1, WorldType DEF SecretChanges

\* A Gateway goes.
LEMMA GatewayDeletedType ==
  ASSUME TypeOK, NEW g \in Gateways, GatewayDeleted(g)
  PROVE  TypeOK'
<1>1. WorldOK' /\ QueuesOK' /\ CountersOK'
  BY RoutesOfType DEF GatewayDeleted, Move, TypeOK, WorldOK, QueuesOK, CountersOK,
         World!Deleted, World!WorldTypeOK
<1> QED
  BY <1>1, WorldType DEF GatewayDeleted

\* Credentials, config or class come or go.
LEMMA ClientChangesType ==
  ASSUME TypeOK, ClientChanges
  PROVE  TypeOK'
<1>1. WorldOK' /\ QueuesOK' /\ CountersOK'
  BY DEF ClientChanges, Move, TypeOK, WorldOK, QueuesOK, CountersOK,
         World!ClientChanges, World!WorldTypeOK
<1> QED
  BY <1>1, WorldType DEF ClientChanges

\* Nodes and backend Services are read by the NodePort manager only.
LEMMA ClusterType ==
  ASSUME TypeOK, NodePortTypeOK', moves' \in Nat,
         UNCHANGED <<cloudVars, hr, hrCache, worldVars, w, queue, delayed, faults, abandoned>>
  PROVE  TypeOK'
<1>1. ObjectsOK' /\ QueuesOK' /\ CountersOK'
  BY TypeParts DEF ObjectsOK, QueuesOK, CountersOK
<1>2. CloudTypeOK' /\ WorldOK'
  BY TypeParts, CloudUnchanged, WorldUnchanged
<1> QED
  BY <1>1, <1>2, EventType

\* The Ready nodes change.
LEMMA NodeChangesType ==
  ASSUME TypeOK, NodeChanges
  PROVE  TypeOK'
<1>1. NodePortTypeOK' /\ moves' \in Nat
  BY DEF NodeChanges, Move, TypeOK, NodePortTypeOK
<1> QED
  BY <1>1, ClusterType DEF NodeChanges

\* A backend Service changes.
LEMMA BackendChangesType ==
  ASSUME TypeOK, NEW b \in Backends, BackendChanges(b)
  PROVE  TypeOK'
<1>1. NodePortTypeOK' /\ moves' \in Nat
  BY DEF BackendChanges, Move, TypeOK, NodePortTypeOK
<1> QED
  BY <1>1, ClusterType DEF BackendChanges

\* Another tool takes a NodePort Service's name, or somebody deletes the Service.
LEMMA OutsiderServesType ==
  ASSUME TypeOK, NEW b \in Backends, OutsiderServes(b)
  PROVE  TypeOK'
<1>1. moves' \in Nat
  BY DEF OutsiderServes, Move, TypeOK
<1>2. NodePortTypeOK'
  BY TypeParts, OutsiderTakesType, DeleteNodePortType DEF OutsiderServes, OutsiderRemoves
<1> QED
  BY <1>1, <1>2, ClusterType DEF OutsiderServes

\* A service is deleted in the console.
LEMMA CloudRemovesType ==
  ASSUME TypeOK, NEW s \in ServiceIDs, CloudRemoves(s)
  PROVE  TypeOK'
<1>1. CloudTypeOK'
  BY TypeParts, EndServicesType DEF CloudRemoves
<1>2. NodePortTypeOK' /\ WorldOK'
  BY TypeParts, NodePortUnchanged, WorldUnchanged DEF CloudRemoves
<1>3. ObjectsOK' /\ QueuesOK' /\ CountersOK'
  BY DEF CloudRemoves, Move, TypeOK, ObjectsOK, QueuesOK, CountersOK
<1> QED
  BY <1>1, <1>2, <1>3, EventType DEF CloudRemoves

----------------------------------------------------------------------------
(* The inductive invariant.  TypeOK alone is not inductive: a deletion goes  *)
(* from its services to the NodePort Service of the spec's first backendRef, *)
(* which is one only if the pass has not moved past it.                      *)

AtFirstItem == w.pc \in {"deleteRoutes", "deleteServices"} => w.item = 1
TypeInv == TypeOK /\ AtFirstItem

\* A pass stays at the first item until it deletes NodePort Services.
LEMMA AtFirstItemKept ==
  ASSUME TypeOK, AtFirstItem, [Next]_vars
  PROVE  AtFirstItem'
<1>1. w \in Worker
  BY DEF TypeOK
<1>2. CASE UNCHANGED w
  BY <1>2 DEF AtFirstItem
<1>3. CASE w' = Idle
  BY <1>3 DEF AtFirstItem, Idle
<1>4. CASE \E r \in Routes : Reconcile(r)
  <2>1. PICK r \in Routes : Reconcile(r)
    BY <1>4
  <2>2. UNCHANGED w \/ w'.item = 1
    BY <2>1 DEF Reconcile, StartDelete, Idle
  <2> QED
    BY <1>2, <2>2 DEF AtFirstItem
<1>5. CASE DeleteRoutes \/ DeleteServices
  <2>1. w'.item = 1
    BY <1>1, <1>5 DEF DeleteRoutes, DeleteServices, AtFirstItem, Worker
  <2> QED
    BY <2>1 DEF AtFirstItem
<1>6. CASE Fail
  BY <1>1, <1>6 DEF Fail, AtFirstItem, Worker
<1>7. CASE ResolveParent \/ EnsureNodePort \/ RereadNodePort \/ GetServiceCall
           \/ UpdateServiceCall \/ CreateServiceCall \/ CreateRouteCall \/ ListRoutesCall
  <2>1. Fail \/ w'.pc \notin {"deleteRoutes", "deleteServices"}
    BY <1>1, <1>7 DEF ResolveParent, EnsureNodePort, RereadNodePort, WithHost, GetServiceCall,
       LookupFails, UpdateServiceCall, CreateServiceCall, CreateRouteCall, OnConflict,
       GotRoute, ListRoutesCall, Worker
  <2> QED
    BY <1>6, <2>1 DEF AtFirstItem
<1>8. CASE \/ SkipBackendRef \/ SetRequestTransformCall \/ SetResponseTransformCall
           \/ DeleteNodePorts
  <2>1. w'.pc \notin {"deleteRoutes", "deleteServices"}
    BY <1>1, <1>8 DEF SkipBackendRef, SetRequestTransformCall, SetResponseTransformCall, NextItem,
       DeleteNodePorts, Worker
  <2> QED
    BY <2>1 DEF AtFirstItem
<1>9. CASE AddFinalizer \/ SaveAnnotations
  <2>1. Fail \/ w' = Idle \/ w'.pc \notin {"deleteRoutes", "deleteServices"}
    BY <1>1, <1>9 DEF AddFinalizer, SaveAnnotations, Requeue, Worker
  <2> QED
    BY <1>3, <1>6, <2>1 DEF AtFirstItem
<1>10. CASE WriteStatus \/ ReportError \/ RemoveFinalizer \/ Restart
  BY <1>3, <1>10 DEF WriteStatus, ReportError, RemoveFinalizer, Restart, Requeue
<1>11. ASSUME NEW r \in Routes,
              SyncRoute(r) \/ RetryDue(r) \/ UserCreates(r) \/ UserEdits(r) \/ UserDeletes(r)
       PROVE  UNCHANGED w
  BY <1>11 DEF SyncRoute, RetryDue, UserCreates, UserEdits, UserDeletes
<1>12. ASSUME NEW b \in Backends,
              SyncNodePort(b) \/ GarbageCollect(b) \/ BackendChanges(b) \/ OutsiderServes(b)
       PROVE  UNCHANGED w
  BY <1>12 DEF SyncNodePort, GarbageCollect, BackendChanges, OutsiderServes
<1>13. ASSUME NEW g \in Gateways, GatewayReady(g) \/ SecretChanges(g) \/ GatewayDeleted(g)
       PROVE  UNCHANGED w
  BY <1>13 DEF GatewayReady, SecretChanges, GatewayDeleted
<1>14. Resync \/ ClientChanges \/ NodeChanges \/ (\E s \in ServiceIDs : CloudRemoves(s))
         => UNCHANGED w
  BY DEF Resync, ClientChanges, NodeChanges, CloudRemoves
<1>15. UNCHANGED vars => UNCHANGED w
  BY DEF vars
<1> QED
  BY <1>2, <1>4, <1>5, <1>7, <1>8, <1>9, <1>10, <1>11, <1>12, <1>13, <1>14, <1>15
     DEF Next, WorkerStep

\* A stuttering step.
LEMMA StutterType ==
  ASSUME TypeOK, UNCHANGED vars
  PROVE  TypeOK'
<1>1. CloudTypeOK' /\ NodePortTypeOK' /\ WorldOK'
  BY TypeParts, CloudUnchanged, NodePortUnchanged, WorldUnchanged
     DEF vars, cloudVars, nodePortVars, worldVars
<1>2. ObjectsOK' /\ QueuesOK' /\ CountersOK'
  BY TypeParts DEF vars, ObjectsOK, QueuesOK, CountersOK
<1> QED
  BY <1>1, <1>2, EventType DEF vars

\* Every step of the next-state relation keeps the inductive invariant.
LEMMA TypeInvKept == TypeInv /\ [Next]_vars => TypeInv'
<1> SUFFICES ASSUME TypeInv, [Next]_vars PROVE TypeInv'
  OBVIOUS
<1>1. TypeOK /\ AtFirstItem /\ AtFirstItem'
  BY AtFirstItemKept DEF TypeInv
<1>2. CASE UNCHANGED vars
  BY <1>1, <1>2, StutterType DEF TypeInv
<1>3. CASE \E r \in Routes : Reconcile(r)
  BY <1>1, <1>3, ReconcileType DEF TypeInv
<1>4. CASE WorkerStep
  <2>1. DeleteServices => TypeOK'
    BY <1>1, DeleteServicesType DEF AtFirstItem
  <2>2. TypeOK'
    BY <1>1, <1>4, <2>1, AddFinalizerType, ResolveParentType, SkipBackendRefType,
       EnsureNodePortType, RereadNodePortType, GetServiceCallType, UpdateServiceCallType, CreateServiceCallType,
       CreateRouteCallType, ListRoutesCallType, SetRequestTransformCallType,
       SetResponseTransformCallType, SaveAnnotationsType, WriteStatusType, ReportErrorType,
       DeleteRoutesType, DeleteNodePortsType, RemoveFinalizerType
       DEF WorkerStep
  <2> QED
    BY <1>1, <2>2 DEF TypeInv
<1>5. CASE \E r \in Routes : \/ SyncRoute(r) \/ RetryDue(r)
                             \/ UserCreates(r) \/ UserEdits(r) \/ UserDeletes(r)
  BY <1>1, <1>5, SyncRouteType, RetryDueType, UserCreatesType, UserEditsType, UserDeletesType
     DEF TypeInv
<1>6. CASE \E b \in Backends : \/ SyncNodePort(b) \/ GarbageCollect(b)
                               \/ BackendChanges(b) \/ OutsiderServes(b)
  BY <1>1, <1>6, SyncNodePortType, GarbageCollectType, BackendChangesType, OutsiderServesType
     DEF TypeInv
<1>7. CASE \E g \in Gateways : GatewayReady(g) \/ SecretChanges(g) \/ GatewayDeleted(g)
  BY <1>1, <1>7, GatewayReadyType, SecretChangesType, GatewayDeletedType DEF TypeInv
<1>8. CASE Resync \/ Restart \/ ClientChanges \/ NodeChanges
           \/ (\E s \in ServiceIDs : CloudRemoves(s))
  BY <1>1, <1>8, ResyncType, RestartType, ClientChangesType, NodeChangesType, CloudRemovesType
     DEF TypeInv
<1> QED
  BY <1>2, <1>3, <1>4, <1>5, <1>6, <1>7, <1>8 DEF Next

\* Type correctness: every reachable state has its types, and a pass never leaves
\* its route's spec and parents, for all constants and any number of faults.
THEOREM TypeCorrect == Spec => []TypeOK
<1>1. Init => TypeInv
  BY InitType DEF TypeInv, AtFirstItem, Init, Idle
<1>2. TypeInv => TypeOK
  BY DEF TypeInv
<1> QED
  BY <1>1, <1>2, TypeInvKept, PTL DEF Spec
=============================================================================
