---------------------- MODULE HTTPRouteOwnership_proofs ----------------------
(***************************************************************************)
(* Every identifier the HTTPRoute controller records or holds was made for  *)
(* the place it is recorded at (IdentifiersAreOwn), for all constants.      *)
(*                                                                          *)
(* The argument: the cloud never changes the name of a service or the name  *)
(* and service of a route it has given out (Stable), so a record once right *)
(* stays right; and a record is only ever copied from another record of the *)
(* same route or filled with what was just made, or listed, under its key.  *)
(***************************************************************************)
EXTENDS HTTPRouteReconciler_proofs

\* RecordsOwn in the cloud sv, rt: constant-level, so that it can speak of a
\* record in the states before and after a step.
OwnIn(sv, rt, r, svcIDs, rtIDs) ==
    /\ \A b \in Backends : svcIDs[b] # None =>
          sv[svcIDs[b]].owner = <<r, b>> /\ sv[svcIDs[b]].state # "unborn"
    /\ \A k \in Backends \X RuleIdx : rtIDs[k] # None =>
          /\ rt[rtIDs[k]].name = <<r, k[2]>>
          /\ rt[rtIDs[k]].service # None
          /\ sv[rt[rtIDs[k]].service].owner = <<r, k[1]>>

\* A route has a service from its creation on, and one that was created.
Linked(sv, rt) ==
    \A t \in RouteIDs :
        IF rt[t].state = "unborn" THEN rt[t].service = None
        ELSE rt[t].service \in ServiceIDs /\ sv[rt[t].service].state # "unborn"

\* What a step of the cloud keeps.
Stable(sv, rt, sv2, rt2) ==
    /\ \A s \in ServiceIDs : sv[s].state # "unborn" =>
          sv2[s].state # "unborn" /\ sv2[s].owner = sv[s].owner
    /\ \A t \in RouteIDs : rt[t].state # "unborn" =>
          rt2[t].name = rt[t].name /\ rt2[t].service = rt[t].service

\* Maps of identifiers, as annotations and as a pass has them.
ServiceMap == [Backends -> ServiceIDs \union {None}]
RouteMap == [Backends \X RuleIdx -> RouteIDs \union {None}]

ObjectsOwn == \A r \in Routes : /\ OwnIn(services, routes, r, hr[r].svcIDs, hr[r].rtIDs)
                                /\ OwnIn(services, routes, r, hrCache[r].svcIDs, hrCache[r].rtIDs)
WorkerOwn == w.pc # "idle" => /\ OwnIn(services, routes, w.route, w.obj.svcIDs, w.obj.rtIDs)
                              /\ OwnIn(services, routes, w.route, w.sids, w.rids)

\* The inductive invariant.
OwnInv == TypeInv /\ Linked(services, routes) /\ ObjectsOwn /\ WorkerOwn

\* A record once right stays right.
LEMMA OwnStable ==
  ASSUME NEW sv, NEW rt, NEW sv2, NEW rt2, NEW r, NEW a \in ServiceMap, NEW c \in RouteMap,
         Linked(sv, rt), Stable(sv, rt, sv2, rt2), OwnIn(sv, rt, r, a, c)
  PROVE  OwnIn(sv2, rt2, r, a, c)
<1>1. ASSUME NEW b \in Backends, a[b] # None
      PROVE  sv2[a[b]].owner = <<r, b>> /\ sv2[a[b]].state # "unborn"
  <2>1. a[b] \in ServiceIDs
    BY <1>1 DEF ServiceMap
  <2> QED
    BY <1>1, <2>1 DEF OwnIn, Stable
<1>2. ASSUME NEW k \in Backends \X RuleIdx, c[k] # None
      PROVE  /\ rt2[c[k]].name = <<r, k[2]>>
             /\ rt2[c[k]].service # None
             /\ sv2[rt2[c[k]].service].owner = <<r, k[1]>>
  <2>1. c[k] \in RouteIDs
    BY <1>2 DEF RouteMap
  <2>2. rt[c[k]].state # "unborn" /\ rt[c[k]].service \in ServiceIDs
        /\ sv[rt[c[k]].service].state # "unborn"
    BY <1>2, <2>1 DEF OwnIn, Linked
  <2>3. rt2[c[k]].name = rt[c[k]].name /\ rt2[c[k]].service = rt[c[k]].service
        /\ sv2[rt[c[k]].service].owner = sv[rt[c[k]].service].owner
    BY <2>1, <2>2 DEF Stable
  <2> QED
    BY <1>2, <2>3 DEF OwnIn
<1> QED
  BY <1>1, <1>2 DEF OwnIn

\* A cloud nothing happens to keeps everything.
LEMMA StableRefl ==
  ASSUME NEW sv, NEW rt PROVE Stable(sv, rt, sv, rt)
  BY DEF Stable

----------------------------------------------------------------------------
(* The calls on the cloud.                                                   *)

CloudKept == Stable(services, routes, services', routes') /\ Linked(services', routes')

\* No call.
LEMMA QuietCloud ==
  ASSUME Linked(services, routes), UNCHANGED cloudVars
  PROVE  CloudKept
<1>1. services' = services /\ routes' = routes
  BY DEF cloudVars
<1> QED
  BY <1>1, StableRefl DEF CloudKept

\* A new service gets an identifier nothing refers to.
LEMMA CreateServiceKeeps ==
  ASSUME CloudTypeOK, Linked(services, routes), NEW s, NEW owner, NEW host,
         CreateService(s, owner, host)
  PROVE  /\ CloudKept
         /\ s \in ServiceIDs
         /\ services'[s].owner = owner /\ services'[s].state # "unborn"
<1>1. s \in ServiceIDs /\ services[s].state = "unborn" /\ routes' = routes
  BY DEF CreateService, FreshServices
<1>2. /\ services'[s].state = "live" /\ services'[s].owner = owner
      /\ \A x \in ServiceIDs : x # s => services'[x] = services[x]
  BY <1>1 DEF CreateService, CloudTypeOK
<1>3. Stable(services, routes, services', routes')
  BY <1>1, <1>2 DEF Stable
<1>4. Linked(services', routes')
  BY <1>1, <1>2 DEF Linked
<1> QED
  BY <1>1, <1>2, <1>3, <1>4 DEF CloudKept

\* A new address leaves the name alone.
LEMMA UpdateServiceKeeps ==
  ASSUME CloudTypeOK, Linked(services, routes), NEW s, NEW host, UpdateService(s, host)
  PROVE  CloudKept
<1>1. s \in ServiceIDs /\ services[s].state = "live" /\ routes' = routes
  BY DEF UpdateService, Exists
<1>2. \A x \in ServiceIDs : services'[x].owner = services[x].owner
                            /\ services'[x].state = services[x].state
  BY <1>1 DEF UpdateService, CloudTypeOK, Service
<1> QED
  BY <1>1, <1>2 DEF CloudKept, Stable, Linked

\* A service that ends keeps its name, and so do the routes that end with it.
LEMMA EndServicesKeep ==
  ASSUME CloudTypeOK, Linked(services, routes), NEW ss, NEW how \in {"deleted", "removed"},
         EndServices(ss, how)
  PROVE  CloudKept
<1>1. \A x \in ServiceIDs : /\ services'[x].owner = services[x].owner
                            /\ services'[x].state \in {services[x].state, how}
                            /\ services[x].state = "unborn" => services'[x].state = "unborn"
  BY DEF EndServices, CloudTypeOK, Service, Exists
<1>2. \A t \in RouteIDs : /\ routes'[t].name = routes[t].name
                          /\ routes'[t].service = routes[t].service
                          /\ routes'[t].state = "unborn" <=> routes[t].state = "unborn"
  BY DEF EndServices, CloudTypeOK, Route
<1>3. Stable(services, routes, services', routes')
  BY <1>1, <1>2 DEF Stable
<1>4. Linked(services', routes')
  BY <1>1, <1>2 DEF Linked
<1> QED
  BY <1>3, <1>4 DEF CloudKept

\* A new route is on a live service, under the name it was given.
LEMMA CreateRouteKeeps ==
  ASSUME CloudTypeOK, Linked(services, routes), NEW t, NEW s, NEW name, NEW path,
         CreateRoute(t, s, name, path)
  PROVE  /\ CloudKept
         /\ t \in RouteIDs /\ s \in ServiceIDs
         /\ routes'[t].name = name /\ routes'[t].service = s
         /\ services' = services
<1>1. /\ t \in RouteIDs /\ routes[t].state = "unborn" /\ services' = services
      /\ s \in ServiceIDs /\ services[s].state = "live"
  BY DEF CreateRoute, FreshRoutes, Exists
<1>2. /\ routes'[t].state = "live" /\ routes'[t].name = name /\ routes'[t].service = s
      /\ \A x \in RouteIDs : x # t => routes'[x] = routes[x]
  BY <1>1 DEF CreateRoute, CloudTypeOK
<1>3. Stable(services, routes, services', routes')
  BY <1>1, <1>2 DEF Stable
<1>4. Linked(services', routes')
  BY <1>1, <1>2 DEF Linked
<1> QED
  BY <1>1, <1>2, <1>3, <1>4 DEF CloudKept

\* Deletion of a route and its transforms leave its name and service alone.
LEMMA RouteCallsKeep ==
  ASSUME CloudTypeOK, Linked(services, routes), NEW s, NEW t, NEW x,
         DeleteRoute(s, t) \/ SetRequestTransform(s, t, x) \/ SetResponseTransform(s, t, x)
  PROVE  CloudKept
<1>1. services' = services
  BY DEF DeleteRoute, SetRequestTransform, SetResponseTransform
<1>2. \A y \in RouteIDs : /\ routes'[y].name = routes[y].name
                          /\ routes'[y].service = routes[y].service
                          /\ routes'[y].state = "unborn" <=> routes[y].state = "unborn"
  BY DEF DeleteRoute, SetRequestTransform, SetResponseTransform, RoutesOn, CloudTypeOK, Route
<1> QED
  BY <1>1, <1>2 DEF CloudKept, Stable, Linked

\* No step of the system changes what the cloud has given out.
LEMMA CloudStep ==
  ASSUME TypeOK, Linked(services, routes), [Next]_vars
  PROVE  CloudKept
<1>1. CloudTypeOK
  BY DEF TypeOK
<1>2. CASE UNCHANGED cloudVars
  BY <1>2, QuietCloud
<1>3. CASE UpdateServiceCall
  BY <1>1, <1>3, QuietCloud, UpdateServiceKeeps DEF UpdateServiceCall
<1>4. CASE CreateServiceCall
  <2> DEFINE s == CHOOSE x \in FreshServices : TRUE
  <2> HIDE DEF s
  <2>1. UNCHANGED cloudVars \/ CreateService(s, <<w.route, ServiceKey>>, w.host)
    BY <1>4 DEF CreateServiceCall, s
  <2> QED
    BY <1>1, <2>1, QuietCloud, CreateServiceKeeps
<1>5. CASE CreateRouteCall
  <2> DEFINE t == CHOOSE x \in FreshRoutes : TRUE
  <2> HIDE DEF t
  <2>1. UNCHANGED cloudVars \/ CreateRoute(t, CurrentService, RouteName, CurrentItem.path)
    BY <1>5 DEF CreateRouteCall, t
  <2> QED
    BY <1>1, <2>1, QuietCloud, CreateRouteKeeps
<1>6. CASE SetRequestTransformCall
  BY <1>1, <1>6, QuietCloud, RouteCallsKeep DEF SetRequestTransformCall
<1>7. CASE SetResponseTransformCall
  BY <1>1, <1>7, QuietCloud, RouteCallsKeep DEF SetResponseTransformCall
<1>8. CASE DeleteRoutes
  BY <1>1, <1>8, QuietCloud, RouteCallsKeep DEF DeleteRoutes
<1>9. CASE DeleteServices
  BY <1>1, <1>9, QuietCloud, EndServicesKeep DEF DeleteServices, DeleteService
<1>10. CASE Restart
  BY <1>1, <1>10, QuietCloud, EndServicesKeep DEF Restart
<1>11. CASE \E s \in ServiceIDs : CloudRemoves(s)
  BY <1>1, <1>11, EndServicesKeep DEF CloudRemoves
<1>12. \/ AddFinalizer \/ ResolveParent \/ EnsureNodePort \/ RereadNodePort
       \/ GetServiceCall \/ ListRoutesCall \/ SaveAnnotations \/ WriteStatus \/ ReportError
       \/ DeleteNodePorts \/ RemoveFinalizer \/ SkipBackendRef
       => UNCHANGED cloudVars
  BY DEF AddFinalizer, ResolveParent, SkipBackendRef, EnsureNodePort, RereadNodePort, GetServiceCall,
     ListRoutesCall, SaveAnnotations, WriteStatus, ReportError, DeleteNodePorts, RemoveFinalizer
<1>13. ASSUME NEW r \in Routes,
              Reconcile(r) \/ SyncRoute(r) \/ RetryDue(r) \/ UserCreates(r) \/ UserEdits(r)
              \/ UserDeletes(r)
       PROVE  UNCHANGED cloudVars
  BY <1>13 DEF Reconcile, SyncRoute, RetryDue, UserCreates, UserEdits, UserDeletes
<1>14. ASSUME NEW b \in Backends,
              SyncNodePort(b) \/ GarbageCollect(b) \/ BackendChanges(b) \/ OutsiderServes(b)
       PROVE  UNCHANGED cloudVars
  BY <1>14 DEF SyncNodePort, GarbageCollect, BackendChanges, OutsiderServes
<1>15. ASSUME NEW g \in Gateways, GatewayReady(g) \/ SecretChanges(g) \/ GatewayDeleted(g)
       PROVE  UNCHANGED cloudVars
  BY <1>15 DEF GatewayReady, SecretChanges, GatewayDeleted
<1>16. Resync \/ ClientChanges \/ NodeChanges \/ UNCHANGED vars => UNCHANGED cloudVars
  BY DEF Resync, ClientChanges, NodeChanges, vars, cloudVars
<1> QED
  BY <1>2, <1>3, <1>4, <1>5, <1>6, <1>7, <1>8, <1>9, <1>10, <1>11, <1>12, <1>13, <1>14,
     <1>15, <1>16 DEF Next, WorkerStep

----------------------------------------------------------------------------
(* Where the records of an object come from.                                 *)

\* An object's annotations are another's.
SameRecords(o, p) == o.svcIDs = p.svcIDs /\ o.rtIDs = p.rtIDs

\* A write leaves the annotations of the new object.
LEMMA BumpedRecords ==
  ASSUME NEW old \in HTTPRoute, NEW new \in HTTPRoute
  PROVE  SameRecords(Bumped(old, new), new)
  BY DEF Bumped, SameRecords, HTTPRoute

\* Update writes the annotations of the object it is given, and answers with them.
LEMMA MetaPutRecords ==
  ASSUME TypeOK, w.route \in Routes, NEW o \in HTTPRoute
  PROVE  /\ SameRecords(MetaPut(o), o)
         /\ SameRecords(Decoded(o, MetaPut(o)), o)
<1> DEFINE new == [hr[w.route] EXCEPT !.finalizer = o.finalizer, !.svcIDs = o.svcIDs,
                                      !.rtIDs = o.rtIDs]
<1>1. hr[w.route] \in HTTPRoute
  BY DEF TypeOK
<1>2. new \in HTTPRoute /\ SameRecords(new, o)
  BY <1>1 DEF HTTPRoute, SameRecords
<1>3. MetaPut(o) = Bumped(hr[w.route], new)
  BY DEF MetaPut
<1> HIDE DEF new
<1>4. SameRecords(MetaPut(o), o) /\ MetaPut(o) \in HTTPRoute
  <2>1. SameRecords(Bumped(hr[w.route], new), new)
    BY <1>1, <1>2, BumpedRecords
  <2>2. MetaPut(o) \in HTTPRoute
    BY MetaPutType
  <2> QED
    BY <1>2, <1>3, <2>1, <2>2 DEF SameRecords
<1>5. SameRecords(Decoded(o, MetaPut(o)), o)
  BY <1>4 DEF Decoded, SameRecords, HTTPRoute
<1> QED
  BY <1>4, <1>5

\* Status().Update leaves the annotations alone.
LEMMA StatusPutRecords ==
  ASSUME TypeOK, w.route \in Routes, NEW o \in HTTPRoute
  PROVE  SameRecords(StatusPut(o), hr[w.route])
<1> DEFINE new == [hr[w.route] EXCEPT !.status = o.status]
<1>1. hr[w.route] \in HTTPRoute
  BY DEF TypeOK
<1>2. new \in HTTPRoute /\ SameRecords(new, hr[w.route])
  BY <1>1 DEF HTTPRoute, SameRecords
<1> HIDE DEF new
<1>3. StatusPut(o) = Bumped(hr[w.route], new)
  BY DEF StatusPut, new
<1> QED
  BY <1>1, <1>2, <1>3, BumpedRecords DEF SameRecords

\* What a step writes to the API server: a route keeps its annotations, or gets
\* those of the pass that writes it, read (obj) or collected (sids, rids).
LEMMA ObjectStep ==
  ASSUME TypeInv, [Next]_vars, NEW r \in Routes
  PROVE  \/ SameRecords(hr'[r], hr[r])
         \/ w.pc # "idle" /\ w.route = r /\ SameRecords(hr'[r], w.obj)
         \/ w.pc # "idle" /\ w.route = r /\ hr'[r].svcIDs = w.sids /\ hr'[r].rtIDs = w.rids
<1> USE DEF SameRecords
<1>1. TypeOK /\ hr \in [Routes -> HTTPRoute] /\ w \in Worker
  BY DEF TypeInv, TypeOK
<1>2. CASE UNCHANGED hr
  BY <1>2
<1>3. ASSUME w.pc # "idle", NEW o \in HTTPRoute, Put(MetaPut(o))
      PROVE  hr'[r] = hr[r] \/ (w.route = r /\ SameRecords(hr'[r], o))
  BY <1>1, <1>3, InPass, MetaPutRecords DEF Put
<1>4. ASSUME w.pc # "idle", Put(StatusPut(w.obj))
      PROVE  SameRecords(hr'[r], hr[r])
  BY <1>1, <1>4, InPass, StatusPutRecords DEF Put
<1>5. CASE AddFinalizer
  <2> DEFINE o == [w.obj EXCEPT !.finalizer = TRUE]
  <2>1. w.pc # "idle" /\ o \in HTTPRoute /\ SameRecords(o, w.obj)
    BY <1>1, <1>5 DEF AddFinalizer, Worker, HTTPRoute
  <2> HIDE DEF o
  <2>2. UNCHANGED hr \/ Put(MetaPut(o))
    BY <1>5 DEF AddFinalizer, o
  <2> QED
    BY <1>2, <1>3, <2>1, <2>2
<1>6. CASE RemoveFinalizer
  <2> DEFINE o == WithoutFinalizer(w.obj)
  <2>1. w.pc # "idle" /\ o \in HTTPRoute /\ SameRecords(o, w.obj)
    BY <1>1, <1>6 DEF RemoveFinalizer, WithoutFinalizer, Worker, HTTPRoute
  <2> HIDE DEF o
  <2>2. UNCHANGED hr \/ Put(MetaPut(o))
    BY <1>6 DEF RemoveFinalizer, o
  <2> QED
    BY <1>2, <1>3, <2>1, <2>2
<1>7. CASE SaveAnnotations
  <2> DEFINE o == [w.obj EXCEPT !.svcIDs = w.sids, !.rtIDs = w.rids]
  <2>1. w.pc # "idle" /\ o \in HTTPRoute /\ o.svcIDs = w.sids /\ o.rtIDs = w.rids
    BY <1>1, <1>7 DEF SaveAnnotations, Worker, HTTPRoute
  <2> HIDE DEF o
  <2>2. UNCHANGED hr \/ Put(MetaPut(o))
    BY <1>7 DEF SaveAnnotations, o
  <2> QED
    BY <1>2, <1>3, <2>1, <2>2
<1>8. CASE WriteStatus \/ ReportError
  <2>1. w.pc # "idle" /\ (UNCHANGED hr \/ Put(StatusPut(w.obj)))
    BY <1>8 DEF WriteStatus, ReportError
  <2> QED
    BY <1>2, <1>4, <2>1
<1>9. ASSUME NEW x \in Routes, NEW spec, NEW phase, NEW gen, NEW rv,
             hr' = [hr EXCEPT ![x].phase = phase, ![x].gen = gen, ![x].rv = rv, ![x].spec = spec]
             \/ hr' = [hr EXCEPT ![x].spec = spec, ![x].gen = gen, ![x].rv = rv]
      PROVE  SameRecords(hr'[r], hr[r])
  <2>1. hr[r] \in HTTPRoute /\ hr[x] \in HTTPRoute
    BY <1>1
  <2>2. CASE x = r
    BY <1>1, <1>9, <2>1, <2>2 DEF HTTPRoute
  <2>3. CASE x # r
    BY <1>1, <1>9, <2>3
  <2> QED
    BY <2>2, <2>3
<1>10. ASSUME NEW x \in Routes, UserCreates(x) \/ UserEdits(x)
       PROVE  SameRecords(hr'[r], hr[r])
  <2>1. CASE UserCreates(x)
    <3>1. PICK spec \in Specs : hr' = [hr EXCEPT ![x].phase = "live", ![x].gen = 1,
                                                 ![x].rv = 1, ![x].spec = spec]
      BY <2>1 DEF UserCreates
    <3> QED
      BY <1>9, <3>1
  <2>2. CASE UserEdits(x)
    <3>1. PICK spec \in Specs : hr' = [hr EXCEPT ![x].spec = spec, ![x].gen = hr[x].gen + 1,
                                                 ![x].rv = hr[x].rv + 1]
      BY <2>2 DEF UserEdits
    <3> QED
      BY <1>9, <3>1
  <2> QED
    BY <1>10, <2>1, <2>2
<1>11. ASSUME NEW x \in Routes, UserDeletes(x)
       PROVE  SameRecords(hr'[r], hr[r])
  <2> DEFINE gen == hr[x].gen + 1
  <2> DEFINE marked == [hr[x] EXCEPT !.deleting = TRUE, !.gen = gen]
  <2>1. hr[x] \in HTTPRoute
    BY <1>1
  <2>2. gen \in Nat
    BY <2>1 DEF HTTPRoute
  <2>3. hr' = [hr EXCEPT ![x] = Bumped(hr[x], marked)]
    BY <1>11 DEF UserDeletes
  <2> HIDE DEF gen
  <2>4. marked \in HTTPRoute /\ SameRecords(marked, hr[x])
    BY <2>1, <2>2 DEF HTTPRoute
  <2> HIDE DEF marked
  <2> QED
    BY <1>1, <2>1, <2>4, <2>3, BumpedRecords
<1>12. \/ ResolveParent \/ EnsureNodePort \/ RereadNodePort \/ GetServiceCall
       \/ UpdateServiceCall \/ CreateServiceCall \/ CreateRouteCall \/ ListRoutesCall
       \/ SkipBackendRef \/ SetRequestTransformCall \/ SetResponseTransformCall
       \/ DeleteRoutes \/ DeleteServices \/ DeleteNodePorts
       => UNCHANGED hr
  BY DEF ResolveParent, EnsureNodePort, RereadNodePort, GetServiceCall, UpdateServiceCall,
     CreateServiceCall, CreateRouteCall, ListRoutesCall, SkipBackendRef, SetRequestTransformCall,
     SetResponseTransformCall, DeleteRoutes, DeleteServices, DeleteNodePorts
<1>13. ASSUME NEW x \in Routes, Reconcile(x) \/ SyncRoute(x) \/ RetryDue(x)
       PROVE  UNCHANGED hr
  BY <1>13 DEF Reconcile, SyncRoute, RetryDue
<1>14. ASSUME NEW b \in Backends,
              SyncNodePort(b) \/ GarbageCollect(b) \/ BackendChanges(b) \/ OutsiderServes(b)
       PROVE  UNCHANGED hr
  BY <1>14 DEF SyncNodePort, GarbageCollect, BackendChanges, OutsiderServes
<1>15. ASSUME NEW g \in Gateways, GatewayReady(g) \/ SecretChanges(g) \/ GatewayDeleted(g)
       PROVE  UNCHANGED hr
  BY <1>15 DEF GatewayReady, SecretChanges, GatewayDeleted
<1>16. \/ Resync \/ Restart \/ ClientChanges \/ NodeChanges \/ UNCHANGED vars
       \/ (\E s \in ServiceIDs : CloudRemoves(s))
       => UNCHANGED hr
  BY DEF Resync, Restart, ClientChanges, NodeChanges, CloudRemoves, vars
<1> QED
  BY <1>2, <1>5, <1>6, <1>7, <1>8, <1>10, <1>11, <1>12, <1>13, <1>14, <1>15, <1>16
     DEF Next, WorkerStep

\* An informer's copy stays or becomes the server's.
LEMMA CacheStep ==
  ASSUME TypeInv, [Next]_vars, NEW r \in Routes
  PROVE  hrCache'[r] = hrCache[r] \/ hrCache'[r] = hr[r]
<1>1. hrCache \in [Routes -> HTTPRoute]
  BY DEF TypeInv, TypeOK
<1>2. ASSUME NEW x \in Routes, SyncRoute(x)
      PROVE  hrCache'[r] = hrCache[r] \/ hrCache'[r] = hr[r]
  BY <1>1, <1>2 DEF SyncRoute
<1>3. Restart => hrCache' = hr
  BY DEF Restart
<1>4. ASSUME NEW x \in Routes,
             Reconcile(x) \/ RetryDue(x) \/ UserCreates(x) \/ UserEdits(x) \/ UserDeletes(x)
      PROVE  UNCHANGED hrCache
  BY <1>4 DEF Reconcile, RetryDue, UserCreates, UserEdits, UserDeletes
<1>5. WorkerStep => UNCHANGED hrCache
  BY DEF WorkerStep, AddFinalizer, ResolveParent, EnsureNodePort, RereadNodePort, GetServiceCall,
     UpdateServiceCall, CreateServiceCall, CreateRouteCall, ListRoutesCall,
     SkipBackendRef, SetRequestTransformCall, SetResponseTransformCall, SaveAnnotations,
     WriteStatus,
     ReportError, DeleteRoutes, DeleteServices, DeleteNodePorts, RemoveFinalizer
<1>6. ASSUME NEW b \in Backends,
             SyncNodePort(b) \/ GarbageCollect(b) \/ BackendChanges(b) \/ OutsiderServes(b)
      PROVE  UNCHANGED hrCache
  BY <1>6 DEF SyncNodePort, GarbageCollect, BackendChanges, OutsiderServes
<1>7. ASSUME NEW g \in Gateways, GatewayReady(g) \/ SecretChanges(g) \/ GatewayDeleted(g)
      PROVE  UNCHANGED hrCache
  BY <1>7 DEF GatewayReady, SecretChanges, GatewayDeleted
<1>8. \/ Resync \/ ClientChanges \/ NodeChanges \/ UNCHANGED vars
      \/ (\E s \in ServiceIDs : CloudRemoves(s))
      => UNCHANGED hrCache
  BY DEF Resync, ClientChanges, NodeChanges, CloudRemoves, vars
<1> QED
  BY <1>2, <1>3, <1>4, <1>5, <1>6, <1>7, <1>8 DEF Next

\* The records at hand before a step are right in the cloud after it.
LEMMA RecordsCarried ==
  ASSUME OwnInv, [Next]_vars
  PROVE  /\ \A r \in Routes :
               /\ OwnIn(services', routes', r, hr[r].svcIDs, hr[r].rtIDs)
               /\ OwnIn(services', routes', r, hrCache[r].svcIDs, hrCache[r].rtIDs)
         /\ w.pc # "idle" => /\ OwnIn(services', routes', w.route, w.obj.svcIDs, w.obj.rtIDs)
                             /\ OwnIn(services', routes', w.route, w.sids, w.rids)
<1>1. Linked(services, routes) /\ Stable(services, routes, services', routes')
  BY CloudStep DEF OwnInv, TypeInv, CloudKept
<1>2. ASSUME NEW o \in HTTPRoute
      PROVE  o.svcIDs \in ServiceMap /\ o.rtIDs \in RouteMap
  BY DEF HTTPRoute, ServiceMap, RouteMap
<1>3. ASSUME NEW r \in Routes
      PROVE  /\ OwnIn(services', routes', r, hr[r].svcIDs, hr[r].rtIDs)
             /\ OwnIn(services', routes', r, hrCache[r].svcIDs, hrCache[r].rtIDs)
  <2>1. hr[r] \in HTTPRoute /\ hrCache[r] \in HTTPRoute
    BY DEF OwnInv, TypeInv, TypeOK
  <2>2. /\ OwnIn(services, routes, r, hr[r].svcIDs, hr[r].rtIDs)
        /\ OwnIn(services, routes, r, hrCache[r].svcIDs, hrCache[r].rtIDs)
    BY DEF OwnInv, ObjectsOwn
  <2> QED
    BY <1>1, <1>2, <2>1, <2>2, OwnStable
<1>4. ASSUME w.pc # "idle"
      PROVE  /\ OwnIn(services', routes', w.route, w.obj.svcIDs, w.obj.rtIDs)
             /\ OwnIn(services', routes', w.route, w.sids, w.rids)
  <2>1. w.obj \in HTTPRoute /\ w.sids \in ServiceMap /\ w.rids \in RouteMap
    BY DEF OwnInv, TypeInv, TypeOK, Worker, ServiceMap, RouteMap
  <2>2. /\ OwnIn(services, routes, w.route, w.obj.svcIDs, w.obj.rtIDs)
        /\ OwnIn(services, routes, w.route, w.sids, w.rids)
    BY <1>4 DEF OwnInv, WorkerOwn
  <2> QED
    BY <1>1, <1>2, <2>1, <2>2, OwnStable
<1> QED
  BY <1>3, <1>4

\* Annotations and their cached copies stay right.
LEMMA ObjectsOwnKept ==
  ASSUME OwnInv, [Next]_vars
  PROVE  ObjectsOwn'
<1>1. ASSUME NEW r \in Routes
      PROVE  OwnIn(services', routes', r, hr'[r].svcIDs, hr'[r].rtIDs)
  BY RecordsCarried, ObjectStep DEF OwnInv, SameRecords
<1>2. ASSUME NEW r \in Routes
      PROVE  OwnIn(services', routes', r, hrCache'[r].svcIDs, hrCache'[r].rtIDs)
  <2>1. hrCache'[r] = hrCache[r] \/ hrCache'[r] = hr[r]
    BY CacheStep DEF OwnInv
  <2> QED
    BY <2>1, RecordsCarried
<1> QED
  BY <1>1, <1>2 DEF ObjectsOwn

----------------------------------------------------------------------------
(* The worker.                                                               *)

\* The pass goes on with the records it has.
SamePass == /\ w.pc # "idle"
            /\ w'.route = w.route /\ SameRecords(w'.obj, w.obj)
            /\ w'.sids = w.sids /\ w'.rids = w.rids

\* An error changes a condition and no record.
LEMMA FailKeeps ==
  ASSUME w \in Worker, w.pc # "idle", Fail
  PROVE  SamePass
<1> DEFINE o == WithCondition(w.obj, "False")
<1>1. SameRecords(o, w.obj)
  BY DEF WithCondition, SameRecords, Worker, HTTPRoute
<1> HIDE DEF o
<1>2. w' = [w EXCEPT !.pc = "failed", !.obj = o]
  BY DEF Fail, o
<1> QED
  BY <1>1, <1>2 DEF SamePass, Worker

\* Most steps of a pass leave its records alone, or end it.
LEMMA PlainSteps ==
  ASSUME w \in Worker,
         \/ EnsureNodePort \/ RereadNodePort \/ GetServiceCall \/ UpdateServiceCall
         \/ SkipBackendRef \/ SetRequestTransformCall \/ SetResponseTransformCall \/ WriteStatus
         \/ ReportError
         \/ DeleteRoutes \/ DeleteServices \/ DeleteNodePorts \/ RemoveFinalizer
  PROVE  SamePass \/ w'.pc = "idle"
<1>1. Fail /\ w.pc # "idle" => SamePass
  BY FailKeeps
<1>2. Requeue \/ w' = Idle => w'.pc = "idle"
  BY DEF Requeue, Idle
<1>3. CASE EnsureNodePort \/ RereadNodePort
  BY <1>1, <1>3 DEF EnsureNodePort, RereadNodePort, WithHost, SamePass, SameRecords, Worker
<1>4. CASE GetServiceCall \/ UpdateServiceCall
  BY <1>1, <1>4 DEF GetServiceCall, LookupFails, UpdateServiceCall, SamePass, SameRecords, Worker
<1>5. CASE SkipBackendRef \/ SetRequestTransformCall \/ SetResponseTransformCall
  BY <1>5 DEF SkipBackendRef, SetRequestTransformCall, SetResponseTransformCall, NextItem, SamePass,
     SameRecords, Worker
<1>6. CASE DeleteRoutes \/ DeleteServices \/ DeleteNodePorts
  BY <1>6 DEF DeleteRoutes, DeleteServices, DeleteNodePorts, SamePass, SameRecords, Worker
<1>7. CASE WriteStatus \/ ReportError \/ RemoveFinalizer
  BY <1>2, <1>7 DEF WriteStatus, ReportError, RemoveFinalizer
<1> QED
  BY <1>3, <1>4, <1>5, <1>6, <1>7

\* No identifiers are nobody's.
LEMMA NothingRecorded ==
  ASSUME NEW sv, NEW rt, NEW r
  PROVE  OwnIn(sv, rt, r, NoServiceIDs, NoRouteIDs)
  BY DEF OwnIn, NoServiceIDs, NoRouteIDs

\* A pass starts from the cached object, with nothing collected (:43-62).
LEMMA ReconcileOwn ==
  ASSUME OwnInv, [Next]_vars, NEW r \in Routes, Reconcile(r)
  PROVE  WorkerOwn'
<1>1. CASE UNCHANGED w
  BY <1>1, RecordsCarried DEF Reconcile, WorkerOwn
<1>2. CASE /\ w'.route = r /\ w'.obj = Read(r)
           /\ w'.sids = NoServiceIDs /\ w'.rids = NoRouteIDs
  BY <1>2, RecordsCarried, NothingRecorded DEF Read, WorkerOwn
<1>3. CASE StartDelete(Read(r), r)
  BY <1>2, <1>3 DEF StartDelete, Idle
<1>4. CASE \E pc \in PCs : w' = [Idle EXCEPT !.pc = pc, !.route = r, !.obj = Read(r)]
  BY <1>2, <1>4 DEF Idle
<1>5. ASSUME w' = [Idle EXCEPT !.pc = IF Read(r).finalizer THEN "parent" ELSE "finalizer",
                               !.route = r, !.obj = Read(r)]
      PROVE  WorkerOwn'
  BY <1>4, <1>5 DEF PCs
<1> QED
  BY <1>1, <1>3, <1>5 DEF Reconcile

\* The finalizer's Update answers with the annotations it was given (:55-61).
LEMMA AddFinalizerOwn ==
  ASSUME OwnInv, [Next]_vars, AddFinalizer
  PROVE  WorkerOwn'
<1> DEFINE o == [w.obj EXCEPT !.finalizer = TRUE]
<1> DEFINE saved == Decoded(o, MetaPut(o))
<1>1. TypeOK /\ w \in Worker /\ w.pc # "idle" /\ w.obj \in HTTPRoute /\ w.route \in Routes
  BY InPass DEF OwnInv, TypeInv, AddFinalizer
<1>2. o \in HTTPRoute /\ SameRecords(o, w.obj)
  BY <1>1 DEF HTTPRoute, SameRecords
<1> HIDE DEF o
<1>3. SameRecords(saved, o)
  BY <1>1, <1>2, MetaPutRecords
<1> HIDE DEF saved
<1>4. CASE w' = [w EXCEPT !.obj = saved, !.pc = "parent"]
  <2>1. SamePass
    BY <1>1, <1>2, <1>3, <1>4 DEF SamePass, SameRecords, Worker
  <2> QED
    BY <2>1, RecordsCarried DEF SamePass, SameRecords, WorkerOwn
<1>5. CASE w' = Idle
  BY <1>5 DEF Idle, WorkerOwn
<1> QED
  BY <1>4, <1>5 DEF AddFinalizer, Requeue, o, saved

\* The maps of a parent start as the object's annotations (:119-121).
LEMMA ResolveParentOwn ==
  ASSUME OwnInv, [Next]_vars, ResolveParent
  PROVE  WorkerOwn'
<1>1. w \in Worker /\ w.pc # "idle"
  BY InPass DEF OwnInv, TypeInv, ResolveParent
<1>2. CASE Fail
  BY <1>1, <1>2, FailKeeps, RecordsCarried DEF SamePass, SameRecords, WorkerOwn
<1>3. CASE ~Fail
  <2>1. /\ w'.route = w.route /\ w'.obj = w.obj
        /\ w'.sids = w.obj.svcIDs /\ w'.rids = w.obj.rtIDs
    BY <1>1, <1>3 DEF ResolveParent, Worker
  <2> QED
    BY <1>1, <2>1, RecordsCarried DEF WorkerOwn
<1> QED
  BY <1>2, <1>3

\* The identifier put under a backend's key is that of the service just created
\* for this route and backend (:148-152, :216).
LEMMA CreateServiceOwn ==
  ASSUME OwnInv, [Next]_vars, CreateServiceCall
  PROVE  WorkerOwn'
<1> DEFINE s == CHOOSE x \in FreshServices : TRUE
<1> DEFINE owner == <<w.route, ServiceKey>>
<1> HIDE DEF s
<1>1. /\ TypeOK /\ w \in Worker /\ w.pc = "createService" /\ w.pc \in ItemPCs /\ w.pc # "idle"
      /\ CloudTypeOK /\ Linked(services, routes)
  BY DEF OwnInv, TypeInv, TypeOK, CreateServiceCall, ItemPCs
<1>2. ServiceKey \in Backends
  BY <1>1, InCall
<1>3. CASE Fail
  BY <1>1, <1>3, FailKeeps, RecordsCarried DEF SamePass, SameRecords, WorkerOwn
<1>4. CASE CreateService(s, owner, w.host)
           /\ w' = [w EXCEPT !.sids[ServiceKey] = s, !.pc = "createRoute"]
  <2>1. services'[s].owner = owner /\ services'[s].state # "unborn"
    BY <1>1, <1>4, CreateServiceKeeps
  <2>2. /\ w'.route = w.route /\ w'.obj = w.obj /\ w'.rids = w.rids
        /\ w'.sids = [w.sids EXCEPT ![ServiceKey] = s]
    BY <1>1, <1>4 DEF Worker
  <2>3. w.sids \in [Backends -> ServiceIDs \union {None}]
    BY <1>1 DEF Worker
  <2>4. OwnIn(services', routes', w.route, w.sids, w.rids)
    BY <1>1, RecordsCarried
  <2>5. OwnIn(services', routes', w.route, [w.sids EXCEPT ![ServiceKey] = s], w.rids)
    BY <1>2, <2>1, <2>3, <2>4 DEF OwnIn
  <2> QED
    BY <1>1, <2>2, <2>5, RecordsCarried DEF WorkerOwn
<1> QED
  BY <1>3, <1>4 DEF CreateServiceCall, s

\* A route got from the cloud is put under the key of its rule and backend.
LEMMA GotRouteOwn ==
  ASSUME OwnInv, [Next]_vars, w.pc \in ItemPCs, NEW t \in RouteIDs, GotRoute(t),
         routes'[t].name = RouteName, CurrentService \in ServiceIDs,
         routes'[t].service = CurrentService
  PROVE  WorkerOwn'
<1>1. TypeOK /\ w \in Worker /\ w.pc # "idle" /\ ServiceKey \in Backends
      /\ RuleKey \in Backends \X RuleIdx
  BY InCall DEF OwnInv, TypeInv
<1>2. /\ w'.route = w.route /\ w'.obj = w.obj /\ w'.sids = w.sids
      /\ w'.rids = [w.rids EXCEPT ![RuleKey] = t]
  BY <1>1 DEF GotRoute, Worker
<1>3. w.rids \in [Backends \X RuleIdx -> RouteIDs \union {None}]
  BY <1>1 DEF Worker
<1>4. OwnIn(services', routes', w.route, w.sids, w.rids)
  BY <1>1, RecordsCarried
<1>5. CurrentService # None
  BY CloudAssumption
<1>6. services'[CurrentService].owner = <<w.route, ServiceKey>>
  BY <1>1, <1>4, <1>5 DEF OwnIn, CurrentService
<1>7. RuleKey[1] = ServiceKey /\ RouteName = <<w.route, RuleKey[2]>>
  BY DEF RuleKey, ServiceKey, RouteName
<1>8. OwnIn(services', routes', w.route, w.sids, [w.rids EXCEPT ![RuleKey] = t])
  <2>1. ASSUME NEW k \in Backends \X RuleIdx, [w.rids EXCEPT ![RuleKey] = t][k] # None
        PROVE  LET x == [w.rids EXCEPT ![RuleKey] = t][k]
               IN  /\ routes'[x].name = <<w.route, k[2]>>
                   /\ routes'[x].service # None
                   /\ services'[routes'[x].service].owner = <<w.route, k[1]>>
    <3>1. CASE k = RuleKey
      BY <1>1, <1>3, <1>5, <1>6, <1>7, <3>1
    <3>2. CASE k # RuleKey
      BY <1>3, <1>4, <2>1, <3>2 DEF OwnIn
    <3> QED
      BY <3>1, <3>2
  <2> QED
    BY <1>4, <2>1 DEF OwnIn
<1> QED
  BY <1>1, <1>2, <1>8, RecordsCarried DEF WorkerOwn

\* A route created, or found by its name on the backend's own service (:254-278).
LEMMA RouteCallsOwn ==
  ASSUME OwnInv, [Next]_vars, CreateRouteCall \/ ListRoutesCall
  PROVE  WorkerOwn'
<1>1. /\ TypeOK /\ w \in Worker /\ w.pc \in ItemPCs /\ w.pc # "idle"
      /\ CloudTypeOK /\ Linked(services, routes)
  BY DEF OwnInv, TypeInv, TypeOK, CreateRouteCall, ListRoutesCall, ItemPCs
<1>2. CASE Fail
  BY <1>1, <1>2, FailKeeps, RecordsCarried DEF SamePass, SameRecords, WorkerOwn
<1>3. CASE OnConflict
  BY <1>1, <1>3, RecordsCarried DEF OnConflict, WorkerOwn, Worker
<1>4. CASE CreateRouteCall
  <2> DEFINE t == CHOOSE x \in FreshRoutes : TRUE
  <2> HIDE DEF t
  <2>1. CASE CreateRoute(t, CurrentService, RouteName, CurrentItem.path) /\ GotRoute(t)
    <3>1. /\ t \in RouteIDs /\ CurrentService \in ServiceIDs
          /\ routes'[t].name = RouteName /\ routes'[t].service = CurrentService
      BY <1>1, <2>1, CreateRouteKeeps
    <3> QED
      BY <1>1, <2>1, <3>1, GotRouteOwn
  <2> QED
    BY <1>2, <1>3, <1>4, <2>1 DEF CreateRouteCall, t
<1>5. CASE ListRoutesCall
  <2>1. ASSUME NEW t \in RoutesOn(CurrentService), routes[t].name = RouteName, GotRoute(t)
        PROVE  WorkerOwn'
    <3>1. t \in RouteIDs /\ routes[t].state = "live" /\ routes[t].service = CurrentService
      BY DEF RoutesOn
    <3>2. CurrentService \in ServiceIDs
      BY <1>1, <3>1 DEF Linked
    <3>3. routes' = routes
      BY <1>5 DEF ListRoutesCall, cloudVars
    <3> QED
      BY <1>1, <2>1, <3>1, <3>2, <3>3, GotRouteOwn
  <2> QED
    BY <1>2, <1>5, <2>1 DEF ListRoutesCall
<1> QED
  BY <1>4, <1>5

\* Saving the annotations makes the maps the object's (:174-177).
LEMMA SaveAnnotationsOwn ==
  ASSUME OwnInv, [Next]_vars, SaveAnnotations
  PROVE  WorkerOwn'
<1> DEFINE o == [w.obj EXCEPT !.svcIDs = w.sids, !.rtIDs = w.rids]
<1> DEFINE answer == Decoded(o, MetaPut(o))
<1> DEFINE saved == WithCondition(answer, "True")
<1>1. TypeOK /\ w \in Worker /\ w.pc # "idle" /\ w.obj \in HTTPRoute /\ w.route \in Routes
  BY InPass DEF OwnInv, TypeInv, SaveAnnotations
<1>2. o \in HTTPRoute /\ o.svcIDs = w.sids /\ o.rtIDs = w.rids
  BY <1>1 DEF HTTPRoute, Worker
<1> HIDE DEF o
<1>3. answer \in HTTPRoute /\ SameRecords(answer, o)
  BY <1>1, <1>2, MetaPutType, DecodedType, MetaPutRecords
<1> HIDE DEF answer
<1>4. SameRecords(saved, answer)
  BY <1>3 DEF WithCondition, SameRecords, HTTPRoute
<1> HIDE DEF saved
<1>5. CASE Fail
  BY <1>1, <1>5, FailKeeps, RecordsCarried DEF SamePass, SameRecords, WorkerOwn
<1>6. CASE ~Fail
  <2>1. /\ w'.route = w.route /\ w'.obj = saved /\ w'.sids = w.sids /\ w'.rids = w.rids
    BY <1>1, <1>6 DEF SaveAnnotations, o, answer, saved, Worker
  <2>2. saved.svcIDs = w.sids /\ saved.rtIDs = w.rids
    BY <1>2, <1>3, <1>4 DEF SameRecords
  <2> QED
    BY <1>1, <2>1, <2>2, RecordsCarried DEF WorkerOwn
<1> QED
  BY <1>5, <1>6

\* What a pass holds stays right.
LEMMA WorkerOwnKept ==
  ASSUME OwnInv, [Next]_vars
  PROVE  WorkerOwn'
<1>1. w \in Worker
  BY DEF OwnInv, TypeInv, TypeOK
<1>2. CASE UNCHANGED w
  BY <1>2, RecordsCarried DEF WorkerOwn
<1>3. CASE SamePass \/ w'.pc = "idle"
  BY <1>3, RecordsCarried DEF SamePass, SameRecords, WorkerOwn
<1>4. CASE WorkerStep
  BY <1>1, <1>3, <1>4, PlainSteps, AddFinalizerOwn, ResolveParentOwn, CreateServiceOwn,
     RouteCallsOwn, SaveAnnotationsOwn DEF WorkerStep
<1>5. CASE \E r \in Routes : Reconcile(r)
  BY <1>5, ReconcileOwn
<1>6. CASE Restart
  BY <1>3, <1>6 DEF Restart, Idle
<1>7. ASSUME NEW r \in Routes,
             SyncRoute(r) \/ RetryDue(r) \/ UserCreates(r) \/ UserEdits(r) \/ UserDeletes(r)
      PROVE  UNCHANGED w
  BY <1>7 DEF SyncRoute, RetryDue, UserCreates, UserEdits, UserDeletes
<1>8. ASSUME NEW b \in Backends,
             SyncNodePort(b) \/ GarbageCollect(b) \/ BackendChanges(b) \/ OutsiderServes(b)
      PROVE  UNCHANGED w
  BY <1>8 DEF SyncNodePort, GarbageCollect, BackendChanges, OutsiderServes
<1>9. ASSUME NEW g \in Gateways, GatewayReady(g) \/ SecretChanges(g) \/ GatewayDeleted(g)
      PROVE  UNCHANGED w
  BY <1>9 DEF GatewayReady, SecretChanges, GatewayDeleted
<1>10. \/ Resync \/ ClientChanges \/ NodeChanges \/ UNCHANGED vars
       \/ (\E s \in ServiceIDs : CloudRemoves(s))
       => UNCHANGED w
  BY DEF Resync, ClientChanges, NodeChanges, CloudRemoves, vars
<1> QED
  BY <1>2, <1>4, <1>5, <1>6, <1>7, <1>8, <1>9, <1>10 DEF Next

----------------------------------------------------------------------------
\* Nothing is recorded at the start.
LEMMA OwnInit == Init => OwnInv
<1> SUFFICES ASSUME Init PROVE OwnInv
  OBVIOUS
<1>1. TypeInv
  BY InitType DEF TypeInv, AtFirstItem, Init, Idle
<1>2. Linked(services, routes)
  BY DEF Init, CloudInit, Linked
<1>3. ObjectsOwn
  BY NothingRecorded DEF Init, Uncreated, ObjectsOwn
<1>4. WorkerOwn
  BY DEF Init, Idle, WorkerOwn
<1> QED
  BY <1>1, <1>2, <1>3, <1>4 DEF OwnInv

\* The inductive invariant is one, and it implies the property.
LEMMA OwnInvKept == OwnInv /\ [Next]_vars => OwnInv'
<1> SUFFICES ASSUME OwnInv, [Next]_vars PROVE OwnInv'
  OBVIOUS
<1>1. TypeInv'
  BY TypeInvKept DEF OwnInv
<1>2. Linked(services, routes)'
  BY CloudStep DEF OwnInv, TypeInv, CloudKept
<1> QED
  BY <1>1, <1>2, ObjectsOwnKept, WorkerOwnKept DEF OwnInv

\* What the invariant says of the records is the property.
LEMMA OwnInvImplies == OwnInv => IdentifiersAreOwn
  BY DEF OwnInv, ObjectsOwn, WorkerOwn, OwnIn, IdentifiersAreOwn, RecordsOwn

\* Whatever edits, stale reads, lost answers and restarts come in between, the
\* annotations of a route, their cached copies and a pass's maps name services and
\* routes made for that route, backend and rule only (:119-179).
THEOREM IdentifiersOwned == Spec => []IdentifiersAreOwn
  BY OwnInit, OwnInvKept, OwnInvImplies, PTL DEF Spec
=============================================================================
