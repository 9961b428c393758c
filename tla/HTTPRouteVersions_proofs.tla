----------------------- MODULE HTTPRouteVersions_proofs -----------------------
(***************************************************************************)
(* Optimistic locking: a copy of a route that has the server's version is   *)
(* the server's object (VersionsAreFaithful), for all constants and however *)
(* far the informers lag.                                                   *)
(*                                                                          *)
(* The argument: every write to the API server that changes an object       *)
(* raises its version (ServerStep), so a copy that is behind in content is  *)
(* behind in version; and a pass changes nothing of its copy but the        *)
(* conditions, unless an answer of the server replaces it (ObjStep).        *)
(* These two lemmas, and those on single calls, serve the proofs of         *)
(* HTTPRouteAccounting_proofs as well.                                      *)
(***************************************************************************)
EXTENDS HTTPRouteOwnership_proofs

----------------------------------------------------------------------------
(* What a write makes of an object, field by field.                          *)

\* Objects that agree in all but version and conditions.
SameButStatus(o, p) ==
    /\ o.phase = p.phase /\ o.deleting = p.deleting /\ o.finalizer = p.finalizer
    /\ o.gen = p.gen /\ o.spec = p.spec
    /\ o.svcIDs = p.svcIDs /\ o.rtIDs = p.rtIDs

\* A user creates the object, edits its spec, or asks for its deletion.
Created(old, new) ==
    /\ old.phase = "new" /\ new.phase = "live"
    /\ new.rv = 1 /\ new.gen = 1
    /\ new.deleting = old.deleting /\ new.finalizer = old.finalizer
    /\ SameRecords(new, old) /\ new.status = old.status

Edited(old, new) ==
    /\ old.phase = "live" /\ new.phase = "live"
    /\ new.rv = old.rv + 1 /\ new.gen = old.gen + 1
    /\ new.deleting = old.deleting /\ new.finalizer = old.finalizer
    /\ SameRecords(new, old) /\ new.status = old.status

Marked(old, new) ==
    /\ old.phase = "live" /\ ~old.deleting
    /\ new.phase = IF old.finalizer THEN "live" ELSE "gone"
    /\ new.deleting /\ new.finalizer = old.finalizer
    /\ new.rv = old.rv + 1 /\ new.gen = old.gen + 1 /\ new.spec = old.spec
    /\ SameRecords(new, old) /\ new.status = old.status

\* The controller writes metadata or conditions.
Written(old, new) ==
    /\ old.phase = "live"
    /\ new.deleting = old.deleting /\ new.gen = old.gen /\ new.spec = old.spec
    /\ \/ new = old
       \/ /\ new.rv = old.rv + 1
          /\ new.phase = IF new.deleting /\ ~new.finalizer THEN "gone" ELSE "live"

\* ... what of it, by the call that writes.
PassWrites(old, new) ==
    /\ Written(old, new)
    /\ \/ /\ w.pc \in {"finalizer", "removeFinalizer"}
          /\ new.finalizer <=> w.pc = "finalizer"
          /\ SameRecords(new, w.obj) /\ new.status = old.status
       \/ /\ w.pc = "save"
          /\ new.finalizer = w.obj.finalizer
          /\ new.svcIDs = w.sids /\ new.rtIDs = w.rids /\ new.status = old.status
       \/ /\ w.pc \in {"status", "failed"}
          /\ new.finalizer = old.finalizer
          /\ SameRecords(new, old) /\ new.status = w.obj.status

\* A write that is taken raises the version if it changes anything.
LEMMA BumpedFields ==
  ASSUME NEW old \in HTTPRoute, NEW new \in HTTPRoute,
         old.phase = "live", new.phase = "live", new.rv = old.rv,
         new.deleting = old.deleting, new.gen = old.gen, new.spec = old.spec
  PROVE  LET put == Bumped(old, new) IN
         /\ Written(old, put)
         /\ put.finalizer = new.finalizer /\ SameRecords(put, new) /\ put.status = new.status
<1> DEFINE phase == IF new.deleting /\ ~new.finalizer THEN "gone" ELSE new.phase
<1> DEFINE put == [new EXCEPT !.rv = new.rv + 1, !.phase = phase]
<1>1. CASE new = old
  BY <1>1 DEF Bumped, Written, SameRecords
<1>2. CASE new # old
  <2>1. Bumped(old, new) = put
    BY <1>2 DEF Bumped
  <2>2. /\ put.rv = old.rv + 1 /\ put.phase = phase
        /\ put.deleting = new.deleting /\ put.finalizer = new.finalizer
        /\ put.gen = new.gen /\ put.spec = new.spec /\ put.svcIDs = new.svcIDs
        /\ put.rtIDs = new.rtIDs /\ put.status = new.status
    BY DEF HTTPRoute
  <2> HIDE DEF put
  <2> QED
    BY <2>1, <2>2 DEF Written, SameRecords
<1> QED
  BY <1>1, <1>2

\* Update writes finalizer and annotations over the server's object.
LEMMA MetaPutFields ==
  ASSUME TypeOK, w.route \in Routes, hr[w.route].phase = "live", NEW o \in HTTPRoute
  PROVE  LET put == MetaPut(o) IN
         /\ Written(hr[w.route], put)
         /\ put.finalizer = o.finalizer /\ SameRecords(put, o)
         /\ put.status = hr[w.route].status
<1> DEFINE new == [hr[w.route] EXCEPT !.finalizer = o.finalizer, !.svcIDs = o.svcIDs,
                                      !.rtIDs = o.rtIDs]
<1>1. hr[w.route] \in HTTPRoute
  BY DEF TypeOK
<1>2. /\ new \in HTTPRoute /\ new.phase = hr[w.route].phase /\ new.rv = hr[w.route].rv
      /\ new.deleting = hr[w.route].deleting /\ new.gen = hr[w.route].gen
      /\ new.spec = hr[w.route].spec /\ new.finalizer = o.finalizer
      /\ SameRecords(new, o) /\ new.status = hr[w.route].status
  BY <1>1 DEF HTTPRoute, SameRecords
<1>3. MetaPut(o) = Bumped(hr[w.route], new)
  BY DEF MetaPut
<1> HIDE DEF new
<1> QED
  BY <1>1, <1>2, <1>3, BumpedFields DEF SameRecords

\* Status().Update writes the conditions over the server's object.
LEMMA StatusPutFields ==
  ASSUME TypeOK, w.route \in Routes, hr[w.route].phase = "live", NEW o \in HTTPRoute
  PROVE  LET put == StatusPut(o) IN
         /\ Written(hr[w.route], put)
         /\ put.finalizer = hr[w.route].finalizer /\ SameRecords(put, hr[w.route])
         /\ put.status = o.status
<1> DEFINE new == [hr[w.route] EXCEPT !.status = o.status]
<1>1. hr[w.route] \in HTTPRoute
  BY DEF TypeOK
<1>2. /\ new \in HTTPRoute /\ new.phase = hr[w.route].phase /\ new.rv = hr[w.route].rv
      /\ new.deleting = hr[w.route].deleting /\ new.gen = hr[w.route].gen
      /\ new.spec = hr[w.route].spec /\ new.finalizer = hr[w.route].finalizer
      /\ SameRecords(new, hr[w.route]) /\ new.status = o.status
  BY <1>1 DEF HTTPRoute, SameRecords
<1>3. StatusPut(o) = Bumped(hr[w.route], new)
  BY DEF StatusPut
<1> HIDE DEF new
<1> QED
  BY <1>1, <1>2, <1>3, BumpedFields DEF SameRecords

\* What a pass writes: nothing, or an object over a version it has read.
LEMMA WriteStep ==
  ASSUME TypeInv, AddFinalizer \/ SaveAnnotations \/ WriteStatus \/ ReportError \/ RemoveFinalizer,
         ~UNCHANGED hr
  PROVE  /\ w.pc # "idle" /\ w.route \in Routes
         /\ hr[w.route].phase = "live" /\ hr[w.route].rv = w.obj.rv
         /\ PassWrites(hr[w.route], hr'[w.route])
         /\ \A r \in Routes : r # w.route => hr'[r] = hr[r]
<1>1. /\ TypeOK /\ w.pc # "idle" /\ w \in Worker /\ w.route \in Routes /\ w.obj \in HTTPRoute
      /\ hr \in [Routes -> HTTPRoute]
  BY InPass DEF TypeInv, TypeOK, AddFinalizer, SaveAnnotations, WriteStatus, ReportError,
     RemoveFinalizer
<1>2. ASSUME NEW o \in HTTPRoute, o.rv = w.obj.rv, Fresh(o), Put(MetaPut(o))
      PROVE  /\ hr[w.route].phase = "live" /\ hr[w.route].rv = w.obj.rv
             /\ Written(hr[w.route], hr'[w.route])
             /\ hr'[w.route].finalizer = o.finalizer /\ SameRecords(hr'[w.route], o)
             /\ hr'[w.route].status = hr[w.route].status
             /\ \A r \in Routes : r # w.route => hr'[r] = hr[r]
  <2>1. hr[w.route].phase = "live" /\ hr[w.route].rv = w.obj.rv
    BY <1>2 DEF Fresh
  <2>2. hr'[w.route] = MetaPut(o) /\ \A r \in Routes : r # w.route => hr'[r] = hr[r]
    BY <1>1, <1>2 DEF Put
  <2> QED
    BY <1>1, <2>1, <2>2, MetaPutFields
<1>3. CASE WriteStatus \/ ReportError
  <2>1. Fresh(w.obj) /\ Put(StatusPut(w.obj)) /\ w.pc \in {"status", "failed"}
    BY <1>3 DEF WriteStatus, ReportError
  <2>2. hr[w.route].phase = "live" /\ hr[w.route].rv = w.obj.rv
    BY <2>1 DEF Fresh
  <2>3. hr'[w.route] = StatusPut(w.obj) /\ \A r \in Routes : r # w.route => hr'[r] = hr[r]
    BY <1>1, <2>1 DEF Put
  <2> QED
    BY <1>1, <2>1, <2>2, <2>3, StatusPutFields DEF PassWrites
<1>4. CASE AddFinalizer
  <2> DEFINE o == [w.obj EXCEPT !.finalizer = TRUE]
  <2>1. Fresh(o) /\ Put(MetaPut(o)) /\ w.pc = "finalizer"
    BY <1>4 DEF AddFinalizer
  <2>2. o \in HTTPRoute /\ o.rv = w.obj.rv /\ o.finalizer = TRUE /\ SameRecords(o, w.obj)
    BY <1>1 DEF HTTPRoute, SameRecords
  <2> HIDE DEF o
  <2> QED
    BY <1>1, <1>2, <2>1, <2>2 DEF PassWrites, SameRecords
<1>5. CASE RemoveFinalizer
  <2> DEFINE o == WithoutFinalizer(w.obj)
  <2>1. Fresh(o) /\ Put(MetaPut(o)) /\ w.pc = "removeFinalizer"
    BY <1>5 DEF RemoveFinalizer
  <2>2. o \in HTTPRoute /\ o.rv = w.obj.rv /\ o.finalizer = FALSE /\ SameRecords(o, w.obj)
    BY <1>1 DEF WithoutFinalizer, HTTPRoute, SameRecords
  <2> HIDE DEF o
  <2> QED
    BY <1>1, <1>2, <2>1, <2>2 DEF PassWrites, SameRecords
<1>6. CASE SaveAnnotations
  <2> DEFINE o == [w.obj EXCEPT !.svcIDs = w.sids, !.rtIDs = w.rids]
  <2>1. Fresh(o) /\ Put(MetaPut(o)) /\ w.pc = "save"
    BY <1>6 DEF SaveAnnotations
  <2>2. /\ o \in HTTPRoute /\ o.rv = w.obj.rv /\ o.finalizer = w.obj.finalizer
        /\ o.svcIDs = w.sids /\ o.rtIDs = w.rids
    BY <1>1 DEF HTTPRoute, Worker
  <2> HIDE DEF o
  <2> QED
    BY <1>1, <1>2, <2>1, <2>2 DEF PassWrites, SameRecords
<1> QED
  BY <1>3, <1>4, <1>5, <1>6

----------------------------------------------------------------------------
(* What a step does to the server's objects and to the object of the pass.   *)

\* Only users and the calls that write touch the objects of the API server.
LEMMA WhoWrites ==
  ASSUME [Next]_vars, ~UNCHANGED hr
  PROVE  \/ AddFinalizer \/ SaveAnnotations \/ WriteStatus \/ ReportError \/ RemoveFinalizer
         \/ \E r \in Routes : UserCreates(r) \/ UserEdits(r) \/ UserDeletes(r)
<1>1. \/ ResolveParent \/ EnsureNodePort \/ RereadNodePort \/ GetServiceCall
      \/ UpdateServiceCall \/ CreateServiceCall \/ CreateRouteCall \/ ListRoutesCall
      \/ SkipBackendRef \/ SetRequestTransformCall \/ SetResponseTransformCall
      \/ DeleteRoutes \/ DeleteServices \/ DeleteNodePorts
      => UNCHANGED hr
  BY DEF ResolveParent, EnsureNodePort, RereadNodePort, GetServiceCall, UpdateServiceCall,
     CreateServiceCall, CreateRouteCall, ListRoutesCall, SkipBackendRef, SetRequestTransformCall,
     SetResponseTransformCall, DeleteRoutes, DeleteServices, DeleteNodePorts
<1>2. ASSUME NEW x \in Routes, Reconcile(x) \/ SyncRoute(x) \/ RetryDue(x)
      PROVE  UNCHANGED hr
  BY <1>2 DEF Reconcile, SyncRoute, RetryDue
<1>3. ASSUME NEW b \in Backends,
             SyncNodePort(b) \/ GarbageCollect(b) \/ BackendChanges(b) \/ OutsiderServes(b)
      PROVE  UNCHANGED hr
  BY <1>3 DEF SyncNodePort, GarbageCollect, BackendChanges, OutsiderServes
<1>4. ASSUME NEW g \in Gateways, GatewayReady(g) \/ SecretChanges(g) \/ GatewayDeleted(g)
      PROVE  UNCHANGED hr
  BY <1>4 DEF GatewayReady, SecretChanges, GatewayDeleted
<1>5. \/ Resync \/ Restart \/ ClientChanges \/ NodeChanges \/ UNCHANGED vars
      \/ (\E s \in ServiceIDs : CloudRemoves(s))
      => UNCHANGED hr
  BY DEF Resync, Restart, ClientChanges, NodeChanges, CloudRemoves, vars
<1> QED
  BY <1>1, <1>2, <1>3, <1>4, <1>5 DEF Next, WorkerStep

\* Only the worker's own steps, a route off the queue and a restart move it.
LEMMA WhoMoves ==
  ASSUME [Next]_vars, ~UNCHANGED w
  PROVE  WorkerStep \/ Restart \/ \E r \in Routes : Reconcile(r)
<1>1. ASSUME NEW r \in Routes,
             SyncRoute(r) \/ RetryDue(r) \/ UserCreates(r) \/ UserEdits(r) \/ UserDeletes(r)
      PROVE  UNCHANGED w
  BY <1>1 DEF SyncRoute, RetryDue, UserCreates, UserEdits, UserDeletes
<1>2. ASSUME NEW b \in Backends,
             SyncNodePort(b) \/ GarbageCollect(b) \/ BackendChanges(b) \/ OutsiderServes(b)
      PROVE  UNCHANGED w
  BY <1>2 DEF SyncNodePort, GarbageCollect, BackendChanges, OutsiderServes
<1>3. ASSUME NEW g \in Gateways, GatewayReady(g) \/ SecretChanges(g) \/ GatewayDeleted(g)
      PROVE  UNCHANGED w
  BY <1>3 DEF GatewayReady, SecretChanges, GatewayDeleted
<1>4. \/ Resync \/ ClientChanges \/ NodeChanges \/ UNCHANGED vars
      \/ (\E s \in ServiceIDs : CloudRemoves(s))
      => UNCHANGED w
  BY DEF Resync, ClientChanges, NodeChanges, CloudRemoves, vars
<1> QED
  BY <1>1, <1>2, <1>3, <1>4 DEF Next

\* What users write.
LEMMA UserStep ==
  ASSUME TypeOK, NEW x \in Routes, UserCreates(x) \/ UserEdits(x) \/ UserDeletes(x)
  PROVE  /\ UNCHANGED w
         /\ \/ Created(hr[x], hr'[x]) \/ Edited(hr[x], hr'[x]) \/ Marked(hr[x], hr'[x])
         /\ \A r \in Routes : r # x => hr'[r] = hr[r]
<1>1. hr \in [Routes -> HTTPRoute] /\ hr[x] \in HTTPRoute
  BY DEF TypeOK
<1>2. CASE UserCreates(x)
  <2>1. PICK spec \in Specs : hr' = [hr EXCEPT ![x].phase = "live", ![x].gen = 1,
                                               ![x].rv = 1, ![x].spec = spec]
    BY <1>2 DEF UserCreates
  <2>2. /\ hr'[x].phase = "live" /\ hr'[x].gen = 1 /\ hr'[x].rv = 1
        /\ hr'[x].deleting = hr[x].deleting /\ hr'[x].finalizer = hr[x].finalizer
        /\ SameRecords(hr'[x], hr[x]) /\ hr'[x].status = hr[x].status
    BY <1>1, <2>1 DEF HTTPRoute, SameRecords
  <2> QED
    BY <1>1, <1>2, <2>1, <2>2 DEF UserCreates, Created
<1>3. CASE UserEdits(x)
  <2> DEFINE gen == hr[x].gen + 1
  <2> DEFINE rv == hr[x].rv + 1
  <2> HIDE DEF gen, rv
  <2>1. PICK spec \in Specs : hr' = [hr EXCEPT ![x].spec = spec, ![x].gen = gen, ![x].rv = rv]
    BY <1>3 DEF UserEdits, gen, rv
  <2>2. /\ hr'[x].phase = hr[x].phase /\ hr'[x].gen = gen /\ hr'[x].rv = rv
        /\ hr'[x].deleting = hr[x].deleting /\ hr'[x].finalizer = hr[x].finalizer
        /\ SameRecords(hr'[x], hr[x]) /\ hr'[x].status = hr[x].status
    BY <1>1, <2>1 DEF HTTPRoute, SameRecords
  <2> QED
    BY <1>1, <1>3, <2>1, <2>2 DEF UserEdits, Edited, gen, rv
<1>4. CASE UserDeletes(x)
  <2> DEFINE gen == hr[x].gen + 1
  <2> HIDE DEF gen
  <2> DEFINE marked == [hr[x] EXCEPT !.deleting = TRUE, !.gen = gen]
  <2> DEFINE phase == IF marked.deleting /\ ~marked.finalizer THEN "gone" ELSE marked.phase
  <2> DEFINE put == [marked EXCEPT !.rv = marked.rv + 1, !.phase = phase]
  <2>1. hr' = [hr EXCEPT ![x] = Bumped(hr[x], marked)] /\ hr[x].phase = "live" /\ ~hr[x].deleting
    BY <1>4 DEF UserDeletes, gen
  <2>2. /\ marked.deleting = TRUE /\ marked.finalizer = hr[x].finalizer
        /\ marked.phase = hr[x].phase /\ marked.rv = hr[x].rv
    BY <1>1 DEF HTTPRoute
  <2>3. Bumped(hr[x], marked) = put
    BY <2>1, <2>2 DEF Bumped
  <2>4. /\ put.deleting = TRUE /\ put.finalizer = hr[x].finalizer /\ put.phase = phase
        /\ put.rv = hr[x].rv + 1 /\ put.gen = gen /\ put.spec = hr[x].spec
        /\ SameRecords(put, hr[x]) /\ put.status = hr[x].status
    BY <1>1, <2>2 DEF HTTPRoute, SameRecords
  <2>5. phase = IF hr[x].finalizer THEN "live" ELSE "gone"
    BY <2>1, <2>2
  <2> HIDE DEF put, marked, phase
  <2>6. Marked(hr[x], put)
    BY <2>1, <2>4, <2>5 DEF Marked, gen
  <2> QED
    BY <1>1, <1>4, <2>1, <2>3, <2>6 DEF UserDeletes
<1> QED
  BY <1>2, <1>3, <1>4

\* What a step makes of an object in the API server.
LEMMA ServerStep ==
  ASSUME TypeInv, [Next]_vars, NEW r \in Routes
  PROVE  \/ hr'[r] = hr[r]
         \/ /\ UNCHANGED w
            /\ \/ Created(hr[r], hr'[r]) \/ Edited(hr[r], hr'[r]) \/ Marked(hr[r], hr'[r])
         \/ /\ w.pc # "idle" /\ w.route = r /\ hr[r].phase = "live" /\ hr[r].rv = w.obj.rv
            /\ PassWrites(hr[r], hr'[r])
<1>1. CASE UNCHANGED hr
  BY <1>1
<1>2. CASE ~UNCHANGED hr
  <2>1. CASE AddFinalizer \/ SaveAnnotations \/ WriteStatus \/ ReportError \/ RemoveFinalizer
    BY <1>2, <2>1, WriteStep
  <2>2. CASE \E x \in Routes : UserCreates(x) \/ UserEdits(x) \/ UserDeletes(x)
    BY <2>2, UserStep DEF TypeInv
  <2> QED
    BY <1>2, <2>1, <2>2, WhoWrites
<1> QED
  BY <1>1, <1>2

\* setRouteCondition changes conditions only.
LEMMA WithConditionFields ==
  ASSUME NEW o \in HTTPRoute, NEW acc
  PROVE  SameButStatus(WithCondition(o, acc), o) /\ WithCondition(o, acc).rv = o.rv
  BY DEF WithCondition, SameButStatus, HTTPRoute

\* The answer to Update becomes the object, but for the conditions.
LEMMA DecodedFields ==
  ASSUME NEW o, NEW answer \in HTTPRoute
  PROVE  SameButStatus(Decoded(o, answer), answer) /\ Decoded(o, answer).rv = answer.rv
  BY DEF Decoded, SameButStatus, HTTPRoute

\* The object of the pass is still the copy it had, but for the conditions.
ObjKept == /\ w.pc # "idle" /\ w'.route = w.route
           /\ w'.obj.rv = w.obj.rv /\ SameButStatus(w'.obj, w.obj)

\* ... or what an Update answered.
ObjAnswered == /\ w.pc # "idle" /\ w'.route = w.route /\ w.route \in Routes
               /\ w'.obj.rv = hr'[w.route].rv /\ SameButStatus(w'.obj, hr'[w.route])

\* An error leaves the copy.
LEMMA FailObj ==
  ASSUME w \in Worker, w.pc # "idle", Fail
  PROVE  ObjKept
<1> DEFINE o == WithCondition(w.obj, "False")
<1>1. SameButStatus(o, w.obj) /\ o.rv = w.obj.rv
  BY WithConditionFields DEF Worker
<1> HIDE DEF o
<1>2. w' = [w EXCEPT !.pc = "failed", !.obj = o]
  BY DEF Fail, o
<1> QED
  BY <1>1, <1>2 DEF ObjKept, Worker

\* Most steps of a pass leave its copy alone, or end it.
LEMMA PlainObj ==
  ASSUME w \in Worker,
         \/ ResolveParent \/ EnsureNodePort \/ RereadNodePort \/ GetServiceCall
         \/ UpdateServiceCall \/ CreateServiceCall \/ CreateRouteCall \/ ListRoutesCall
         \/ SkipBackendRef \/ SetRequestTransformCall \/ SetResponseTransformCall \/ WriteStatus
         \/ ReportError
         \/ DeleteRoutes \/ DeleteServices \/ DeleteNodePorts \/ RemoveFinalizer
  PROVE  ObjKept \/ w'.pc = "idle"
<1>1. Fail /\ w.pc # "idle" => ObjKept
  BY FailObj
<1>2. Requeue \/ w' = Idle => w'.pc = "idle"
  BY DEF Requeue, Idle
<1>3. w'.obj = w.obj /\ w'.route = w.route /\ w.pc # "idle" => ObjKept
  BY DEF ObjKept, SameButStatus
<1>4. CASE ResolveParent \/ EnsureNodePort \/ RereadNodePort
  BY <1>1, <1>3, <1>4 DEF ResolveParent, EnsureNodePort, RereadNodePort, WithHost, Worker
<1>5. CASE GetServiceCall \/ UpdateServiceCall \/ CreateServiceCall
  BY <1>1, <1>3, <1>5 DEF GetServiceCall, LookupFails, UpdateServiceCall, CreateServiceCall, Worker
<1>6. CASE CreateRouteCall \/ ListRoutesCall
  BY <1>1, <1>3, <1>6 DEF CreateRouteCall, ListRoutesCall, OnConflict, GotRoute, Worker
<1>7. CASE SkipBackendRef \/ SetRequestTransformCall \/ SetResponseTransformCall
  BY <1>3, <1>7 DEF SkipBackendRef, SetRequestTransformCall, SetResponseTransformCall, NextItem,
     Worker
<1>8. CASE DeleteRoutes \/ DeleteServices \/ DeleteNodePorts
  BY <1>3, <1>8 DEF DeleteRoutes, DeleteServices, DeleteNodePorts, Worker
<1>9. CASE WriteStatus \/ ReportError \/ RemoveFinalizer
  BY <1>2, <1>9 DEF WriteStatus, ReportError, RemoveFinalizer
<1> QED
  BY <1>4, <1>5, <1>6, <1>7, <1>8, <1>9

\* The two calls whose answer the pass goes on with.
LEMMA AnsweredObj ==
  ASSUME TypeOK, AddFinalizer \/ SaveAnnotations
  PROVE  ObjKept \/ ObjAnswered \/ w'.pc = "idle"
<1>1. w \in Worker /\ w.pc # "idle" /\ w.obj \in HTTPRoute /\ w.route \in Routes
      /\ hr \in [Routes -> HTTPRoute]
  BY InPass DEF TypeOK, AddFinalizer, SaveAnnotations
<1>2. CASE AddFinalizer
  <2> DEFINE o == [w.obj EXCEPT !.finalizer = TRUE]
  <2> DEFINE answer == Decoded(o, MetaPut(o))
  <2>1. o \in HTTPRoute
    BY <1>1 DEF HTTPRoute
  <2> HIDE DEF o
  <2>2. MetaPut(o) \in HTTPRoute
    BY <1>1, <2>1, MetaPutType
  <2>3. SameButStatus(answer, MetaPut(o)) /\ answer.rv = MetaPut(o).rv
    BY <2>2, DecodedFields
  <2> HIDE DEF answer
  <2>4. CASE Put(MetaPut(o)) /\ w' = [w EXCEPT !.obj = answer, !.pc = "parent"]
    <3>1. hr'[w.route] = MetaPut(o) /\ w'.obj = answer /\ w'.route = w.route
      BY <1>1, <2>4 DEF Put, Worker
    <3> QED
      BY <1>1, <2>3, <3>1 DEF ObjAnswered
  <2>5. CASE Requeue
    BY <2>5 DEF Requeue, Idle
  <2> QED
    BY <1>2, <2>4, <2>5 DEF AddFinalizer, o, answer
<1>3. CASE SaveAnnotations
  <2> DEFINE o == [w.obj EXCEPT !.svcIDs = w.sids, !.rtIDs = w.rids]
  <2> DEFINE answer == Decoded(o, MetaPut(o))
  <2> DEFINE saved == WithCondition(answer, "True")
  <2>1. o \in HTTPRoute
    BY <1>1 DEF HTTPRoute, Worker
  <2> HIDE DEF o
  <2>2. MetaPut(o) \in HTTPRoute /\ answer \in HTTPRoute
    BY <1>1, <2>1, MetaPutType, DecodedType
  <2>3. SameButStatus(answer, MetaPut(o)) /\ answer.rv = MetaPut(o).rv
    BY <2>2, DecodedFields
  <2> HIDE DEF answer
  <2>4. SameButStatus(saved, answer) /\ saved.rv = answer.rv
    BY <2>2, WithConditionFields
  <2> HIDE DEF saved
  <2>5. CASE Fail
    BY <1>1, <2>5, FailObj
  <2>6. CASE ~Fail
    <3>1. Put(MetaPut(o)) /\ w'.obj = saved /\ w'.route = w.route
      BY <1>1, <1>3, <2>6 DEF SaveAnnotations, o, answer, saved, Worker
    <3>2. hr'[w.route] = MetaPut(o)
      BY <1>1, <3>1 DEF Put
    <3> QED
      BY <1>1, <2>3, <2>4, <3>1, <3>2 DEF ObjAnswered, SameButStatus
  <2> QED
    BY <2>5, <2>6
<1> QED
  BY <1>2, <1>3

\* A pass starts from the informer's copy, and the server's object stays.
LEMMA StartObj ==
  ASSUME NEW r \in Routes, Reconcile(r)
  PROVE  /\ UNCHANGED <<hr, hrCache>>
         /\ UNCHANGED w \/ (w'.route = r /\ w'.obj = hrCache[r])
<1>1. CASE UNCHANGED w
  BY <1>1 DEF Reconcile
<1>2. CASE StartDelete(Read(r), r)
  <2>1. w'.route = r /\ w'.obj = Read(r)
    BY <1>2 DEF StartDelete, Idle
  <2> QED
    BY <2>1 DEF Reconcile, Read
<1>3. ASSUME w' = [Idle EXCEPT !.pc = IF Read(r).finalizer THEN "parent" ELSE "finalizer",
                               !.route = r, !.obj = Read(r)]
      PROVE  w'.route = r /\ w'.obj = Read(r)
  BY <1>3 DEF Idle
<1> QED
  BY <1>1, <1>2, <1>3 DEF Reconcile, Read

\* The object of the pass, step by step.
LEMMA ObjStep ==
  ASSUME TypeInv, [Next]_vars
  PROVE  \/ UNCHANGED w \/ w'.pc = "idle" \/ ObjKept \/ ObjAnswered
         \/ \E r \in Routes : /\ Reconcile(r) /\ UNCHANGED <<hr, hrCache>>
                              /\ w'.route = r /\ w'.obj = hrCache[r]
<1>1. TypeOK /\ w \in Worker
  BY DEF TypeInv, TypeOK
<1>2. CASE WorkerStep
  BY <1>1, <1>2, PlainObj, AnsweredObj DEF WorkerStep
<1>3. CASE Restart
  BY <1>3 DEF Restart, Idle
<1>4. CASE \E r \in Routes : Reconcile(r)
  BY <1>4, StartObj
<1> QED
  BY <1>2, <1>3, <1>4, WhoMoves

----------------------------------------------------------------------------
(* The inductive invariant.  VersionsAreFaithful compares some fields; what  *)
(* is inductive compares all of them, and needs that an object is blank      *)
(* until a user creates it, so that its first version is a new one.          *)

NewIsBlank == \A r \in Routes : hr[r].phase = "new" => hr[r] = Uncreated

CacheFaithful ==
    \A r \in Routes : /\ hrCache[r].rv <= hr[r].rv
                      /\ hrCache[r].rv = hr[r].rv => hrCache[r] = hr[r]

PassFaithful ==
    w.pc # "idle" => /\ w.obj.rv <= hr[w.route].rv
                     /\ w.obj.rv = hr[w.route].rv => SameButStatus(w.obj, hr[w.route])

VerInv == TypeInv /\ NewIsBlank /\ CacheFaithful /\ PassFaithful

\* A step that changes an object raises its version.
LEMMA VersionRises ==
  ASSUME TypeInv, NewIsBlank, [Next]_vars, NEW r \in Routes, hr'[r] # hr[r]
  PROVE  hr'[r].rv > hr[r].rv
<1>1. hr[r] \in HTTPRoute /\ hr[r].rv \in Nat
  BY DEF TypeInv, TypeOK, HTTPRoute
<1>2. CASE Created(hr[r], hr'[r])
  <2>1. hr[r].rv = 0
    BY <1>2 DEF Created, NewIsBlank, Uncreated
  <2> QED
    BY <1>2, <2>1 DEF Created
<1>3. CASE Edited(hr[r], hr'[r]) \/ Marked(hr[r], hr'[r])
  BY <1>1, <1>3 DEF Edited, Marked
<1>4. CASE PassWrites(hr[r], hr'[r])
  BY <1>1, <1>4 DEF PassWrites, Written
<1> QED
  BY <1>2, <1>3, <1>4, ServerStep

\* Nothing but a user takes an object out of its blank state.
LEMMA NewIsBlankKept ==
  ASSUME TypeInv, NewIsBlank, [Next]_vars
  PROVE  NewIsBlank'
<1> SUFFICES ASSUME NEW r \in Routes, hr'[r].phase = "new"
             PROVE  hr'[r] = Uncreated
  BY DEF NewIsBlank
<1>1. ~Created(hr[r], hr'[r]) /\ ~Edited(hr[r], hr'[r])
  BY DEF Created, Edited
<1>2. ~Marked(hr[r], hr'[r])
  BY DEF Marked
<1>3. PassWrites(hr[r], hr'[r]) => hr'[r] = hr[r]
  BY DEF PassWrites, Written
<1> QED
  BY <1>1, <1>2, <1>3, ServerStep DEF NewIsBlank

\* The informers' copies.
LEMMA CacheFaithfulKept ==
  ASSUME VerInv, [Next]_vars
  PROVE  CacheFaithful'
<1> SUFFICES ASSUME NEW r \in Routes
             PROVE  /\ hrCache'[r].rv <= hr'[r].rv
                    /\ hrCache'[r].rv = hr'[r].rv => hrCache'[r] = hr'[r]
  BY DEF CacheFaithful
<1>1. TypeInv /\ TypeInv'
  BY TypeInvKept DEF VerInv
<1>2. hr[r].rv \in Nat /\ hrCache[r].rv \in Nat /\ hr'[r].rv \in Nat
  BY <1>1 DEF TypeInv, TypeOK, HTTPRoute
<1>3. hr'[r] = hr[r] \/ hr'[r].rv > hr[r].rv
  BY VersionRises DEF VerInv
<1>4. hrCache'[r] = hrCache[r] \/ hrCache'[r] = hr[r]
  BY <1>1, CacheStep
<1>5. hrCache[r].rv <= hr[r].rv /\ (hrCache[r].rv = hr[r].rv => hrCache[r] = hr[r])
  BY DEF VerInv, CacheFaithful
<1> QED
  BY <1>2, <1>3, <1>4, <1>5

\* The copy of the pass.
LEMMA PassFaithfulKept ==
  ASSUME VerInv, [Next]_vars
  PROVE  PassFaithful'
<1> SUFFICES ASSUME w'.pc # "idle"
             PROVE  /\ w'.obj.rv <= hr'[w'.route].rv
                    /\ w'.obj.rv = hr'[w'.route].rv => SameButStatus(w'.obj, hr'[w'.route])
  BY DEF PassFaithful
<1>1. TypeInv /\ TypeInv' /\ w'.route \in Routes /\ w.obj \in HTTPRoute
  BY TypeInvKept DEF VerInv, TypeInv, TypeOK, Worker
<1>2. ASSUME NEW r \in Routes
      PROVE  hr[r].rv \in Nat /\ hr'[r].rv \in Nat /\ hrCache[r].rv \in Nat
             /\ (hr'[r] = hr[r] \/ hr'[r].rv > hr[r].rv)
  <2>1. hr'[r] = hr[r] \/ hr'[r].rv > hr[r].rv
    BY VersionRises DEF VerInv
  <2> QED
    BY <1>1, <2>1 DEF TypeInv, TypeOK, HTTPRoute
<1>3. w.obj.rv \in Nat
  BY <1>1 DEF HTTPRoute
<1>4. CASE UNCHANGED w \/ ObjKept
  <2>1. /\ w.pc # "idle" /\ w'.route = w.route
        /\ w'.obj.rv = w.obj.rv /\ SameButStatus(w'.obj, w.obj)
    BY <1>4 DEF ObjKept, SameButStatus
  <2>2. /\ w.obj.rv <= hr[w.route].rv
        /\ w.obj.rv = hr[w.route].rv => SameButStatus(w.obj, hr[w.route])
    BY <2>1 DEF VerInv, PassFaithful
  <2> QED
    BY <1>1, <1>2, <1>3, <2>1, <2>2 DEF SameButStatus
<1>5. CASE ObjAnswered
  BY <1>1, <1>2, <1>5 DEF ObjAnswered
<1>6. ASSUME NEW r \in Routes, UNCHANGED hr, w'.route = r, w'.obj = hrCache[r]
      PROVE  /\ w'.obj.rv <= hr'[w'.route].rv
             /\ w'.obj.rv = hr'[w'.route].rv => SameButStatus(w'.obj, hr'[w'.route])
  BY <1>6 DEF VerInv, CacheFaithful, SameButStatus
<1> QED
  BY <1>1, <1>4, <1>5, <1>6, ObjStep

\* The inductive invariant holds at the start.
LEMMA VerInit == Init => VerInv
<1> SUFFICES ASSUME Init PROVE VerInv
  OBVIOUS
<1>1. TypeInv /\ hr = [r \in Routes |-> Uncreated] /\ hrCache = hr /\ w.pc = "idle"
  BY OwnInit DEF OwnInv, Init, Idle
<1>2. Uncreated.rv = 0
  BY DEF Uncreated
<1> QED
  BY <1>1, <1>2 DEF VerInv, NewIsBlank, CacheFaithful, PassFaithful

\* Every step keeps it.
LEMMA VerInvKept == VerInv /\ [Next]_vars => VerInv'
  BY TypeInvKept, NewIsBlankKept, CacheFaithfulKept, PassFaithfulKept DEF VerInv

\* It implies the property.
LEMMA VerInvImplies == VerInv => VersionsAreFaithful
  BY DEF VerInv, CacheFaithful, PassFaithful, VersionsAreFaithful, SameButStatus

\* A copy of a route that has the server's version is the server's object, so a
\* write that optimistic locking lets through was made from what it replaces, though
\* the copy was read several calls ago from a cache that lags (:43, :174-177).
THEOREM VersionsFaithful == Spec => []VersionsAreFaithful
  BY VerInit, VerInvKept, VerInvImplies, PTL DEF Spec
=============================================================================
