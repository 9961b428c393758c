----------------------- MODULE HTTPRouteAccepted_proofs -----------------------
(***************************************************************************)
(* Accepted=True at a route's generation is never a lie about its records   *)
(* (AcceptedIsBackedByRecords), for all specs, parents and identifiers.     *)
(*                                                                          *)
(* The argument: no condition is ahead of the generation it was set at, so  *)
(* an edit makes every condition old; the loop over the backendRefs leaves  *)
(* nothing behind it without a service and a route but what it passes over  *)
(* (ItemProgress), so what the pass saves is complete for the spec it read; *)
(* and a save is accepted only if that is the server's spec.                *)
(***************************************************************************)
EXTENDS HTTPRouteAccounting_proofs

\* A backendRef has a service and a route of its rule.
ItemDone(it, svcIDs, rtIDs) ==
    svcIDs[it.backend] # None /\ rtIDs[<<it.backend, it.rule>>] # None

\* So do all that the loop does not pass over.
Complete(spec, svcIDs, rtIDs) == \A i \in ServiceRefs(spec) : ItemDone(spec[i], svcIDs, rtIDs)

\* They are positions of the spec.
LEMMA ServiceRefsAre ==
  ASSUME NEW spec
  PROVE  ServiceRefs(spec) \subseteq DOMAIN spec
  BY DEF ServiceRefs

\* No condition is ahead of the object.
Timed(o) == \A g \in Gateways : o.status[g].gen <= o.gen

\* An object whose conditions tell the truth.
Sane(o) ==
    /\ Timed(o)
    /\ (\E g \in Gateways : o.status[g] = [acc |-> "True", gen |-> o.gen])
          => Complete(o.spec, o.svcIDs, o.rtIDs)

ObjectsSane == \A r \in Routes : Sane(hr[r]) /\ Sane(hrCache[r])
PassSane == w.pc # "idle" => Sane(w.obj)

\* The loop over the backendRefs leaves nothing behind it undone that it does not pass
\* over (:125-170).
ItemProgress ==
    /\ w.pc \in ItemPCs => \A i \in ServiceRefs(w.obj.spec) :
          i < w.item => ItemDone(w.obj.spec[i], w.sids, w.rids)
    /\ w.pc \in {"getService", "updateService", "createRoute", "listRoutes", "reqTransform",
                 "respTransform"} => CurrentService # None
    /\ w.pc \in {"reqTransform", "respTransform"} => w.rids[RuleKey] # None
    /\ w.pc = "save" => Complete(w.obj.spec, w.sids, w.rids)

AcceptInv == MapInv /\ ItemProgress /\ ObjectsSane /\ PassSane

----------------------------------------------------------------------------
(* The loop.                                                                 *)

\* A step to another call for the same backendRef.
LEMMA ProgressInPlace ==
  ASSUME ItemProgress, w.pc \in ItemPCs, KeepsPlace, w'.pc \in ItemPCs,
         w'.pc \in {"getService", "updateService", "createRoute", "listRoutes", "reqTransform",
                    "respTransform"} => CurrentService # None,
         w'.pc \in {"reqTransform", "respTransform"} => w.rids[RuleKey] # None
  PROVE  ItemProgress'
<1>1. CurrentItem' = CurrentItem
  BY DEF CurrentItem, KeepsPlace, Keeps
<1>2. CurrentService' = CurrentService /\ RuleKey' = RuleKey
  BY <1>1 DEF CurrentService, ServiceKey, RuleKey, KeepsPlace, Keeps
<1>3. w'.pc # "save"
  BY DEF ItemPCs
<1>4. \A i \in ServiceRefs(w'.obj.spec) :
         i < w'.item => ItemDone(w'.obj.spec[i], w'.sids, w'.rids)
  BY DEF ItemProgress, KeepsPlace, Keeps, ItemDone
<1>5. w'.rids = w.rids
  BY DEF KeepsPlace, Keeps
<1> QED
  BY <1>2, <1>3, <1>4, <1>5 DEF ItemProgress

\* A service for the backendRef is found or made (:148-152).
LEMMA ProgressService ==
  ASSUME MapInv, ItemProgress, ~Fail,
         EnsureNodePort \/ RereadNodePort \/ GetServiceCall \/ UpdateServiceCall
         \/ CreateServiceCall
  PROVE  ItemProgress'
<1>1. TypeOK /\ w \in Worker
  BY DEF MapInv, OwnInv, TypeInv, TypeOK
<1>2. CASE EnsureNodePort \/ RereadNodePort \/ GetServiceCall \/ UpdateServiceCall
  <2>1. /\ w.pc \in ItemPCs /\ KeepsPlace
        /\ w'.pc \in ItemPCs \ {"listRoutes", "reqTransform", "respTransform"}
        /\ w'.pc \in {"getService", "updateService", "createRoute"}
              => CurrentService # None \/ w.pc \in {"getService", "updateService"}
    BY <1>1, <1>2, LookupFields
  <2>2. w'.pc \in {"getService", "updateService", "createRoute"} => CurrentService # None
    BY <2>1 DEF ItemProgress
  <2> QED
    BY <2>1, <2>2, ProgressInPlace
<1>3. CASE CreateServiceCall
  <2>1. PICK s \in FreshServices :
          /\ w.pc = "createService" /\ w'.pc = "createRoute" /\ w'.obj = w.obj
          /\ w'.item = w.item /\ w'.rids = w.rids
          /\ w'.sids = [w.sids EXCEPT ![ServiceKey] = s]
    BY <1>1, <1>3, CreateServiceFields
  <2>2. w.pc \in ItemPCs
    BY <2>1 DEF ItemPCs
  <2>3. ServiceKey \in Backends /\ w.sids \in [Backends -> ServiceIDs \union {None}]
        /\ w.obj \in HTTPRoute
    BY <1>1, <2>2, InCall DEF Worker
  <2>4. s # None
    BY CloudAssumption DEF FreshServices
  <2>5. ServiceKey' = ServiceKey
    BY <2>1 DEF ServiceKey, CurrentItem
  <2>6. CurrentService' = s
    BY <2>1, <2>3, <2>5 DEF CurrentService
  <2>7. ASSUME NEW b, w.sids[b] # None, b \in Backends
        PROVE  w'.sids[b] # None
    BY <2>1, <2>3, <2>4, <2>7
  <2>8. ASSUME NEW i \in ServiceRefs(w.obj.spec), i < w.item
        PROVE  ItemDone(w.obj.spec[i], w'.sids, w'.rids)
    <3>1. w.obj.spec[i] \in Item
      BY <2>3, SpecType, ServiceRefsAre
    <3>2. w.obj.spec[i].backend \in Backends
      BY <3>1 DEF Item
    <3>3. ItemDone(w.obj.spec[i], w.sids, w.rids)
      BY <2>2, <2>8 DEF ItemProgress
    <3> QED
      BY <2>1, <2>7, <3>2, <3>3 DEF ItemDone
  <2> QED
    BY <2>1, <2>4, <2>6, <2>8 DEF ItemProgress
<1> QED
  BY <1>2, <1>3

\* A route for the rule is made or found (:154-158).
LEMMA ProgressRoute ==
  ASSUME MapInv, ItemProgress, ~Fail, CreateRouteCall \/ ListRoutesCall
  PROVE  ItemProgress'
<1>1. TypeOK /\ w \in Worker /\ Linked(services, routes)
  BY DEF MapInv, OwnInv, TypeInv, TypeOK
<1>2. w.pc \in {"createRoute", "listRoutes"} /\ w.pc \in ItemPCs
  BY <1>1, RouteFields DEF ItemPCs
<1>3. CASE w'.pc = "listRoutes" /\ KeepsPlace
  BY <1>2, <1>3, ProgressInPlace DEF ItemProgress, ItemPCs
<1>4. CASE /\ w'.pc = "reqTransform" /\ w'.obj = w.obj /\ w'.item = w.item /\ w'.sids = w.sids
           /\ \E t \in RouteIDs : w'.rids = [w.rids EXCEPT ![RuleKey] = t]
  <2>1. PICK t \in RouteIDs : w'.rids = [w.rids EXCEPT ![RuleKey] = t]
    BY <1>4
  <2>2. /\ RuleKey \in Backends \X RuleIdx /\ w.obj \in HTTPRoute
        /\ w.rids \in [Backends \X RuleIdx -> RouteIDs \union {None}]
    BY <1>1, <1>2, InCall DEF Worker
  <2>3. t # None
    BY CloudAssumption
  <2>4. RuleKey' = RuleKey /\ CurrentService' = CurrentService
    BY <1>4 DEF RuleKey, CurrentService, ServiceKey, CurrentItem
  <2>5. w'.rids[RuleKey] # None
    BY <2>1, <2>2, <2>3
  <2>6. ASSUME NEW k \in Backends \X RuleIdx, w.rids[k] # None
        PROVE  w'.rids[k] # None
    BY <2>1, <2>2, <2>3, <2>6
  <2>7. ASSUME NEW i \in ServiceRefs(w.obj.spec), i < w.item
        PROVE  ItemDone(w.obj.spec[i], w'.sids, w'.rids)
    <3> DEFINE it == w.obj.spec[i]
    <3>1. it \in Item
      BY <2>2, SpecType, ServiceRefsAre
    <3>2. <<it.backend, it.rule>> \in Backends \X RuleIdx
      BY <3>1 DEF Item
    <3>3. ItemDone(it, w.sids, w.rids)
      BY <1>2, <2>7 DEF ItemProgress
    <3> HIDE DEF it
    <3>4. ItemDone(it, w'.sids, w'.rids)
      BY <1>4, <2>6, <3>2, <3>3 DEF ItemDone
    <3> QED
      BY <3>4 DEF it
  <2>8. CurrentService # None
    BY <1>2 DEF ItemProgress
  <2> QED
    BY <1>4, <2>4, <2>5, <2>7, <2>8 DEF ItemProgress
<1> QED
  BY <1>1, <1>3, <1>4, RouteFields

\* The backendRef is done or passed over, and the loop goes on or is over (:125-170).
LEMMA ProgressTransform ==
  ASSUME MapInv, ItemProgress, SkipBackendRef \/ SetRequestTransformCall \/ SetResponseTransformCall
  PROVE  ItemProgress'
<1>1. TypeOK
  BY DEF MapInv, OwnInv, TypeInv
<1>2. /\ w.pc \in {"nodeport", "reqTransform", "respTransform"} /\ w.pc \in ItemPCs
      /\ w.pc = "nodeport" => SkipBackendRef
      /\ Keeps /\ w'.obj = w.obj
      /\ \/ w'.pc = "respTransform" /\ w'.item = w.item /\ w.pc # "nodeport"
         \/ w'.pc = "nodeport" /\ w'.item = w.item + 1
         \/ w'.pc = "save" /\ w.item = Len(w.obj.spec)
  BY <1>1, TransformFields DEF ItemPCs
<1>3. /\ w.obj \in HTTPRoute /\ w.item \in DOMAIN w.obj.spec
      /\ w.pc # "nodeport" => CurrentService # None /\ w.rids[RuleKey] # None
  BY <1>1, <1>2, InCall DEF ItemProgress, TypeOK
<1>4. /\ DOMAIN w.obj.spec = 1 .. Len(w.obj.spec) /\ Len(w.obj.spec) \in Nat
      /\ w.item \in Nat
  BY <1>3, SpecType
<1>5. w.item \in ServiceRefs(w.obj.spec) => ItemDone(w.obj.spec[w.item], w.sids, w.rids)
  <2>1. CASE w.pc = "nodeport"
    BY <1>2, <2>1 DEF SkipBackendRef, CurrentItem, ServiceRefs
  <2>2. CASE w.pc # "nodeport"
    BY <1>3, <2>2 DEF ItemDone, CurrentService, ServiceKey, RuleKey, CurrentItem
  <2> QED
    BY <2>1, <2>2
<1>6. ASSUME NEW i \in ServiceRefs(w.obj.spec), i <= w.item
      PROVE  ItemDone(w.obj.spec[i], w.sids, w.rids)
  <2>1. i < w.item \/ i = w.item
    BY <1>4, <1>6, ServiceRefsAre
  <2> QED
    BY <1>2, <1>5, <2>1 DEF ItemProgress
<1>7. CASE w'.pc = "respTransform" /\ w'.item = w.item /\ w.pc # "nodeport"
  BY <1>2, <1>3, <1>7, ProgressInPlace DEF KeepsPlace, ItemPCs
<1>8. CASE w'.pc = "nodeport" /\ w'.item = w.item + 1
  <2>1. \A i \in ServiceRefs(w.obj.spec) : i < w.item + 1 => i <= w.item
    BY <1>4, ServiceRefsAre
  <2> QED
    BY <1>2, <1>6, <1>8, <2>1 DEF ItemProgress, Keeps
<1>9. CASE w'.pc = "save" /\ w.item = Len(w.obj.spec)
  <2>1. \A i \in ServiceRefs(w.obj.spec) : i <= w.item
    BY <1>4, <1>9, ServiceRefsAre
  <2> QED
    BY <1>2, <1>6, <1>9, <2>1 DEF ItemProgress, Keeps, Complete, ItemPCs
<1> QED
  BY <1>2, <1>7, <1>8, <1>9

\* The loop keeps its progress.
LEMMA ItemProgressKept ==
  ASSUME MapInv, ItemProgress, [Next]_vars
  PROVE  ItemProgress'
<1>1. TypeOK /\ w \in Worker /\ Linked(services, routes)
  BY DEF MapInv, OwnInv, TypeInv, TypeOK
<1>2. CASE UNCHANGED w
  BY <1>2 DEF ItemProgress, CurrentService, ServiceKey, RuleKey, CurrentItem
<1>3. CASE w'.pc \notin ItemPCs \union {"save"}
  BY <1>3 DEF ItemProgress, ItemPCs
<1>4. CASE w' = Idle \/ Fail
  <2>1. w'.pc \in {"idle", "failed"}
    BY <1>1, <1>4, IdleFields, FailFields
  <2> QED
    BY <1>3, <2>1 DEF ItemPCs
<1>5. CASE ResolveParent
  <2>1. \/ Fail
        \/ /\ w'.pc = IF w.obj.spec = <<>> THEN "save" ELSE "nodeport"
           /\ w'.item = 1 /\ w'.obj = w.obj
    BY <1>1, <1>5, ResolveFields
  <2>2. DOMAIN w.obj.spec = 1 .. Len(w.obj.spec) /\ Len(w.obj.spec) \in Nat
    BY <1>1, SpecType DEF Worker
  <2>3. CASE w'.pc = "save" /\ w'.obj = w.obj /\ w.obj.spec = <<>>
    <3>1. ServiceRefs(w'.obj.spec) = {}
      BY <2>3, ServiceRefsAre
    <3> QED
      BY <2>3, <3>1 DEF ItemProgress, Complete, ItemPCs
  <2>4. CASE w'.pc = "nodeport" /\ w'.obj = w.obj /\ w'.item = 1
    <3>1. \A i \in ServiceRefs(w'.obj.spec) : ~(i < w'.item)
      BY <2>2, <2>4, ServiceRefsAre
    <3> QED
      BY <2>4, <3>1 DEF ItemProgress
  <2> QED
    BY <1>4, <2>1, <2>3, <2>4
<1>6. CASE EnsureNodePort \/ RereadNodePort \/ GetServiceCall \/ UpdateServiceCall
           \/ CreateServiceCall \/ CreateRouteCall \/ ListRoutesCall
           \/ SkipBackendRef \/ SetRequestTransformCall \/ SetResponseTransformCall
  BY <1>4, <1>6, ProgressService, ProgressRoute, ProgressTransform
<1>7. CASE SaveAnnotations \/ AddFinalizer
  <2>1. w'.pc \in {"status", "parent", "failed", "idle"}
    BY <1>1, <1>7, SaveFields, AddFinalizerFields, FailFields, IdleFields
  <2> QED
    BY <1>3, <2>1 DEF ItemPCs
<1>8. CASE WriteStatus \/ ReportError \/ RemoveFinalizer
  BY <1>4, <1>8, EndFields
<1>9. CASE DeleteRoutes \/ DeleteServices \/ DeleteNodePorts
  <2>1. w'.pc \in DeletePCs
    BY <1>1, <1>9, DeleteRoutesFields, DeleteServicesFields, DeleteNodePortsFields
       DEF FirstNodePortStep, DeletePCs
  <2> QED
    BY <1>3, <2>1 DEF ItemPCs, DeletePCs
<1>10. ASSUME NEW r \in Routes, Reconcile(r), ~UNCHANGED w
       PROVE  ItemProgress'
  <2>1. w'.pc \in DeletePCs \union {"parent", "finalizer"}
    BY <1>10, StartFields DEF FirstNodePortStep, DeletePCs
  <2> QED
    BY <1>3, <2>1 DEF ItemPCs, DeletePCs
<1>11. CASE Restart
  BY <1>4, <1>11 DEF Restart
<1> QED
  BY <1>2, <1>5, <1>6, <1>7, <1>8, <1>9, <1>10, <1>11, WhoMoves DEF WorkerStep

----------------------------------------------------------------------------
(* The objects.                                                              *)

\* An object is as sane as one with its conditions, generation, spec and records.
LEMMA SaneLike ==
  ASSUME NEW o, NEW p, Sane(p), o.status = p.status, o.gen = p.gen, o.spec = p.spec,
         SameRecords(o, p)
  PROVE  Sane(o)
  BY DEF Sane, Timed, SameRecords

\* A user's write makes every condition old.
LEMMA UserSane ==
  ASSUME NEW old \in HTTPRoute, NEW new \in HTTPRoute, Sane(old),
         \/ Created(old, new) /\ old = Uncreated
         \/ Edited(old, new) \/ Marked(old, new)
  PROVE  Sane(new)
<1>1. /\ \A g \in Gateways : old.status[g].gen \in Nat /\ old.status[g].gen <= old.gen
      /\ old.gen \in Nat
  BY DEF Sane, Timed, HTTPRoute, Condition
<1>2. new.status = old.status
  BY DEF Created, Edited, Marked
<1>3. new.gen = old.gen + 1
  <2>1. Uncreated.gen = 0
    BY DEF Uncreated
  <2> QED
    BY <2>1 DEF Created, Edited, Marked
<1>4. \A g \in Gateways : new.status[g].gen < new.gen /\ new.status[g].gen <= new.gen
  BY <1>1, <1>2, <1>3
<1>5. \A g \in Gateways : new.status[g].gen # new.gen
  BY <1>1, <1>2, <1>3
<1> QED
  BY <1>4, <1>5 DEF Sane, Timed

\* A pass writes over what it read: finalizer and records under old conditions, or
\* conditions over the records they are about.
LEMMA WriteSane ==
  ASSUME AcceptInv, w.pc # "idle", hr[w.route].rv = w.obj.rv, NEW new,
         PassWrites(hr[w.route], new)
  PROVE  Sane(new)
<1>1. w.route \in Routes
  BY DEF AcceptInv, MapInv, OwnInv, TypeInv, TypeOK
<1>2. Sane(hr[w.route]) /\ Sane(w.obj)
  BY <1>1 DEF AcceptInv, ObjectsSane, PassSane
<1>3. SameButStatus(w.obj, hr[w.route])
  BY WrittenFrom DEF AcceptInv, MapInv
<1>4. new.gen = hr[w.route].gen /\ new.spec = hr[w.route].spec
  BY DEF PassWrites, Written
<1>5. CASE SameRecords(new, w.obj) /\ new.status = hr[w.route].status
  <2>1. SameRecords(new, hr[w.route])
    BY <1>3, <1>5 DEF SameRecords, SameButStatus
  <2> QED
    BY <1>2, <1>4, <1>5, <2>1, SaneLike
<1>6. CASE /\ w.pc = "save" /\ new.svcIDs = w.sids /\ new.rtIDs = w.rids
           /\ new.status = hr[w.route].status
  <2>1. Complete(w.obj.spec, w.sids, w.rids)
    BY <1>6 DEF AcceptInv, ItemProgress
  <2>2. new.spec = w.obj.spec
    BY <1>3, <1>4 DEF SameButStatus
  <2>3. Timed(new)
    BY <1>2, <1>4, <1>6 DEF Sane, Timed
  <2> QED
    BY <1>6, <2>1, <2>2, <2>3 DEF Sane
<1>7. CASE SameRecords(new, hr[w.route]) /\ new.status = w.obj.status
  <2>1. SameRecords(new, w.obj) /\ new.gen = w.obj.gen /\ new.spec = w.obj.spec
    BY <1>3, <1>4, <1>7 DEF SameRecords, SameButStatus
  <2> QED
    BY <1>2, <1>7, <2>1, SaneLike
<1> QED
  BY <1>5, <1>6, <1>7 DEF PassWrites

\* The server's objects and the informers' copies stay sane.
LEMMA ObjectsSaneKept ==
  ASSUME AcceptInv, [Next]_vars
  PROVE  ObjectsSane'
<1>1. TypeInv /\ TypeInv' /\ VerInv
  BY TypeInvKept DEF AcceptInv, MapInv, LifeInv, VerInv
<1> SUFFICES ASSUME NEW r \in Routes
             PROVE  Sane(hr'[r]) /\ Sane(hrCache'[r])
  BY DEF ObjectsSane, Sane, Timed, Complete, ItemDone
<1>2. hr[r] \in HTTPRoute /\ hr'[r] \in HTTPRoute
  BY <1>1 DEF TypeInv, TypeOK
<1>3. Sane(hr[r]) /\ Sane(hrCache[r])
  BY DEF AcceptInv, ObjectsSane
<1>4. hrCache'[r] = hrCache[r] \/ hrCache'[r] = hr[r]
  BY <1>1, CacheStep
<1>5. Created(hr[r], hr'[r]) => hr[r] = Uncreated
  BY <1>1, BlankCache DEF Created
<1>6. Sane(hr'[r])
  BY <1>1, <1>2, <1>3, <1>5, UserSane, WriteSane, ServerStep
<1> QED
  BY <1>3, <1>4, <1>6

----------------------------------------------------------------------------
(* The object of the pass.                                                   *)

\* setRouteCondition replaces the parent's condition by one at the generation.
LEMMA ConditionSet ==
  ASSUME NEW o \in HTTPRoute, NEW acc, NEW g \in Gateways
  PROVE  LET p == WithCondition(o, acc) IN
         p.status[g] = o.status[g] \/ p.status[g] = [acc |-> acc, gen |-> o.gen]
<1> DEFINE c == [acc |-> acc, gen |-> o.gen]
<1> HIDE DEF c
<1>1. WithCondition(o, acc).status = [o.status EXCEPT ![Parent] = c]
  BY DEF WithCondition, HTTPRoute, c
<1>2. o.status \in [Gateways -> Condition]
  BY DEF HTTPRoute
<1>3. [o.status EXCEPT ![Parent] = c][g] \in {o.status[g], c}
  BY <1>2
<1> QED
  BY <1>1, <1>3 DEF c

\* Accepted=False is never a lie of the kind meant here.
LEMMA FailSane ==
  ASSUME NEW o \in HTTPRoute, Sane(o)
  PROVE  Sane(WithCondition(o, "False"))
<1> DEFINE p == WithCondition(o, "False")
<1>1. SameButStatus(p, o)
  BY WithConditionFields
<1>2. \A g \in Gateways : p.status[g] = o.status[g] \/ p.status[g] = [acc |-> "False", gen |-> o.gen]
  BY ConditionSet
<1> HIDE DEF p
<1>3. o.gen \in Nat
  BY DEF HTTPRoute
<1>4. Timed(p)
  <2>1. ASSUME NEW g \in Gateways
        PROVE  p.status[g].gen <= p.gen
    BY <1>1, <1>2, <1>3, <2>1 DEF Sane, Timed, SameButStatus
  <2> QED
    BY <2>1 DEF Timed
<1>5. ASSUME NEW g \in Gateways, p.status[g] = [acc |-> "True", gen |-> p.gen]
      PROVE  o.status[g] = [acc |-> "True", gen |-> o.gen]
  BY <1>1, <1>2, <1>5 DEF SameButStatus
<1>6. p.spec = o.spec /\ p.svcIDs = o.svcIDs /\ p.rtIDs = o.rtIDs
  BY <1>1 DEF SameButStatus
<1>7. Sane(p)
  BY <1>4, <1>5, <1>6 DEF Sane
<1> QED
  BY <1>7 DEF p

\* Accepted=True is true of an object whose records are complete.
LEMMA SuccessSane ==
  ASSUME NEW o \in HTTPRoute, Timed(o), Complete(o.spec, o.svcIDs, o.rtIDs)
  PROVE  Sane(WithCondition(o, "True"))
<1> DEFINE p == WithCondition(o, "True")
<1>1. SameButStatus(p, o)
  BY WithConditionFields
<1>2. \A g \in Gateways : p.status[g] = o.status[g] \/ p.status[g] = [acc |-> "True", gen |-> o.gen]
  BY ConditionSet
<1> HIDE DEF p
<1>3. o.gen \in Nat
  BY DEF HTTPRoute
<1>4. Timed(p)
  <2>1. ASSUME NEW g \in Gateways
        PROVE  p.status[g].gen <= p.gen
    BY <1>1, <1>2, <1>3, <2>1 DEF Timed, SameButStatus
  <2> QED
    BY <2>1 DEF Timed
<1>5. Sane(p)
  BY <1>1, <1>4 DEF Sane, SameButStatus
<1> QED
  BY <1>5 DEF p

\* What an Update answers carries the conditions of the server or of the pass.
LEMMA AnswerTimed ==
  ASSUME NEW o, NEW answer \in HTTPRoute, Timed(answer),
         \A g \in Gateways : o.status[g].gen <= answer.gen
  PROVE  /\ Timed(Decoded(o, answer))
         /\ Decoded(o, answer).status \in {o.status, answer.status}
<1>1. SameButStatus(Decoded(o, answer), answer)
  BY DecodedFields
<1>2. Decoded(o, answer).status \in {o.status, answer.status}
  BY DEF Decoded, HTTPRoute
<1>3. CASE Decoded(o, answer).status = o.status
  BY <1>1, <1>2, <1>3 DEF Timed, SameButStatus
<1>4. CASE Decoded(o, answer).status = answer.status
  BY <1>1, <1>2, <1>4 DEF Timed, SameButStatus
<1> QED
  BY <1>2, <1>3, <1>4

\* The pass goes on with the object as it was, but for a condition after an error.
LEMMA PassSaneKept ==
  ASSUME AcceptInv, [Next]_vars
  PROVE  PassSane'
<1>1. TypeInv /\ TypeInv' /\ TypeOK /\ w \in Worker /\ Linked(services, routes)
  BY TypeInvKept DEF AcceptInv, MapInv, OwnInv, TypeInv, TypeOK
<1> SUFFICES ASSUME w'.pc # "idle"
             PROVE  Sane(w'.obj)
  BY DEF PassSane, Sane, Timed, Complete, ItemDone
<1>2. w.pc # "idle" => Sane(w.obj) /\ w.obj \in HTTPRoute
  BY <1>1, InPass DEF AcceptInv, PassSane
<1>3. CASE w.pc # "idle" /\ w'.obj = w.obj
  BY <1>2, <1>3
<1>4. CASE w.pc # "idle" /\ Fail
  <2>1. w'.obj = WithCondition(w.obj, "False")
    BY <1>1, <1>4, FailFields
  <2> QED
    BY <1>2, <1>4, <2>1, FailSane
<1>5. w' # Idle
  BY IdleFields
<1>6. ASSUME w.pc # "idle", Fresh(w.obj), NEW o \in HTTPRoute, Put(MetaPut(o)),
             w.pc \in {"finalizer", "save"}, o.status = w.obj.status
      PROVE  /\ Sane(hr'[w.route]) /\ hr'[w.route] = MetaPut(o) /\ MetaPut(o) \in HTTPRoute
             /\ hr'[w.route].gen = w.obj.gen /\ hr'[w.route].spec = w.obj.spec
             /\ SameRecords(hr'[w.route], o)
             /\ Timed(Decoded(o, MetaPut(o)))
             /\ Decoded(o, MetaPut(o)).status \in {w.obj.status, MetaPut(o).status}
  <2>1. w.route \in Routes /\ hr \in [Routes -> HTTPRoute]
    BY <1>1, <1>6, InPass DEF TypeOK
  <2>2. hr'[w.route] = MetaPut(o) /\ MetaPut(o) \in HTTPRoute
    BY <1>1, <1>6, <2>1, MetaPutType DEF Put
  <2>3. hr[w.route].phase = "live" /\ hr[w.route].rv = w.obj.rv
    BY <1>6 DEF Fresh
  <2>4. SameButStatus(w.obj, hr[w.route])
    BY <1>6, <2>3, WrittenFrom DEF AcceptInv, MapInv
  <2>5. Written(hr[w.route], MetaPut(o)) /\ SameRecords(MetaPut(o), o)
    BY <1>1, <1>6, <2>1, <2>3, MetaPutFields
  <2>6. MetaPut(o).gen = w.obj.gen /\ MetaPut(o).spec = w.obj.spec
    BY <2>4, <2>5 DEF Written, SameButStatus
  <2>7. Sane(hr'[w.route])
    BY <2>1, ObjectsSaneKept DEF ObjectsSane, Sane, Timed, Complete, ItemDone
  <2>8. Timed(MetaPut(o))
    BY <2>2, <2>7 DEF Sane
  <2>9. \A g \in Gateways : o.status[g].gen <= MetaPut(o).gen
    BY <1>2, <1>6, <2>6 DEF Sane, Timed
  <2> QED
    BY <1>6, <2>2, <2>5, <2>6, <2>7, <2>8, <2>9, AnswerTimed
<1>7. CASE AddFinalizer
  <2> DEFINE o == [w.obj EXCEPT !.finalizer = TRUE]
  <2>1. /\ w.pc = "finalizer" /\ Fresh(w.obj) /\ Put(MetaPut(o))
        /\ w'.obj = Decoded(o, MetaPut(o))
    BY <1>1, <1>5, <1>7, AddFinalizerFields
  <2>2. o \in HTTPRoute /\ o.status = w.obj.status /\ SameRecords(o, w.obj)
    BY <1>2, <2>1 DEF HTTPRoute, SameRecords
  <2> HIDE DEF o
  <2> DEFINE answer == MetaPut(o)
  <2>3. /\ Sane(answer) /\ answer \in HTTPRoute /\ answer.gen = w.obj.gen
        /\ answer.spec = w.obj.spec /\ SameRecords(answer, o)
        /\ Decoded(o, answer).status \in {w.obj.status, answer.status}
    BY <1>6, <2>1, <2>2
  <2>4. SameButStatus(Decoded(o, answer), answer)
    BY <2>3, DecodedFields
  <2>5. w'.obj = Decoded(o, answer)
    BY <2>1
  <2> HIDE DEF answer
  <2>6. CASE w'.obj.status = answer.status
    BY <2>3, <2>4, <2>5, <2>6, SaneLike DEF SameButStatus, SameRecords
  <2>7. CASE w'.obj.status = w.obj.status
    BY <1>2, <2>1, <2>2, <2>3, <2>4, <2>5, <2>7, SaneLike DEF SameButStatus, SameRecords
  <2> QED
    BY <2>3, <2>5, <2>6, <2>7
<1>8. CASE SaveAnnotations /\ ~Fail
  <2> DEFINE o == [w.obj EXCEPT !.svcIDs = w.sids, !.rtIDs = w.rids]
  <2>1. /\ w.pc = "save" /\ Fresh(w.obj) /\ Put(MetaPut(o))
        /\ w'.obj = WithCondition(Decoded(o, MetaPut(o)), "True")
    BY <1>1, <1>8, SaveFields
  <2>2. o \in HTTPRoute /\ o.status = w.obj.status /\ o.svcIDs = w.sids /\ o.rtIDs = w.rids
    BY <1>1, <1>2, <2>1 DEF HTTPRoute, Worker
  <2> HIDE DEF o
  <2> DEFINE answer == MetaPut(o)
  <2>3. /\ answer \in HTTPRoute /\ answer.spec = w.obj.spec /\ SameRecords(answer, o)
        /\ Timed(Decoded(o, answer))
    BY <1>6, <2>1, <2>2
  <2>4. SameButStatus(Decoded(o, answer), answer) /\ Decoded(o, answer) \in HTTPRoute
    BY <2>2, <2>3, DecodedFields, DecodedType
  <2>5. Complete(w.obj.spec, w.sids, w.rids)
    BY <2>1 DEF AcceptInv, ItemProgress
  <2> DEFINE d == Decoded(o, answer)
  <2>6. /\ d \in HTTPRoute /\ Timed(d) /\ d.spec = w.obj.spec
        /\ d.svcIDs = w.sids /\ d.rtIDs = w.rids
    BY <2>2, <2>3, <2>4 DEF SameButStatus, SameRecords
  <2>7. w'.obj = WithCondition(d, "True")
    BY <2>1
  <2> HIDE DEF d, answer
  <2> QED
    BY <2>5, <2>6, <2>7, SuccessSane
<1>9. CASE /\ WorkerStep /\ ~Fail /\ ~AddFinalizer /\ ~SaveAnnotations
  <2>1. w.pc # "idle" /\ w'.obj = w.obj
    <3>1. CASE ResolveParent \/ EnsureNodePort \/ RereadNodePort \/ GetServiceCall
               \/ UpdateServiceCall
      BY <1>1, <1>9, <3>1, ResolveFields, LookupFields DEF KeepsPlace, ItemPCs
    <3>2. CASE CreateServiceCall \/ CreateRouteCall \/ ListRoutesCall
      BY <1>1, <1>9, <3>2, CreateServiceFields, RouteFields DEF KeepsPlace
    <3>3. CASE SkipBackendRef \/ SetRequestTransformCall \/ SetResponseTransformCall
      BY <1>1, <3>3, TransformFields
    <3>4. CASE DeleteRoutes \/ DeleteServices \/ DeleteNodePorts
      BY <1>1, <3>4, DeleteRoutesFields, DeleteServicesFields, DeleteNodePortsFields
    <3>5. ~WriteStatus /\ ~ReportError /\ ~RemoveFinalizer
      BY <1>5, EndFields
    <3> QED
      BY <1>9, <3>1, <3>2, <3>3, <3>4, <3>5 DEF WorkerStep
  <2> QED
    BY <1>3, <2>1
<1>10. WorkerStep => w.pc # "idle"
  BY DEF WorkerStep, AddFinalizer, ResolveParent, EnsureNodePort, RereadNodePort,
     GetServiceCall, UpdateServiceCall, CreateServiceCall, CreateRouteCall, ListRoutesCall,
     SkipBackendRef, SetRequestTransformCall, SetResponseTransformCall, SaveAnnotations,
     WriteStatus,
     ReportError, DeleteRoutes, DeleteServices, DeleteNodePorts, RemoveFinalizer
<1>11. ASSUME NEW r \in Routes, Reconcile(r), ~UNCHANGED w
       PROVE  Sane(w'.obj)
  BY <1>11, StartFields DEF AcceptInv, ObjectsSane
<1>12. UNCHANGED w => w.pc # "idle" /\ w'.obj = w.obj
  OBVIOUS
<1>13. ~Restart
  BY <1>5 DEF Restart
<1> QED
  BY <1>3, <1>4, <1>7, <1>8, <1>9, <1>10, <1>11, <1>12, <1>13, WhoMoves

----------------------------------------------------------------------------
(* The theorem.                                                              *)

\* Nothing is accepted at the start.
LEMMA AcceptInit == Init => AcceptInv
<1> SUFFICES ASSUME Init PROVE AcceptInv
  OBVIOUS
<1>1. MapInv /\ hr = [r \in Routes |-> Uncreated] /\ hrCache = hr /\ w.pc = "idle"
  BY MapInit DEF Init, Idle
<1>2. Sane(Uncreated)
  BY DEF Sane, Timed, Uncreated, NoStatus
<1> QED
  BY <1>1, <1>2 DEF AcceptInv, ItemProgress, ItemPCs, ObjectsSane, PassSane

\* Every step keeps it.
LEMMA AcceptInvKept == AcceptInv /\ [Next]_vars => AcceptInv'
  BY MapInvKept, ItemProgressKept, ObjectsSaneKept, PassSaneKept DEF AcceptInv

\* It implies the property.
LEMMA AcceptInvImplies == AcceptInv => AcceptedIsBackedByRecords
  BY DEF AcceptInv, ObjectsSane, Sane, Complete, ItemDone, AcceptedIsBackedByRecords

\* A route that says Accepted=True at its generation has a recorded service and a
\* recorded route for every backendRef to a core Service that the spec has now (others
\* are passed over, :127-132), whatever edits, stale reads, faults and restarts came
\* between (:71 after :172-179).
THEOREM AcceptedIsBacked == Spec => []AcceptedIsBackedByRecords
  BY AcceptInit, AcceptInvKept, AcceptInvImplies, PTL DEF Spec
=============================================================================
