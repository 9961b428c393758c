------------------------ MODULE HTTPRouteLedger_proofs ------------------------
(***************************************************************************)
(* The HTTPRoute controller keeps the ledger (KeepsLedger), for all         *)
(* constants: under the mapping of HTTPRouteProperties every step is one of *)
(* ServiceLedger's or changes nothing there.                                *)
(*                                                                          *)
(* Beyond the accounts (AccountInv) the refinement needs that a worker that *)
(* is idle works for no route, that only services that were created are     *)
(* given up, and that the records of a route being deleted are frozen: a    *)
(* pass that writes them has read the route unmarked, and its write is      *)
(* refused.                                                                 *)
(*                                                                          *)
(* The last part proves FinalizerCleansUp where it holds: where Gateways    *)
(* and the client stay and calls to the cloud do not fail.                  *)
(***************************************************************************)
EXTENDS HTTPRouteAccounting_proofs

\* No route is worked for between two passes.
IdleIsBlank == w.pc = "idle" => w.route = None

\* Only what was created can be given up.
GivenUpBorn == \A s \in abandoned : services[s].state # "unborn"

\* The records of a route that is seen to be deleted do not change any more.
Frozen ==
    /\ \A r \in Routes : hrCache[r].deleting => hrCache[r].svcIDs = hr[r].svcIDs
    /\ w.pc \in RunPCs \union {"finalizer"} => ~w.obj.deleting

\* The inductive invariant of the refinement.
LedgerInv == AccountInv /\ IdleIsBlank /\ GivenUpBorn /\ Frozen

\* What the conjuncts are made of.
LEMMA LedgerInvParts ==
  ASSUME LedgerInv
  PROVE  /\ TypeInv /\ TypeOK /\ w \in Worker /\ Linked(services, routes)
         /\ OwnInv /\ VerInv /\ LifeInv /\ MapInv /\ DoomInv /\ Owned /\ Accounted
  BY DEF LedgerInv, AccountInv, DoomInv, MapInv, OwnInv, LifeInv, VerInv, TypeInv, TypeOK

\* The steps the ledger may see.
LEMMA SeenSteps ==
  ASSUME [Next]_vars
  PROVE  \/ WorkerStep \/ Restart
         \/ \E r \in Routes : Reconcile(r) \/ UserCreates(r) \/ UserEdits(r) \/ UserDeletes(r)
         \/ \E s \in ServiceIDs : CloudRemoves(s)
         \/ UNCHANGED <<services, hr, abandoned, w>>
<1>1. ASSUME NEW r \in Routes, SyncRoute(r) \/ RetryDue(r)
      PROVE  UNCHANGED <<services, hr, abandoned, w>>
  BY <1>1 DEF SyncRoute, RetryDue, cloudVars
<1>2. ASSUME NEW b \in Backends,
             SyncNodePort(b) \/ GarbageCollect(b) \/ BackendChanges(b) \/ OutsiderServes(b)
      PROVE  UNCHANGED <<services, hr, abandoned, w>>
  BY <1>2 DEF SyncNodePort, GarbageCollect, BackendChanges, OutsiderServes, cloudVars
<1>3. ASSUME NEW g \in Gateways, GatewayReady(g) \/ SecretChanges(g) \/ GatewayDeleted(g)
      PROVE  UNCHANGED <<services, hr, abandoned, w>>
  BY <1>3 DEF GatewayReady, SecretChanges, GatewayDeleted, cloudVars
<1>4. Resync \/ ClientChanges \/ NodeChanges \/ UNCHANGED vars
      => UNCHANGED <<services, hr, abandoned, w>>
  BY DEF Resync, ClientChanges, NodeChanges, vars, cloudVars
<1> QED
  BY <1>1, <1>2, <1>3, <1>4 DEF Next

\* A step that hands out an identifier is the only one that changes an owner.
LEMMA OwnerStep ==
  ASSUME TypeInv, Linked(services, routes), [Next]_vars, NEW s \in ServiceIDs
  PROVE  \/ services'[s].owner = services[s].owner
         \/ /\ CreateServiceCall /\ services[s].state = "unborn"
            /\ CreateService(s, <<w.route, ServiceKey>>, w.host)
<1>1. TypeOK /\ w \in Worker /\ services \in [ServiceIDs -> Service] /\ services[s] \in Service
  BY DEF TypeInv, TypeOK, CloudTypeOK
<1>2. CASE services[s].state # "unborn"
  BY <1>1, <1>2, CloudStep DEF CloudKept, Stable
<1>3. CASE services'[s].state # "unborn" /\ services[s].state = "unborn"
  BY <1>3, ServiceStep
<1>4. ASSUME NEW ss, NEW how, EndServices(ss, how)
      PROVE  services'[s].owner = services[s].owner
  BY <1>1, <1>4 DEF EndServices, Service
<1>5. CASE UpdateServiceCall
  <2>1. ASSUME NEW x, services' = [services EXCEPT ![x].host = w.host]
        PROVE  services'[s].owner = services[s].owner
    BY <1>1, <2>1 DEF Service
  <2> QED
    BY <1>5, <2>1 DEF UpdateServiceCall, UpdateService, cloudVars
<1>6. CASE CreateServiceCall /\ services'[s].state = "unborn"
  <2>1. ASSUME NEW x \in FreshServices, CreateService(x, <<w.route, ServiceKey>>, w.host)
        PROVE  services'[s].owner = services[s].owner
    <3>1. x # s => services'[s] = services[s]
      BY <1>1, <2>1 DEF CreateService
    <3>2. x = s => services'[s].state = "live"
      BY <1>1, <2>1 DEF CreateService
    <3> QED
      BY <1>6, <3>1, <3>2
  <2> QED
    BY <1>1, <1>6, <2>1, CreateServiceFields
<1>7. CASE DeleteServices \/ Restart \/ \E x \in ServiceIDs : CloudRemoves(x)
  BY <1>4, <1>7 DEF DeleteServices, DeleteService, Restart, CloudRemoves, cloudVars
<1>8. CASE ResolveParent \/ CreateRouteCall \/ ListRoutesCall \/ SkipBackendRef
           \/ SetRequestTransformCall
           \/ SetResponseTransformCall \/ DeleteRoutes \/ DeleteNodePorts \/ AddFinalizer
           \/ SaveAnnotations \/ WriteStatus \/ ReportError \/ RemoveFinalizer
  BY <1>1, <1>8, ResolveFields, RouteFields, TransformFields, DeleteRoutesFields,
     DeleteNodePortsFields, AddFinalizerFields, SaveFields, EndFields
<1>9. EnsureNodePort \/ RereadNodePort \/ GetServiceCall => UNCHANGED services
  BY DEF EnsureNodePort, RereadNodePort, GetServiceCall, cloudVars
<1>10. ASSUME NEW r \in Routes, Reconcile(r) \/ UserCreates(r) \/ UserEdits(r) \/ UserDeletes(r)
       PROVE  UNCHANGED services
  BY <1>10 DEF Reconcile, UserCreates, UserEdits, UserDeletes, cloudVars
<1> QED
  BY <1>2, <1>3, <1>5, <1>6, <1>7, <1>8, <1>9, <1>10, SeenSteps DEF WorkerStep

\* A service that is given up was just made, is held, or is recorded and was to be deleted.
LEMMA GivenUpStep ==
  ASSUME TypeInv, Linked(services, routes), [Next]_vars, NEW s, s \in abandoned', s \notin abandoned
  PROVE  \/ CreateServiceCall /\ CreateService(s, <<w.route, ServiceKey>>, w.host)
         \/ s \in InHand
         \/ DeleteServices /\ s \in w.doomed
         \/ \E r \in Routes : Reconcile(r) /\ s \in ServicesToDelete(hrCache[r])
<1>1. TypeOK /\ w \in Worker
  BY DEF TypeInv, TypeOK
<1>2. CASE AddFinalizer \/ ResolveParent \/ EnsureNodePort \/ RereadNodePort \/ GetServiceCall
           \/ UpdateServiceCall \/ CreateServiceCall \/ CreateRouteCall \/ ListRoutesCall
  BY <1>1, <1>2, AddFinalizerFields, ResolveFields, LookupFields, CreateServiceFields, RouteFields
<1>3. CASE SkipBackendRef \/ SetRequestTransformCall \/ SetResponseTransformCall
           \/ SaveAnnotations \/ WriteStatus
           \/ ReportError \/ DeleteRoutes \/ DeleteServices \/ DeleteNodePorts \/ RemoveFinalizer
  BY <1>1, <1>3, TransformFields, SaveFields, EndFields, DeleteRoutesFields,
     DeleteServicesFields, DeleteNodePortsFields
<1>4. ASSUME NEW r \in Routes, Reconcile(r)
      PROVE  s \in ServicesToDelete(hrCache[r])
  BY <1>4 DEF Reconcile, StartDelete, Read
<1>5. ASSUME NEW r \in Routes, UserCreates(r) \/ UserEdits(r) \/ UserDeletes(r)
      PROVE  FALSE
  BY <1>5 DEF UserCreates, UserEdits, UserDeletes
<1>6. ~(\E x \in ServiceIDs : CloudRemoves(x))
  BY DEF CloudRemoves
<1>7. Restart => s \in InHand
  BY DEF Restart
<1> QED
  BY <1>2, <1>3, <1>4, <1>5, <1>6, <1>7, SeenSteps DEF WorkerStep

\* The worker that is idle works for no route.
LEMMA IdleIsBlankKept ==
  ASSUME TypeInv, Linked(services, routes), IdleIsBlank, [Next]_vars
  PROVE  IdleIsBlank'
<1> USE DEF DeletePCs, RunPCs, ItemPCs
<1>1. CASE UNCHANGED w
  BY <1>1 DEF IdleIsBlank
<1>2. w' = Idle => IdleIsBlank'
  BY IdleFields DEF IdleIsBlank
<1>3. CASE WorkerStep
  BY <1>2, <1>3, PassPCs DEF IdleIsBlank
<1>4. ASSUME NEW r \in Routes, Reconcile(r), ~UNCHANGED w
      PROVE  w'.pc # "idle"
  BY <1>4, StartFields DEF FirstNodePortStep
<1> QED
  BY <1>1, <1>2, <1>3, <1>4, WhoMoves DEF IdleIsBlank, Restart

\* What a record names was created.
LEMMA CachedBorn ==
  ASSUME OwnInv, NEW r \in Routes, NEW s \in ServicesToDelete(hrCache[r])
  PROVE  s \in ServiceIDs /\ services[s].state # "unborn" /\ services[s].owner[1] = r
<1>1. PICK b \in Backends : s = hrCache[r].svcIDs[b] /\ s # None
  BY DEF ServicesToDelete
<1>2. hrCache[r].svcIDs \in [Backends -> ServiceIDs \union {None}]
  BY DEF OwnInv, TypeInv, TypeOK, HTTPRoute
<1>3. OwnIn(services, routes, r, hrCache[r].svcIDs, hrCache[r].rtIDs)
  BY DEF OwnInv, ObjectsOwn
<1>4. s \in ServiceIDs /\ services[s].state # "unborn" /\ services[s].owner = <<r, b>>
  BY <1>1, <1>2, <1>3 DEF OwnIn
<1> QED
  BY <1>4

\* Only services that were created are given up.
LEMMA GivenUpBornKept ==
  ASSUME LedgerInv, [Next]_vars
  PROVE  GivenUpBorn'
<1>1. /\ TypeInv /\ TypeOK /\ w \in Worker /\ Linked(services, routes) /\ OwnInv
      /\ MapInv /\ DoomInv
  BY LedgerInvParts
<1>2. abandoned \subseteq ServiceIDs
  BY <1>1 DEF TypeOK
<1> SUFFICES ASSUME NEW s \in abandoned'
             PROVE  services'[s].state # "unborn"
  BY DEF GivenUpBorn
<1>3. ASSUME s \in ServiceIDs, services[s].state # "unborn"
      PROVE  services'[s].state # "unborn"
  BY <1>1, <1>3, CloudStep DEF CloudKept, Stable
<1>4. CASE s \in abandoned
  BY <1>2, <1>3, <1>4 DEF LedgerInv, GivenUpBorn
<1>5. CASE CreateServiceCall /\ CreateService(s, <<w.route, ServiceKey>>, w.host)
  BY <1>1, <1>5, CreateServiceKeeps DEF TypeOK
<1>6. CASE s \in InHand
  <2>1. PICK b \in Backends : s = w.sids[b] /\ s # None
    BY <1>6 DEF InHand
  <2>2. w.pc # "idle"
    BY <1>1, <1>6, HeldByLive DEF RunPCs, ItemPCs
  <2> QED
    BY <1>1, <1>3, <2>1, <2>2, RecordedBorn
<1>7. CASE DeleteServices /\ s \in w.doomed
  <2>1. w.pc # "idle" /\ s \in ServicesToDelete(w.obj)
    BY <1>7 DEF LedgerInv, AccountInv, DoomInv, Doom, DeleteServices
  <2> QED
    BY <1>1, <1>3, <2>1, ToDeleteBorn
<1>8. ASSUME NEW r \in Routes, s \in ServicesToDelete(hrCache[r])
      PROVE  services'[s].state # "unborn"
  BY <1>1, <1>3, <1>8, CachedBorn
<1> QED
  BY <1>1, <1>4, <1>5, <1>6, <1>7, <1>8, GivenUpStep

\* Once the mark of a deletion is seen, no pass writes the records any more.
LEMMA FrozenKept ==
  ASSUME LedgerInv, [Next]_vars
  PROVE  Frozen'
<1> USE DEF DeletePCs, RunPCs, ItemPCs
<1>1. /\ TypeInv /\ TypeOK /\ w \in Worker /\ Linked(services, routes) /\ LifeInv
  BY LedgerInvParts
<1>2. ASSUME NEW r \in Routes, hrCache'[r].deleting
      PROVE  hrCache'[r].svcIDs = hr'[r].svcIDs
  <2>1. hrCache'[r] = hrCache[r] \/ hrCache'[r] = hr[r]
    BY <1>1, CacheStep
  <2>2. hr[r].deleting
    BY <1>1, <1>2, <2>1 DEF LifeInv, Life
  <2>3. ~(w.pc = "save" /\ SameButStatus(w.obj, hr[r]))
    BY <2>2 DEF LedgerInv, Frozen, SameButStatus
  <2>4. SameRecords(hr'[r], hr[r])
    BY <1>1, <2>3, AnnotationStep
  <2> QED
    BY <1>2, <2>1, <2>4 DEF LedgerInv, Frozen, SameRecords
<1>3. ASSUME w'.pc \in RunPCs \union {"finalizer"}
      PROVE  ~w'.obj.deleting
  <2>1. CASE UNCHANGED w
    BY <1>3, <2>1 DEF LedgerInv, Frozen
  <2>2. CASE WorkerStep
    <3>1. w'.pc # "idle" /\ w.pc # "idle" /\ w.pc \in RunPCs \union {"finalizer"} /\ w.route \in Routes
      BY <1>1, <1>3, <2>2, PassPCs, IdleFields, InPass DEF AddFinalizer
    <3>2. ~w.obj.deleting
      BY <3>1 DEF LedgerInv, Frozen
    <3>3. CASE ObjKept
      BY <3>2, <3>3 DEF ObjKept, SameButStatus
    <3>4. CASE (AddFinalizer \/ SaveAnnotations) /\ ~Fail /\ ObjAnswered
      <4>1. Fresh(w.obj)
        BY <1>1, <3>1, <3>4, AddFinalizerFields, SaveFields, IdleFields
      <4>2. ~hr[w.route].deleting
        BY <1>1, <3>1, <3>2, <4>1, WrittenFrom DEF Fresh, SameButStatus
      <4>3. hr'[w.route].deleting = hr[w.route].deleting
        BY <1>1, <3>4, WriteStep DEF PassWrites, Written
      <4> QED
        BY <3>4, <4>2, <4>3 DEF ObjAnswered, SameButStatus
    <3>5. Fail => ObjKept
      BY <1>1, <3>1, FailObj
    <3> QED
      BY <1>1, <2>2, <3>1, <3>3, <3>4, <3>5, PlainObj, AnsweredObj DEF WorkerStep
  <2>3. ASSUME NEW r \in Routes, Reconcile(r), ~UNCHANGED w
        PROVE  ~w'.obj.deleting
    BY <1>3, <2>3, StartFields DEF FirstNodePortStep
  <2>4. ~Restart
    BY <1>3, IdleFields DEF Restart
  <2> QED
    BY <2>1, <2>2, <2>3, <2>4, WhoMoves
<1> QED
  BY <1>2, <1>3 DEF Frozen

\* The inductive invariant.
LEMMA LedgerInit == Init => LedgerInv
<1> SUFFICES ASSUME Init PROVE LedgerInv
  OBVIOUS
<1>1. /\ AccountInv /\ w = Idle /\ abandoned = {}
      /\ hr = [r \in Routes |-> Uncreated] /\ hrCache = hr
  BY AccountInit DEF Init
<1>2. w.pc = "idle" /\ w.route = None /\ ~Uncreated.deleting
  BY <1>1 DEF Idle, Uncreated
<1> QED
  BY <1>1, <1>2 DEF LedgerInv, IdleIsBlank, GivenUpBorn, Frozen, RunPCs, ItemPCs

\* Every step keeps it.
LEMMA LedgerInvKept == LedgerInv /\ [Next]_vars => LedgerInv'
  BY LedgerInvParts, AccountInvKept, IdleIsBlankKept, GivenUpBornKept, FrozenKept DEF LedgerInv

----------------------------------------------------------------------------
(* Where a service stands, before and after a step.                          *)

\* What it means to be held: by the pass, unseen by the annotations.
LEMMA HeldMeans ==
  ASSUME LedgerInv, NEW s \in ServiceIDs, Standing(s) = "held"
  PROVE  /\ Exists(s) /\ s \notin abandoned /\ s \in InHand
         /\ w.route \in Routes /\ services[s].owner[1] = w.route
         /\ s \notin Tracked(w.route)
         /\ w.pc \in RunPCs /\ hr[w.route].phase = "live" /\ hr[w.route].finalizer
<1>1. MapInv /\ Accounted
  BY LedgerInvParts
<1>2. services[s].state = "live" /\ s \notin abandoned /\ s \notin Tracked(services[s].owner[1])
  BY DEF Standing
<1>3. w.route = services[s].owner[1] /\ s \in InHand
  BY <1>1, <1>2 DEF Accounted
<1> QED
  BY <1>1, <1>2, <1>3, HeldByLive DEF Exists

\* What it means to be recorded: on a route that cannot go yet.
LEMMA RecordedMeans ==
  ASSUME LedgerInv, NEW s \in ServiceIDs, Standing(s) = "recorded"
  PROVE  /\ Exists(s) /\ s \notin abandoned
         /\ services[s].owner[1] \in Routes /\ s \in Tracked(services[s].owner[1])
         /\ hr[services[s].owner[1]].phase = "live" /\ hr[services[s].owner[1]].finalizer
<1>1. Accounted /\ Owned
  BY LedgerInvParts
<1>2. services[s].state = "live" /\ s \notin abandoned /\ s \in Tracked(services[s].owner[1])
  BY DEF Standing
<1> QED
  BY <1>1, <1>2 DEF Accounted, Owned, Exists

\* No other place is left.
LEMMA Standings ==
  ASSUME LedgerInv, NEW s \in ServiceIDs
  PROVE  \/ Standing(s) = "unborn" /\ services[s].state = "unborn"
         \/ Standing(s) = "ended" /\ services[s].state \notin {"unborn", "live"}
         \/ Standing(s) = "lost" /\ Exists(s) /\ s \in abandoned
         \/ Standing(s) \in {"recorded", "held"} /\ Exists(s) /\ s \notin abandoned
  BY DEF Standing, Exists

\* An annotation that stays the same names no service it did not name.
LEMMA TrackedSame ==
  ASSUME LedgerInv, [Next]_vars, NEW r \in Routes, NEW s,
         SameRecords(hr'[r], hr[r]), s \in Tracked(r)'
  PROVE  s \in Tracked(r)
<1>1. TypeInv /\ VerInv
  BY LedgerInvParts
<1>2. PICK b \in Backends : s = hr'[r].svcIDs[b] /\ s # None
  BY DEF Tracked
<1>3. s = hr[r].svcIDs[b] /\ hr'[r].phase = "live"
  BY <1>2 DEF SameRecords, Tracked
<1>4. hr[r].phase # "new"
  <2>1. Uncreated.svcIDs[b] = None
    BY DEF Uncreated, NoServiceIDs
  <2> QED
    BY <1>1, <1>2, <1>3, <2>1, BlankCache
<1>5. hr[r].phase = "live"
  BY <1>1, <1>3, <1>4, ServerStep DEF Created, Edited, Marked
<1> QED
  BY <1>2, <1>3, <1>5 DEF Tracked

\* A service stands where it stood, unless it ends, is given up, or is saved.
LEMMA StandsStill ==
  ASSUME LedgerInv, [Next]_vars, NEW s \in ServiceIDs,
         services'[s].state = services[s].state,
         Exists(s) /\ s \in abandoned' => s \in abandoned,
         Standing(s) = "held" => SameRecords(hr'[w.route], hr[w.route])
  PROVE  Standing(s)' = Standing(s)
<1>1. TypeInv /\ Linked(services, routes) /\ DoomInv
  BY LedgerInvParts
<1>2. services[s].state # "unborn" => services'[s].owner = services[s].owner
  BY <1>1, OwnerStep
<1>3. CASE Standing(s) \in {"unborn", "ended"}
  BY <1>3, Standings DEF Standing
<1>4. CASE Standing(s) = "lost"
  BY <1>1, <1>4, Standings, AbandonedGrows DEF Standing, Exists
<1>5. CASE Standing(s) = "recorded"
  <2>1. PICK r \in Routes : r = services[s].owner[1]
    BY <1>5, RecordedMeans
  <2>2. Exists(s) /\ s \notin abandoned /\ s \in Tracked(r) /\ hr[r].finalizer
    BY <1>5, <2>1, RecordedMeans
  <2>3. s \in Tracked(r)'
    BY <1>1, <2>1, <2>2, RecordedStays
  <2>4. services'[s].owner[1] = r /\ services'[s].state = "live" /\ s \notin abandoned'
    BY <1>2, <2>1, <2>2 DEF Exists
  <2>5. s \in Tracked(services[s].owner[1])'
    BY <2>3, <2>4 DEF Tracked
  <2> QED
    BY <1>5, <2>4, <2>5 DEF Standing
<1>6. CASE Standing(s) = "held"
  <2>1. PICK r \in Routes : r = w.route
    BY <1>6, HeldMeans
  <2>2. Exists(s) /\ s \notin abandoned /\ s \notin Tracked(r) /\ services[s].owner[1] = r
    BY <1>6, <2>1, HeldMeans
  <2>3. s \notin Tracked(r)'
    BY <1>6, <2>1, <2>2, TrackedSame
  <2>4. services'[s].owner[1] = r /\ services'[s].state = "live" /\ s \notin abandoned'
    BY <1>2, <2>2 DEF Exists
  <2>5. ~(s \in Tracked(services[s].owner[1])')
    BY <2>3, <2>4 DEF Tracked
  <2> QED
    BY <1>6, <2>4, <2>5 DEF Standing
<1> QED
  BY <1>3, <1>4, <1>5, <1>6, Standings

\* A service that does not live any more has ended.
LEMMA EndedMeans ==
  ASSUME NEW s \in ServiceIDs, services'[s].state \notin {"unborn", "live"}
  PROVE  Standing(s)' = "ended"
  BY DEF Standing

\* One that is given up is lost.
LEMMA LostMeans ==
  ASSUME NEW s \in ServiceIDs, services'[s].state = "live", s \in abandoned'
  PROVE  Standing(s)' = "lost"
  BY DEF Standing

\* A pass that programs nothing holds nothing.
LEMMA NothingHeld ==
  ASSUME LedgerInv, w.pc \notin RunPCs
  PROVE  \A s \in ServiceIDs : Standing(s) # "held"
  BY HeldMeans

\* The route in the ledger's eyes.
Lives(r) == IF hr[r].phase = "gone" THEN "gone"
            ELSE IF hr[r].deleting THEN "closing" ELSE "open"

\* A step of the worker leaves the lives of routes alone, unless it removes the finalizer.
LEMMA LivesStep ==
  ASSUME LedgerInv, [Next]_vars, ~UNCHANGED w \/ UNCHANGED hr, NEW r \in Routes
  PROVE  \/ Lives(r)' = Lives(r)
         \/ /\ w.pc = "removeFinalizer" /\ w.route = r /\ ~UNCHANGED hr
            /\ Lives(r) # "gone" /\ Lives(r)' = "gone"
            /\ hr[r].rv = w.obj.rv
<1>1. TypeInv /\ LifeInv
  BY LedgerInvParts
<1>2. CASE hr'[r] = hr[r]
  BY <1>2 DEF Lives
<1>3. CASE /\ w.pc # "idle" /\ w.route = r /\ hr[r].rv = w.obj.rv /\ hr'[r] # hr[r]
           /\ PassWrites(hr[r], hr'[r])
  BY <1>1, <1>3, WriteLife DEF Lives
<1> QED
  BY <1>1, <1>2, <1>3, ServerStep

----------------------------------------------------------------------------
(* The actions of the ledger, in these terms.                                *)

OwnersSame == \A s \in ServiceIDs : services'[s].owner = services[s].owner
LivesSame == \A r \in Routes : Lives(r)' = Lives(r)
Stand(ss, where) == \A s \in ServiceIDs :
                       Standing(s)' = IF s \in ss THEN where ELSE Standing(s)
AllStand == \A s \in ServiceIDs : Standing(s)' = Standing(s)
HeldOnes == {s \in ServiceIDs : Standing(s) = "held"}

\* What moves accounts.
LEMMA LedgerMove ==
  ASSUME NEW ss, NEW where, Stand(ss, where)
  PROVE  Ledger!Move(ss, where)
  BY DEF Ledger!Move, Stand

\* Nothing to be seen.
LEMMA LedgerStutter ==
  ASSUME AllStand, OwnersSame, LivesSame, w'.route = w.route
  PROVE  Ledger!Next
<1>1. UNCHANGED Ledger!ledgerVars
  BY DEF Ledger!ledgerVars, AllStand, OwnersSame, LivesSame, Lives
<1> QED
  BY <1>1 DEF Ledger!Next

\* A pass begins.
LEMMA LedgerBegin ==
  ASSUME AllStand, OwnersSame, LivesSame, NEW r \in Routes, w.route = None, w'.route = r
  PROVE  Ledger!Next
<1>1. Ledger!Begin(r)
  BY DEF Ledger!Begin, AllStand, OwnersSame, LivesSame, Lives
<1> QED
  BY <1>1 DEF Ledger!Next

\* A pass without a client begins.
LEMMA LedgerDisown ==
  ASSUME OwnersSame, LivesSame, NEW r \in Routes, w.route = None, w'.route = r,
         Lives(r) = "closing",
         Stand({s \in ServiceIDs : /\ Standing(s) \in {"held", "recorded"}
                                   /\ services[s].owner[1] = r}, "lost")
  PROVE  Ledger!Next
<1> DEFINE ss == {s \in ServiceIDs : /\ Standing(s) \in {"held", "recorded"}
                                     /\ services[s].owner[1] = r}
<1>1. Ledger!Move(ss, "lost")
  BY LedgerMove
<1>2. Ledger!KeptFor(r) = ss
  BY DEF Ledger!KeptFor, Ledger!In
<1> HIDE DEF ss
<1>3. Ledger!Disown(r)
  BY <1>1, <1>2 DEF Ledger!Disown, OwnersSame, LivesSame, Lives
<1> QED
  BY <1>3 DEF Ledger!Next

\* A service is made, seen or unseen.
LEMMA LedgerOpen ==
  ASSUME NEW s \in ServiceIDs, NEW b \in Backends, NEW where \in {"held", "lost"},
         Standing(s) = "unborn", w.route \in Routes, Lives(w.route) # "gone",
         where = "held" => \A t \in ServiceIDs :
            Standing(t) = "held" => services[t].owner # <<w.route, b>>,
         Stand({s}, where), services'[s].owner = <<w.route, b>>,
         \A t \in ServiceIDs : t # s => services'[t].owner = services[t].owner,
         LivesSame, w'.route = w.route
  PROVE  Ledger!Next
<1>1. Ledger!Move({s}, where)
  BY LedgerMove
<1>2. [x \in ServiceIDs |-> services[x].owner]'
         = [[x \in ServiceIDs |-> services[x].owner] EXCEPT ![s] = <<w.route, b>>]
  OBVIOUS
<1>3. w.route # None
  BY CloudAssumption
<1>4. CASE where = "held"
  <2>1. Ledger!Open(s, <<w.route, b>>)
    BY <1>1, <1>2, <1>3, <1>4 DEF Ledger!Open, Ledger!In, LivesSame, Lives
  <2> QED
    BY <2>1 DEF Ledger!Next
<1>5. CASE where = "lost"
  <2>1. Ledger!OpenUnseen(s, <<w.route, b>>)
    BY <1>1, <1>2, <1>3, <1>5 DEF Ledger!OpenUnseen, Ledger!In, LivesSame, Lives
  <2> QED
    BY <2>1 DEF Ledger!Next
<1> QED
  BY <1>4, <1>5

\* What is held is recorded.
LEMMA LedgerCommit ==
  ASSUME HeldOnes # {},
         \A s, t \in ServiceIDs : Standing(s) = "held" /\ Standing(t) = "recorded"
                                     => services[s].owner # services[t].owner,
         Stand(HeldOnes, "recorded"), OwnersSame, LivesSame, w'.route = w.route
  PROVE  Ledger!Next
<1>1. Ledger!Move(HeldOnes, "recorded")
  BY LedgerMove
<1>2. Ledger!In("held") = HeldOnes
  BY DEF Ledger!In, HeldOnes
<1>3. \A s \in Ledger!In("held"), t \in Ledger!In("recorded") :
         services[s].owner # services[t].owner
  BY DEF Ledger!In
<1>4. Ledger!Commit
  BY <1>1, <1>2, <1>3 DEF Ledger!Commit, Ledger!In, OwnersSame, LivesSame, Lives
<1> QED
  BY <1>4 DEF Ledger!Next

\* A pass ends.
LEMMA LedgerEnd ==
  ASSUME Stand(HeldOnes, "lost"), OwnersSame, LivesSame, w.route # None, w'.route = None
  PROVE  Ledger!Next
<1>1. Ledger!Move(HeldOnes, "lost")
  BY LedgerMove
<1>2. Ledger!In("held") = HeldOnes
  BY DEF Ledger!In, HeldOnes
<1>3. Ledger!End
  BY <1>1, <1>2 DEF Ledger!End, OwnersSame, LivesSame, Lives
<1> QED
  BY <1>3 DEF Ledger!Next

\* A pass that deletes closes an account, or fails to.
LEMMA LedgerDelete ==
  ASSUME NEW s \in ServiceIDs, NEW where \in {"ended", "lost"}, Stand({s}, where),
         Standing(s) \in {"recorded", "lost"}, services[s].owner[1] = w.route,
         w.route \in Routes, Lives(w.route) = "closing",
         OwnersSame, LivesSame, w'.route = w.route
  PROVE  Ledger!Next
<1>1. Ledger!Move({s}, where)
  BY LedgerMove
<1>2. Ledger!Delete(s)
  BY <1>1 DEF Ledger!Delete, Ledger!In, OwnersSame, LivesSame, Lives
<1> QED
  BY <1>2 DEF Ledger!Next

\* Somebody else closes one.
LEMMA LedgerRemoved ==
  ASSUME NEW s \in ServiceIDs, Stand({s}, "ended"), Standing(s) \in {"held", "recorded", "lost"},
         OwnersSame, LivesSame, w'.route = w.route
  PROVE  Ledger!Next
<1>1. Ledger!Move({s}, "ended")
  BY LedgerMove
<1>2. Ledger!Removed(s)
  BY <1>1 DEF Ledger!Removed, OwnersSame, LivesSame, Lives
<1> QED
  BY <1>2 DEF Ledger!Next

\* The process takes all of them with it.
LEMMA LedgerCollapse ==
  ASSUME Stand({s \in ServiceIDs : Standing(s) # "unborn"}, "ended"),
         OwnersSame, LivesSame, w'.route = None
  PROVE  Ledger!Next
<1> DEFINE ss == {s \in ServiceIDs : Standing(s) # "unborn"}
<1>1. Ledger!Move(ss, "ended")
  BY LedgerMove
<1>2. ServiceIDs \ Ledger!In("unborn") = ss
  BY DEF Ledger!In
<1> HIDE DEF ss
<1>3. Ledger!Collapse
  BY <1>1, <1>2 DEF Ledger!Collapse, OwnersSame, LivesSame, Lives
<1> QED
  BY <1>3 DEF Ledger!Next

\* A route is marked, or goes.
LEMMA LedgerClose ==
  ASSUME NEW r \in Routes, Lives(r) = "open", Lives(r)' = "closing",
         \A x \in Routes : x # r => Lives(x)' = Lives(x),
         AllStand, OwnersSame, w'.route = w.route
  PROVE  Ledger!Next
<1>1. Ledger!Close(r)
  BY DEF Ledger!Close, AllStand, OwnersSame, Lives
<1> QED
  BY <1>1 DEF Ledger!Next

\* ... with nothing held or recorded for it, alone or with its last pass.
LEMMA LedgerLeave ==
  ASSUME NEW r \in Routes, Lives(r) # "gone", Lives(r)' = "gone",
         \A x \in Routes : x # r => Lives(x)' = Lives(x),
         \A s \in ServiceIDs : Standing(s) \in {"held", "recorded"} => services[s].owner[1] # r,
         AllStand, OwnersSame,
         w'.route = w.route \/ (w.route = r /\ w'.route = None)
  PROVE  Ledger!Next
<1>1. Ledger!KeptFor(r) = {}
  BY DEF Ledger!KeptFor, Ledger!In
<1>2. Ledger!Leave(r)
  BY <1>1 DEF Ledger!Leave, AllStand, OwnersSame, Lives
<1> QED
  BY <1>2 DEF Ledger!Next

----------------------------------------------------------------------------
(* Step by step.                                                             *)

\* Owners, where nothing is created.
LEMMA OwnersKept ==
  ASSUME LedgerInv, [Next]_vars,
         \A s \in ServiceIDs : services[s].state = "unborn" => services'[s].state = "unborn"
  PROVE  OwnersSame
<1> SUFFICES ASSUME NEW s \in ServiceIDs
             PROVE  services'[s].owner = services[s].owner
  BY DEF OwnersSame
<1>1. TypeInv /\ Linked(services, routes) /\ services \in [ServiceIDs -> Service]
  BY LedgerInvParts DEF TypeOK, CloudTypeOK
<1>2. CreateService(s, <<w.route, ServiceKey>>, w.host) => services'[s].state = "live"
  BY <1>1 DEF CreateService
<1> QED
  BY <1>1, <1>2, OwnerStep

\* Lives, where the worker moves and does not remove a finalizer.
LEMMA LivesKept ==
  ASSUME LedgerInv, [Next]_vars, ~UNCHANGED w \/ UNCHANGED hr,
         w.pc # "removeFinalizer" \/ UNCHANGED hr
  PROVE  LivesSame
  BY LivesStep DEF LivesSame

\* Annotations, where nothing is saved.
LEMMA RecordsKept ==
  ASSUME LedgerInv, [Next]_vars, w.pc # "save" \/ UNCHANGED hr, w.route \in Routes
  PROVE  SameRecords(hr'[w.route], hr[w.route])
  BY LedgerInvParts, AnnotationStep DEF SameRecords

\* A step that neither saves nor touches a service's life or the list of those
\* given up leaves every service where it stands.
LEMMA AllStandStill ==
  ASSUME LedgerInv, [Next]_vars, w.pc # "save" \/ UNCHANGED hr,
         \A s \in ServiceIDs : services'[s].state = services[s].state,
         UNCHANGED abandoned
  PROVE  AllStand
<1> SUFFICES ASSUME NEW s \in ServiceIDs
             PROVE  Standing(s)' = Standing(s)
  BY DEF AllStand
<1>1. Standing(s) = "held" => SameRecords(hr'[w.route], hr[w.route])
  BY HeldMeans, RecordsKept
<1> QED
  BY <1>1, StandsStill

\* Users, who create, edit and delete routes.
LEMMA LedgerUser ==
  ASSUME LedgerInv, [Next]_vars, NEW x \in Routes,
         UserCreates(x) \/ UserEdits(x) \/ UserDeletes(x)
  PROVE  Ledger!Next
<1>1. TypeOK /\ VerInv
  BY LedgerInvParts
<1>2. UNCHANGED <<services, abandoned>>
  BY DEF UserCreates, UserEdits, UserDeletes, cloudVars
<1>3. /\ UNCHANGED w
      /\ \/ Created(hr[x], hr'[x]) \/ Edited(hr[x], hr'[x]) \/ Marked(hr[x], hr'[x])
      /\ \A r \in Routes : r # x => hr'[r] = hr[r]
  BY <1>1, UserStep
<1>4. \A r \in Routes : SameRecords(hr'[r], hr[r])
  BY <1>3 DEF Created, Edited, Marked, SameRecords
<1>5. AllStand
  <2> SUFFICES ASSUME NEW s \in ServiceIDs
               PROVE  Standing(s)' = Standing(s)
    BY DEF AllStand
  <2>1. Standing(s) = "held" => SameRecords(hr'[w.route], hr[w.route])
    BY <1>4, HeldMeans
  <2> QED
    BY <1>2, <2>1, StandsStill
<1>6. OwnersSame
  BY <1>2 DEF OwnersSame
<1>7. \A r \in Routes : r # x => Lives(r)' = Lives(r)
  BY <1>3 DEF Lives
<1>8. CASE Created(hr[x], hr'[x]) \/ Edited(hr[x], hr'[x])
  <2>1. Lives(x)' = Lives(x)
    BY <1>8 DEF Created, Edited, Lives
  <2> QED
    BY <1>3, <1>5, <1>6, <1>7, <2>1, LedgerStutter DEF LivesSame
<1>9. CASE Marked(hr[x], hr'[x]) /\ hr[x].finalizer
  <2>1. Lives(x) = "open" /\ Lives(x)' = "closing"
    BY <1>9 DEF Marked, Lives
  <2> QED
    BY <1>3, <1>5, <1>6, <1>7, <2>1, LedgerClose
<1>10. CASE Marked(hr[x], hr'[x]) /\ ~hr[x].finalizer
  <2>1. Lives(x) # "gone" /\ Lives(x)' = "gone"
    BY <1>10 DEF Marked, Lives
  <2>2. ASSUME NEW s \in ServiceIDs, Standing(s) \in {"held", "recorded"}
        PROVE  services[s].owner[1] # x
    BY <1>10, <2>2, HeldMeans, RecordedMeans
  <2> QED
    BY <1>3, <1>5, <1>6, <1>7, <2>1, <2>2, LedgerLeave
<1> QED
  BY <1>3, <1>8, <1>9, <1>10

\* A service deleted in the console.
LEMMA LedgerConsole ==
  ASSUME LedgerInv, [Next]_vars, NEW x \in ServiceIDs, CloudRemoves(x)
  PROVE  Ledger!Next
<1>1. UNCHANGED <<hr, w, abandoned>> /\ Exists(x) /\ EndServices({x}, "removed")
  BY DEF CloudRemoves
<1>2. services \in [ServiceIDs -> Service]
  BY LedgerInvParts DEF TypeOK, CloudTypeOK
<1>3. services'[x].state = "removed"
  BY <1>1, <1>2 DEF EndServices, Service
<1>4. \A s \in ServiceIDs : s # x => services'[s] = services[s]
  BY <1>1 DEF EndServices
<1>5. Stand({x}, "ended")
  <2>1. ASSUME NEW s \in ServiceIDs, s # x
        PROVE  Standing(s)' = Standing(s)
    BY <1>1, <1>4, <2>1, StandsStill DEF SameRecords
  <2>2. Standing(x)' = "ended"
    BY <1>3, EndedMeans
  <2> QED
    BY <2>1, <2>2 DEF Stand
<1>6. Standing(x) \in {"held", "recorded", "lost"}
  BY <1>1, Standings DEF Exists
<1>7. OwnersSame
  BY <1>1, <1>4, OwnersKept DEF Exists
<1> QED
  BY <1>1, <1>5, <1>6, <1>7, LivesKept, LedgerRemoved

\* What a pass that ends in memory held is lost, and nothing else is.
LEMMA HeldIsLost ==
  ASSUME LedgerInv, [Next]_vars, UNCHANGED services,
         abandoned' = abandoned \union (InHand \ Tracked(w.route)),
         \A s \in ServiceIDs : Standing(s) # "held" \/ s \in abandoned'
  PROVE  Stand(HeldOnes, "lost")
<1>1. MapInv
  BY LedgerInvParts
<1> SUFFICES ASSUME NEW s \in ServiceIDs
             PROVE  Standing(s)' = IF s \in HeldOnes THEN "lost" ELSE Standing(s)
  BY DEF Stand
<1>2. CASE Standing(s) = "held"
  BY <1>2, HeldMeans, LostMeans DEF HeldOnes, Exists
<1>3. CASE Standing(s) # "held"
  <2>1. ASSUME Exists(s), s \in abandoned', s \notin abandoned
        PROVE  FALSE
    <3>1. s \in InHand /\ s \notin Tracked(w.route)
      BY <2>1
    <3>2. services[s].owner[1] = w.route
      BY <1>1, <3>1, HeldByLive
    <3>3. Standing(s) = "held"
      BY <2>1, <3>1, <3>2 DEF Standing, Exists
    <3> QED
      BY <1>3, <3>3
  <2> QED
    BY <1>3, <2>1, StandsStill DEF HeldOnes
<1> QED
  BY <1>2, <1>3

\* The process stops.
LEMMA LedgerRestart ==
  ASSUME LedgerInv, [Next]_vars, Restart
  PROVE  Ledger!Next
<1>1. TypeInv /\ MapInv /\ services \in [ServiceIDs -> Service] /\ Linked(services, routes)
  BY LedgerInvParts DEF TypeOK, CloudTypeOK
<1>2. /\ UNCHANGED hr /\ w' = Idle /\ w'.route = None
      /\ IF DryRun THEN EndServices(ServiceIDs, "removed") ELSE UNCHANGED cloudVars
      /\ abandoned' = abandoned \union
                        (InHand \ (IF w.route = None THEN {} ELSE Tracked(w.route)))
  BY IdleFields DEF Restart
<1>3. LivesSame
  BY <1>2, LivesKept
<1>4. CASE DryRun
  <2>1. ASSUME NEW s \in ServiceIDs
        PROVE  /\ services[s].state = "unborn" => services'[s].state = "unborn"
               /\ services[s].state # "unborn" => services'[s].state \notin {"unborn", "live"}
    <3>1. services'[s] = IF Exists(s) THEN [services[s] EXCEPT !.state = "removed"]
                         ELSE services[s]
      BY <1>2, <1>4 DEF EndServices
    <3> QED
      BY <1>1, <3>1 DEF Service, Exists
  <2>2. Stand({s \in ServiceIDs : Standing(s) # "unborn"}, "ended")
    <3>1. ASSUME NEW s \in ServiceIDs
          PROVE  Standing(s)' = IF Standing(s) # "unborn" THEN "ended" ELSE Standing(s)
      <4>1. CASE Standing(s) = "unborn"
        <5>1. services[s].state = "unborn" /\ services'[s].state = "unborn"
          BY <2>1, <4>1, Standings DEF Exists
        <5> QED
          BY <4>1, <5>1 DEF Standing
      <4>2. CASE Standing(s) # "unborn"
        BY <2>1, <4>2, EndedMeans DEF Standing
      <4> QED
        BY <4>1, <4>2
    <3> QED
      BY <3>1 DEF Stand
  <2>3. OwnersSame
    BY <2>1, OwnersKept
  <2> QED
    BY <1>2, <1>3, <2>2, <2>3, LedgerCollapse
<1>5. CASE ~DryRun /\ w.route # None
  <2>1. UNCHANGED services /\ abandoned' = abandoned \union (InHand \ Tracked(w.route))
    BY <1>2, <1>5 DEF cloudVars
  <2>2. \A s \in ServiceIDs : Standing(s) # "held" \/ s \in abandoned'
    BY <2>1, HeldMeans
  <2>3. Stand(HeldOnes, "lost") /\ OwnersSame
    BY <2>1, <2>2, HeldIsLost DEF OwnersSame
  <2> QED
    BY <1>2, <1>3, <1>5, <2>3, LedgerEnd
<1>6. CASE ~DryRun /\ w.route = None
  <2>1. InHand = {}
    BY <1>1, <1>6, HeldByLive, CloudAssumption
  <2>2. UNCHANGED <<services, abandoned>>
    BY <1>2, <1>6, <2>1 DEF cloudVars
  <2>3. AllStand /\ OwnersSame
    BY <1>2, <2>2, AllStandStill DEF OwnersSame
  <2> QED
    BY <1>2, <1>3, <1>6, <2>3, LedgerStutter
<1> QED
  BY <1>4, <1>5, <1>6

\* A pass starts; one that deletes without a client gives up what is recorded, which
\* the stale copy it reads names as the server does.
LEMMA LedgerStart ==
  ASSUME LedgerInv, [Next]_vars, NEW r \in Routes, Reconcile(r)
  PROVE  Ledger!Next
<1>1. /\ w.pc = "idle" /\ w.route = None /\ UNCHANGED <<hr, services>>
      /\ TypeInv /\ LifeInv /\ OwnInv /\ MapInv
  BY LedgerInvParts DEF LedgerInv, IdleIsBlank, Reconcile, cloudVars
<1>2. OwnersSame /\ LivesSame
  BY <1>1, LivesKept DEF OwnersSame
<1>3. UNCHANGED abandoned => AllStand
  BY <1>1, AllStandStill
<1>4. CASE UNCHANGED w
  <2>1. UNCHANGED abandoned
    <3>1. ASSUME ~UNCHANGED abandoned, StartDelete(Read(r), r)
          PROVE  FALSE
      <4>1. w'.pc = FirstNodePortStep(Read(r))
        BY <3>1 DEF StartDelete, Idle
      <4> QED
        BY <1>1, <1>4, <4>1 DEF FirstNodePortStep
    <3> QED
      BY <3>1 DEF Reconcile
  <2> QED
    BY <1>2, <1>3, <1>4, <2>1, LedgerStutter
<1>5. CASE ~UNCHANGED w /\ UNCHANGED abandoned
  <2>1. w'.route = r
    BY <1>5, StartFields
  <2> QED
    BY <1>1, <1>2, <1>3, <1>5, <2>1, LedgerBegin
<1>6. CASE ~UNCHANGED w /\ ~UNCHANGED abandoned
  <2>1. /\ w'.route = r /\ hrCache[r].deleting
        /\ abandoned' = abandoned \union ServicesToDelete(hrCache[r])
    BY <1>6, StartFields
  <2>2. hr[r].deleting /\ hrCache[r].svcIDs = hr[r].svcIDs
    BY <1>1, <2>1 DEF LedgerInv, Frozen, LifeInv, Life
  <2>3. \A s \in ServiceIDs : Standing(s) # "held"
    BY <1>1, NothingHeld DEF RunPCs, ItemPCs
  <2>4. ASSUME NEW s \in ServiceIDs, services[s].owner[1] # r \/ Standing(s) # "recorded"
        PROVE  Standing(s)' = Standing(s)
    <3>1. ASSUME Exists(s), s \in abandoned', s \notin abandoned
          PROVE  FALSE
      <4>1. s \in ServicesToDelete(hrCache[r]) /\ services[s].owner[1] = r
        BY <1>1, <2>1, <3>1, CachedBorn
      <4>2. \E b \in Backends : s = hr[r].svcIDs[b] /\ s # None
        BY <2>2, <4>1 DEF ServicesToDelete
      <4>3. hr[r].phase = "live"
        BY <3>1, <4>1, LedgerInvParts DEF Accounted, Exists
      <4>4. s \in Tracked(r)
        BY <4>2, <4>3 DEF Tracked
      <4>5. Standing(s) = "recorded"
        BY <3>1, <4>1, <4>4 DEF Standing, Exists
      <4> QED
        BY <2>4, <4>1, <4>5
    <3> QED
      BY <1>1, <2>3, <3>1, StandsStill
  <2>5. ASSUME NEW s \in ServiceIDs, services[s].owner[1] = r, Standing(s) = "recorded"
        PROVE  Standing(s)' = "lost" /\ hr[r].phase = "live"
    <3>1. Exists(s) /\ s \in Tracked(r) /\ hr[r].phase = "live"
      BY <2>5, RecordedMeans
    <3>2. s \in ServicesToDelete(hrCache[r])
      BY <2>2, <3>1 DEF Tracked, ServicesToDelete
    <3> QED
      BY <1>1, <2>1, <3>1, <3>2, LostMeans DEF Exists
  <2>6. CASE Lives(r) = "closing"
    <3>1. Stand({s \in ServiceIDs : /\ Standing(s) \in {"held", "recorded"}
                                    /\ services[s].owner[1] = r}, "lost")
      BY <2>3, <2>4, <2>5 DEF Stand
    <3> QED
      BY <1>1, <1>2, <2>1, <2>6, <3>1, LedgerDisown
  <2>7. CASE Lives(r) # "closing"
    <3>1. hr[r].phase # "live"
      BY <2>2, <2>7 DEF Lives
    <3>2. AllStand
      BY <2>4, <2>5, <3>1 DEF AllStand
    <3> QED
      BY <1>1, <1>2, <2>1, <3>2, LedgerBegin
  <2> QED
    BY <2>6, <2>7
<1> QED
  BY <1>4, <1>5, <1>6

\* The calls that make nothing, save nothing and end nothing.
LEMMA LedgerPlain ==
  ASSUME LedgerInv, [Next]_vars, UNCHANGED <<hr, abandoned>>, w'.route = w.route,
         \A s \in ServiceIDs : services'[s].state = services[s].state
  PROVE  Ledger!Next
  BY AllStandStill, OwnersKept, LivesKept, LedgerStutter

\* UpdateService changes the host only.
LEMMA HostOnly ==
  ASSUME services \in [ServiceIDs -> Service], UpdateServiceCall, NEW s \in ServiceIDs
  PROVE  services'[s].state = services[s].state
<1>1. ASSUME NEW x, services' = [services EXCEPT ![x].host = w.host]
      PROVE  services'[s].state = services[s].state
  BY <1>1 DEF Service
<1> QED
  BY <1>1 DEF UpdateServiceCall, UpdateService, cloudVars

\* POST /services.
LEMMA LedgerCreate ==
  ASSUME LedgerInv, [Next]_vars, CreateServiceCall
  PROVE  Ledger!Next
<1>1. /\ TypeOK /\ w \in Worker /\ services \in [ServiceIDs -> Service] /\ OwnInv /\ MapInv
      /\ w.pc = "createService" /\ w.pc \in ItemPCs /\ UNCHANGED hr
  BY LedgerInvParts, CreateServiceFields DEF TypeOK, CloudTypeOK, ItemPCs
<1>2. w.route \in Routes /\ ServiceKey \in Backends
  BY <1>1, InCall
<1>3. hr[w.route].phase = "live" /\ LivesSame
  BY <1>1, LivesKept DEF MapInv, LifeInv, PassLife, RunPCs
<1>4. CASE Fail /\ UNCHANGED <<services, routes, abandoned>>
  <2>1. w'.route = w.route
    BY <1>1, <1>4, FailFields DEF Keeps
  <2> QED
    BY <1>1, <1>4, <2>1, LedgerPlain
<1>5. ASSUME NEW x \in FreshServices, CreateService(x, <<w.route, ServiceKey>>, w.host),
             \/ Fail /\ abandoned' = abandoned \union {x}
             \/ w'.route = w.route /\ UNCHANGED abandoned
      PROVE  Ledger!Next
  <2>1. x \in ServiceIDs /\ services[x].state = "unborn" /\ Standing(x) = "unborn"
    BY <1>5 DEF FreshServices, Standing
  <2>2. /\ services'[x].state = "live" /\ services'[x].owner = <<w.route, ServiceKey>>
        /\ \A s \in ServiceIDs : s # x => services'[s] = services[s]
    BY <1>1, <1>5, <2>1 DEF CreateService
  <2>3. w'.route = w.route
    BY <1>1, <1>5, FailFields DEF Keeps
  <2>4. ASSUME NEW s \in ServiceIDs, s # x
        PROVE  Standing(s)' = Standing(s)
    BY <1>1, <1>5, <2>2, <2>4, StandsStill DEF SameRecords
  <2>5. CASE abandoned' = abandoned \union {x}
    <3>1. Stand({x}, "lost")
      BY <2>1, <2>2, <2>4, <2>5, LostMeans DEF Stand
    <3> QED
      BY <1>2, <1>3, <2>1, <2>2, <2>3, <3>1, LedgerOpen DEF Lives
  <2>6. CASE UNCHANGED abandoned
    <3>1. x \notin abandoned'
      BY <2>1, <2>6 DEF LedgerInv, GivenUpBorn
    <3>2. x \notin Tracked(w.route)'
      <4>1. x \notin Tracked(w.route)
        BY <1>1, <1>2, <2>1, RecordedBorn DEF Tracked
      <4> QED
        BY <1>1, <2>3, <4>1 DEF Tracked
    <3>3. services'[x].owner[1] = w.route
      BY <2>2
    <3>4. ~(x \in Tracked(services[x].owner[1])')
      BY <2>3, <3>2, <3>3 DEF Tracked
    <3>5. Standing(x)' = "held"
      BY <2>2, <3>1, <3>4 DEF Standing
    <3>6. Stand({x}, "held")
      BY <2>4, <3>5 DEF Stand
    <3>7. ASSUME NEW t \in ServiceIDs, Standing(t) = "held",
                 services[t].owner = <<w.route, ServiceKey>>
          PROVE  FALSE
      <4>1. Exists(t) /\ t \in InHand
        BY <3>7, HeldMeans
      <4>2. PICK b \in Backends : t = w.sids[b] /\ t # None
        BY <4>1 DEF InHand
      <4>3. services[t].owner = <<w.route, b>>
        BY <1>1, <4>2, RecordedBorn DEF ItemPCs
      <4>4. b = ServiceKey
        BY <3>7, <4>3
      <4> QED
        BY <1>1, <4>1, <4>2, <4>4 DEF MapInv, Maps, CurrentService
    <3> QED
      BY <1>2, <1>3, <2>1, <2>2, <2>3, <3>6, <3>7, LedgerOpen DEF Lives
  <2> QED
    BY <1>5, <2>5, <2>6
<1> QED
  BY <1>1, <1>4, <1>5, CreateServiceFields

\* The annotations are saved: all that is held is recorded, or nothing is.
LEMMA LedgerSave ==
  ASSUME LedgerInv, [Next]_vars, SaveAnnotations
  PROVE  Ledger!Next
<1>1. /\ TypeInv /\ TypeOK /\ w \in Worker /\ OwnInv /\ LifeInv /\ MapInv
      /\ w.pc = "save" /\ UNCHANGED <<services, abandoned>>
  BY LedgerInvParts, SaveFields
<1>2. w.route \in Routes /\ w'.route = w.route
  BY <1>1, InPass, SaveFields, FailFields DEF Keeps
<1>3. OwnersSame /\ LivesSame
  <2>1. ~UNCHANGED w
    BY <1>1, SaveFields, FailFields
  <2> QED
    BY <1>1, <2>1, LivesKept DEF OwnersSame
<1>4. hr[w.route].phase = "live" /\ hr[w.route].finalizer
  BY <1>1 DEF MapInv, LifeInv, PassLife, RunPCs
<1>5. CASE SameRecords(hr'[w.route], hr[w.route])
  <2>1. AllStand
    BY <1>1, <1>5, StandsStill DEF AllStand
  <2> QED
    BY <1>2, <1>3, <2>1, LedgerStutter
<1>6. CASE SameButStatus(w.obj, hr[w.route]) /\ hr'[w.route].svcIDs = w.sids
  <2>1. hr'[w.route].phase = "live"
    <3>1. CASE hr'[w.route] = hr[w.route]
      BY <1>4, <3>1
    <3>2. CASE /\ w.pc # "idle" /\ hr[w.route].rv = w.obj.rv
               /\ PassWrites(hr[w.route], hr'[w.route]) /\ hr'[w.route] # hr[w.route]
      BY <1>1, <3>2, WriteLife
    <3>3. ~UNCHANGED w
      BY <1>1, SaveFields, FailFields
    <3> QED
      BY <1>1, <1>2, <3>1, <3>2, <3>3, ServerStep
  <2>2. ASSUME NEW s \in ServiceIDs, Standing(s) # "held"
        PROVE  Standing(s)' = Standing(s)
    BY <1>1, <2>2, StandsStill
  <2>3. ASSUME NEW s \in ServiceIDs, Standing(s) = "held"
        PROVE  Standing(s)' = "recorded"
    <3>1. /\ Exists(s) /\ s \notin abandoned /\ s \in InHand
          /\ services[s].owner[1] = w.route
      BY <2>3, HeldMeans
    <3>2. PICK r \in Routes : r = w.route
      BY <1>2
    <3>3. s \in Tracked(r)'
      BY <1>6, <2>1, <3>1, <3>2 DEF InHand, Tracked
    <3>4. services'[s].owner[1] = r /\ services'[s].state = "live" /\ s \notin abandoned'
      BY <1>1, <3>1, <3>2 DEF Exists
    <3>5. s \in Tracked(services[s].owner[1])'
      BY <3>3, <3>4 DEF Tracked
    <3> QED
      BY <3>4, <3>5 DEF Standing
  <2>4. Stand(HeldOnes, "recorded")
    BY <2>2, <2>3 DEF Stand, HeldOnes
  <2>5. ASSUME NEW s \in ServiceIDs, NEW t \in ServiceIDs,
               Standing(s) = "held", Standing(t) = "recorded",
               services[s].owner = services[t].owner
        PROVE  FALSE
    <3>1. Exists(s) /\ s \in InHand /\ services[s].owner[1] = w.route
          /\ s \notin Tracked(w.route)
      BY <2>5, HeldMeans
    <3>2. Exists(t) /\ t \in Tracked(w.route)
      BY <2>5, <3>1, RecordedMeans
    <3>3. PICK b \in Backends : s = w.sids[b] /\ s # None
      BY <3>1 DEF InHand
    <3>4. \E b2 \in Backends : t = hr[w.route].svcIDs[b2] /\ t # None
      BY <3>2 DEF Tracked
    <3>5. PICK b2 \in Backends : t = hr[w.route].svcIDs[b2] /\ t # None
      BY <3>4
    <3>6. services[s].owner = <<w.route, b>> /\ services[t].owner = <<w.route, b2>>
      BY <1>1, <1>2, <3>3, <3>5, RecordedBorn
    <3>7. <<w.route, b>> = <<w.route, b2>>
      BY <2>5, <3>6
    <3>8. b = b2
      BY <3>7
    <3>9. t = w.obj.svcIDs[b]
      BY <1>6, <3>5, <3>8 DEF SameButStatus
    <3>10. s = t
      BY <1>1, <3>2, <3>3, <3>5, <3>9 DEF MapInv, Maps
    <3> QED
      BY <3>1, <3>2, <3>10
  <2>6. CASE HeldOnes # {}
    BY <1>2, <1>3, <2>4, <2>5, <2>6, LedgerCommit
  <2>7. CASE HeldOnes = {}
    <3>1. AllStand
      BY <2>2, <2>7 DEF AllStand, HeldOnes
    <3> QED
      BY <1>2, <1>3, <3>1, LedgerStutter
  <2> QED
    BY <2>6, <2>7
<1> QED
  BY <1>1, <1>2, <1>5, <1>6, AnnotationStep

\* A pass ends that holds nothing the annotations do not name.
LEMMA LedgerEndEmpty ==
  ASSUME AllStand, OwnersSame, LivesSame, w.route # None, w'.route = None,
         \A s \in ServiceIDs : Standing(s) # "held"
  PROVE  Ledger!Next
<1>1. Stand(HeldOnes, "lost")
  BY DEF Stand, HeldOnes, AllStand
<1> QED
  BY <1>1, LedgerEnd

\* The finalizer is put on, or the pass ends.
LEMMA LedgerAddFinalizer ==
  ASSUME LedgerInv, [Next]_vars, AddFinalizer
  PROVE  Ledger!Next
<1>1. /\ TypeOK /\ w.pc = "finalizer" /\ UNCHANGED <<services, abandoned>>
      /\ w' = Idle \/ (w'.pc = "parent" /\ Keeps)
  BY LedgerInvParts, AddFinalizerFields
<1>2. w.route \in Routes /\ w.route # None
  BY <1>1, InPass, CloudAssumption
<1>3. ~UNCHANGED w /\ (w'.route = None \/ w'.route = w.route)
  BY <1>1, IdleFields DEF Keeps
<1>4. AllStand /\ OwnersSame /\ LivesSame
  BY <1>1, <1>3, AllStandStill, LivesKept DEF OwnersSame
<1>5. \A s \in ServiceIDs : Standing(s) # "held"
  BY <1>1, NothingHeld DEF RunPCs, ItemPCs
<1> QED
  BY <1>2, <1>3, <1>4, <1>5, LedgerEndEmpty, LedgerStutter

\* Calls that read, that change the host, a route or a NodePort Service, or that fail.
LEMMA LedgerQuiet ==
  ASSUME LedgerInv, [Next]_vars,
         \/ ResolveParent \/ EnsureNodePort \/ RereadNodePort \/ GetServiceCall
         \/ UpdateServiceCall \/ CreateRouteCall \/ ListRoutesCall
         \/ SkipBackendRef \/ SetRequestTransformCall \/ SetResponseTransformCall
         \/ DeleteRoutes \/ DeleteNodePorts
  PROVE  Ledger!Next
<1>1. /\ TypeOK /\ w \in Worker /\ Linked(services, routes)
      /\ services \in [ServiceIDs -> Service]
  BY LedgerInvParts DEF TypeOK, CloudTypeOK
<1>2. Fail => w'.route = w.route
  BY <1>1, FailFields DEF Keeps
<1>3. CASE ResolveParent
  BY <1>1, <1>2, <1>3, ResolveFields, LedgerPlain
<1>4. CASE EnsureNodePort \/ RereadNodePort \/ GetServiceCall \/ UpdateServiceCall
  <2>1. UNCHANGED <<hr, abandoned>> /\ w'.route = w.route
    BY <1>1, <1>2, <1>4, LookupFields DEF Keeps, KeepsPlace
  <2>2. \A s \in ServiceIDs : services'[s].state = services[s].state
    BY <1>1, <1>4, HostOnly DEF EnsureNodePort, RereadNodePort, GetServiceCall, cloudVars
  <2> QED
    BY <2>1, <2>2, LedgerPlain
<1>5. CASE CreateRouteCall \/ ListRoutesCall
  <2>1. UNCHANGED <<services, hr, abandoned>> /\ w'.route = w.route
    BY <1>1, <1>2, <1>5, RouteFields DEF Keeps, KeepsPlace
  <2> QED
    BY <2>1, LedgerPlain
<1>6. CASE SkipBackendRef \/ SetRequestTransformCall \/ SetResponseTransformCall \/ DeleteRoutes
           \/ DeleteNodePorts
  <2>1. UNCHANGED <<services, hr, abandoned>> /\ w'.route = w.route
    BY <1>1, <1>6, TransformFields, DeleteRoutesFields, DeleteNodePortsFields DEF Keeps
  <2> QED
    BY <2>1, LedgerPlain
<1> QED
  BY <1>3, <1>4, <1>5, <1>6

\* The status is written: all the pass held is recorded by now, or it is given up.
LEMMA LedgerStatus ==
  ASSUME LedgerInv, [Next]_vars, WriteStatus \/ ReportError
  PROVE  Ledger!Next
<1>1. /\ TypeOK /\ MapInv /\ w.pc \in {"status", "failed"}
      /\ UNCHANGED services /\ w' = Idle /\ w'.route = None
      /\ abandoned' = IF w.pc = "failed" THEN abandoned \union (InHand \ Tracked(w.route))
                      ELSE abandoned
  BY LedgerInvParts, EndFields, IdleFields DEF WriteStatus, ReportError
<1>2. w.route # None /\ ~UNCHANGED w
  BY <1>1, InPass, IdleFields, CloudAssumption
<1>3. OwnersSame /\ LivesSame
  BY <1>1, <1>2, LivesKept DEF OwnersSame
<1>4. CASE w.pc = "status"
  <2>1. AllStand
    BY <1>1, <1>4, AllStandStill
  <2>2. ASSUME NEW s \in ServiceIDs, Standing(s) = "held"
        PROVE  FALSE
    <3>1. s \in InHand /\ s \notin Tracked(w.route) /\ hr[w.route].phase = "live"
      BY <2>2, HeldMeans
    <3>2. w.sids = hr[w.route].svcIDs
      BY <1>1, <1>4 DEF MapInv, Maps
    <3> QED
      BY <3>1, <3>2 DEF InHand, Tracked
  <2> QED
    BY <1>1, <1>2, <1>3, <2>1, <2>2, LedgerEndEmpty
<1>5. CASE w.pc = "failed"
  <2>1. \A s \in ServiceIDs : Standing(s) # "held" \/ s \in abandoned'
    BY <1>1, <1>5, HeldMeans
  <2>2. Stand(HeldOnes, "lost")
    BY <1>1, <1>5, <2>1, HeldIsLost
  <2> QED
    BY <1>1, <1>2, <1>3, <2>2, LedgerEnd
<1> QED
  BY <1>1, <1>4, <1>5

\* The finalizer is taken off: the route goes, with nothing recorded that was not
\* deleted or given up.
LEMMA LedgerRemoveFinalizer ==
  ASSUME LedgerInv, [Next]_vars, RemoveFinalizer
  PROVE  Ledger!Next
<1>1. /\ TypeOK /\ LifeInv /\ DoomInv /\ w.pc = "removeFinalizer"
      /\ UNCHANGED <<services, abandoned>> /\ w' = Idle /\ w'.route = None
  BY LedgerInvParts, EndFields, IdleFields DEF RemoveFinalizer
<1>2. w.route \in Routes /\ w.route # None /\ ~UNCHANGED w
  BY <1>1, InPass, IdleFields, CloudAssumption
<1>3. AllStand /\ OwnersSame
  BY <1>1, AllStandStill DEF OwnersSame
<1>4. \A s \in ServiceIDs : Standing(s) # "held"
  BY <1>1, NothingHeld DEF RunPCs, ItemPCs
<1>5. CASE LivesSame
  BY <1>1, <1>2, <1>3, <1>4, <1>5, LedgerEndEmpty
<1>6. CASE ~LivesSame
  <2>1. PICK r \in Routes : Lives(r)' # Lives(r)
    BY <1>6 DEF LivesSame
  <2>2. /\ w.route = r /\ hr[r].rv = w.obj.rv
        /\ Lives(r) # "gone" /\ Lives(r)' = "gone"
    BY <1>2, <2>1, LivesStep
  <2>3. \A x \in Routes : x # r => Lives(x)' = Lives(x)
    BY <1>2, <2>2, LivesStep
  <2>4. ASSUME NEW s \in ServiceIDs, Standing(s) \in {"held", "recorded"},
               services[s].owner[1] = r
        PROVE  FALSE
    <3>1. Exists(s) /\ s \notin abandoned /\ s \in Tracked(r)
      BY <1>4, <2>4, RecordedMeans
    <3>2. w.obj.svcIDs = hr[r].svcIDs
      BY <1>1, <2>2, WrittenFrom DEF SameButStatus
    <3>3. s \in ServicesToDelete(w.obj)
      BY <3>1, <3>2 DEF Tracked, ServicesToDelete
    <3> QED
      BY <1>1, <3>1, <3>3 DEF DoomInv, Doom, Over
  <2> QED
    BY <1>1, <1>3, <2>2, <2>3, <2>4, LedgerLeave
<1> QED
  BY <1>5, <1>6

\* DELETE /services/{id}, which may have its effect, its answer, both or neither.
LEMMA LedgerDeleteServices ==
  ASSUME LedgerInv, [Next]_vars, DeleteServices
  PROVE  Ledger!Next
<1>1. /\ TypeInv /\ w \in Worker /\ OwnInv /\ LifeInv /\ DoomInv
      /\ services \in [ServiceIDs -> Service]
      /\ w.pc = "deleteServices" /\ UNCHANGED hr /\ w'.route = w.route
  BY LedgerInvParts, DeleteServicesFields DEF TypeOK, CloudTypeOK
<1>2. w.route \in Routes /\ hr[w.route].deleting
  <2>1. w.route \in Routes
    BY <1>1, LedgerInvParts, InPass
  <2> QED
    BY <1>1, <2>1 DEF LifeInv, PassLife, Life, DeletePCs
<1>3. LivesSame
  BY <1>1, LivesKept
<1>4. CASE UNCHANGED <<services, abandoned>>
  BY <1>1, <1>4, LedgerPlain
<1>5. ASSUME NEW x \in w.doomed, UNCHANGED services \/ DeleteService(x),
             \/ DeleteService(x) /\ UNCHANGED abandoned
             \/ abandoned' = abandoned \union {x}
      PROVE  Ledger!Next
  <2>1. x \in ServiceIDs /\ services[x].state # "unborn" /\ services[x].owner[1] = w.route
    BY <1>1, <1>5, ToDeleteBorn DEF DoomInv, Doom
  <2>2. \A s \in ServiceIDs : s # x => services'[s] = services[s]
    BY <1>5 DEF DeleteService, EndServices
  <2>3. ASSUME NEW s \in ServiceIDs, s # x
        PROVE  Standing(s)' = Standing(s)
    BY <1>1, <1>5, <2>2, <2>3, StandsStill DEF SameRecords
  <2>4. OwnersSame
    BY <2>1, <2>2, OwnersKept
  <2>5. CASE services[x].state # "live"
    <3>1. services'[x] = services[x]
      BY <1>5, <2>1, <2>5 DEF DeleteService, EndServices, Exists
    <3>2. Standing(x)' = Standing(x)
      BY <2>1, <2>5, <3>1 DEF Standing
    <3>3. AllStand
      BY <2>3, <3>2 DEF AllStand
    <3> QED
      BY <1>1, <1>3, <2>4, <3>3, LedgerStutter
  <2>6. CASE services[x].state = "live" /\ DeleteService(x)
    <3>1. services'[x].state = "deleted"
      BY <1>1, <2>1, <2>6 DEF DeleteService, EndServices, Exists, Service
    <3>2. Stand({x}, "ended")
      BY <2>1, <2>3, <3>1, EndedMeans DEF Stand
    <3>3. Standing(x) \in {"held", "recorded", "lost"}
      BY <2>1, <2>6, Standings
    <3> QED
      BY <1>1, <1>3, <2>1, <2>4, <3>2, <3>3, LedgerRemoved
  <2>7. CASE services[x].state = "live" /\ ~DeleteService(x)
    <3>1. services'[x].state = "live" /\ x \in abandoned'
      BY <1>5, <2>7
    <3>2. Standing(x)' = "lost"
      BY <2>1, <3>1, LostMeans
    <3>3. CASE Standing(x) = "lost"
      <4>1. AllStand
        BY <2>3, <3>2, <3>3 DEF AllStand
      <4> QED
        BY <1>1, <1>3, <2>4, <4>1, LedgerStutter
    <3>4. CASE Standing(x) # "lost"
      <4>1. Standing(x) = "recorded"
        <5>1. Standing(x) # "held"
          BY <1>1, <2>1, NothingHeld DEF RunPCs, ItemPCs
        <5> QED
          BY <2>1, <2>7, <3>4, <5>1, Standings
      <4>2. hr[w.route].phase = "live"
        BY <2>1, <4>1, RecordedMeans
      <4>3. Lives(w.route) = "closing"
        BY <1>2, <4>2 DEF Lives
      <4>4. Stand({x}, "lost")
        BY <2>3, <3>2 DEF Stand
      <4> QED
        BY <1>1, <1>2, <1>3, <2>1, <2>4, <4>1, <4>3, <4>4, LedgerDelete
    <3> QED
      BY <3>3, <3>4
  <2> QED
    BY <2>1, <2>5, <2>6, <2>7
<1> QED
  BY <1>1, <1>4, <1>5, DeleteServicesFields

----------------------------------------------------------------------------
(* The refinement.                                                           *)

\* The first state of the ledger.
LEMMA LedgerStarts == Init => Ledger!Init
<1> SUFFICES ASSUME Init PROVE Ledger!Init
  OBVIOUS
<1>1. /\ w.route = None
      /\ \A s \in ServiceIDs : services[s].state = "unborn" /\ services[s].owner = <<None, None>>
      /\ \A r \in Routes : hr[r].phase = "new" /\ ~hr[r].deleting
  BY DEF Init, CloudInit, Idle, Uncreated
<1>2. \A s \in ServiceIDs : Standing(s) = "unborn"
  BY <1>1 DEF Standing
<1> QED
  BY <1>1, <1>2 DEF Ledger!Init

\* Every step is one of the ledger's.
LEMMA LedgerStep == LedgerInv /\ [Next]_vars => [Ledger!Next]_(Ledger!ledgerVars)
<1> SUFFICES ASSUME LedgerInv, [Next]_vars PROVE Ledger!Next
  OBVIOUS
<1>1. CASE WorkerStep
  BY <1>1, LedgerAddFinalizer, LedgerQuiet, LedgerCreate, LedgerSave, LedgerStatus,
     LedgerDeleteServices, LedgerRemoveFinalizer DEF WorkerStep
<1>2. CASE UNCHANGED <<services, hr, abandoned, w>>
  BY <1>2, LedgerPlain
<1> QED
  BY <1>1, <1>2, SeenSteps, LedgerRestart, LedgerStart, LedgerUser, LedgerConsole

\* The controller keeps the ledger: through every interleaving of users, caches,
\* failures and restarts, what a pass makes is recorded all at once or lost with
\* the pass, a place never has two recorded live services, a recorded service is
\* given up for its own deleted route only, and a route goes with nothing recorded.
THEOREM LedgerIsKept == Spec => KeepsLedger
  BY LedgerInit, LedgerInvKept, LedgerStarts, LedgerStep, PTL DEF Spec, KeepsLedger, Ledger!Spec

----------------------------------------------------------------------------
(* What the finalizer cleans up.                                             *)

\* A service that a cached copy or a pass's copy records and that lives is recorded
\* on the server still: a record is replaced only when the service is gone.
StillRecorded ==
    /\ \A r \in Routes, b \in Backends :
          Exists(hrCache[r].svcIDs[b]) => hr[r].svcIDs[b] = hrCache[r].svcIDs[b]
    /\ w.pc # "idle" => \A b \in Backends :
          Exists(w.obj.svcIDs[b]) => hr[w.route].svcIDs[b] = w.obj.svcIDs[b]

\* What is recorded or held is not given up while it lives.
Kept ==
    /\ \A r \in Routes, b \in Backends :
          Exists(hr[r].svcIDs[b]) => hr[r].svcIDs[b] \notin abandoned
    /\ \A s \in InHand : Exists(s) => s \notin abandoned

\* Every Gateway stays, and without a client there has never been one.
GatewaysStay == \A g \in Gateways : gw[g] # "gone"
WithoutClient == ~clientOK => /\ w.pc \notin ItemPCs
                              /\ \A s \in ServiceIDs : services[s].state = "unborn"

\* The inductive invariant, in a steady world.
CleanInv == LedgerInv /\ StillRecorded /\ Kept /\ GatewaysStay /\ WithoutClient

\* A world in which the promise is kept: Gateways and the client stay, and calls to
\* the cloud do not fail (in dry run they cannot).
SteadyWorld == /\ "gateway" \notin EnvKinds /\ "client" \notin EnvKinds
               /\ DryRun \/ MaxFaults = 0

\* A service that lives after a step and was created before it lived before it.
LEMMA LivedBefore ==
  ASSUME TypeInv, Linked(services, routes), [Next]_vars, NEW s \in ServiceIDs,
         services'[s].state = "live", services[s].state # "unborn"
  PROVE  Exists(s)
  BY ServiceStep DEF Exists

\* Nothing lives that has no identifier.
LEMMA NoneIsNot == ~Exists(None)
  BY CloudAssumption DEF Exists

\* A live recorded service stays recorded where it is.
LEMMA RecordStands ==
  ASSUME LedgerInv, [Next]_vars, NEW r \in Routes, NEW b \in Backends, Exists(hr[r].svcIDs[b])
  PROVE  hr'[r].svcIDs[b] = hr[r].svcIDs[b]
  BY LedgerInvParts, ForgetsGoneOnly, NoneIsNot

\* The copies fall behind in dead services only.
LEMMA StillRecordedKept ==
  ASSUME LedgerInv, StillRecorded, [Next]_vars
  PROVE  StillRecorded'
<1>1. /\ TypeInv /\ TypeOK /\ Linked(services, routes) /\ OwnInv /\ OwnInv'
      /\ hr \in [Routes -> HTTPRoute]
  <2>1. LedgerInv'
    BY LedgerInvKept
  <2>2. OwnInv'
    BY <2>1 DEF LedgerInv, AccountInv, DoomInv, MapInv
  <2> QED
    BY <2>2, LedgerInvParts DEF TypeOK
<1>2. ASSUME NEW r \in Routes, NEW b \in Backends, NEW s \in ServiceIDs,
             services'[s].state = "live",
             s = hrCache[r].svcIDs[b] \/ s = hr[r].svcIDs[b]
      PROVE  hr'[r].svcIDs[b] = s
  <2>1. services[s].state # "unborn"
    <3>1. CASE s = hr[r].svcIDs[b]
      BY <1>1, <1>2, <3>1, RecordedBorn, CloudAssumption
    <3>2. CASE s = hrCache[r].svcIDs[b]
      <4>1. s \in ServicesToDelete(hrCache[r])
        BY <1>2, <3>2, CloudAssumption DEF ServicesToDelete
      <4> QED
        BY <1>1, <4>1, CachedBorn
    <3> QED
      BY <1>2, <3>1, <3>2
  <2>2. Exists(s)
    BY <1>1, <1>2, <2>1, LivedBefore
  <2>3. hr[r].svcIDs[b] = s
    BY <1>2, <2>2 DEF StillRecorded
  <2> QED
    BY <2>2, <2>3, RecordStands
<1>3. ASSUME NEW r \in Routes, NEW b \in Backends, NEW s \in ServiceIDs,
             s = hrCache'[r].svcIDs[b], services'[s].state = "live"
      PROVE  hr'[r].svcIDs[b] = s
  <2>1. hrCache'[r] = hrCache[r] \/ hrCache'[r] = hr[r]
    BY <1>1, CacheStep
  <2> QED
    BY <1>2, <1>3, <2>1
<1>4. ASSUME NEW b \in Backends, NEW s \in ServiceIDs, w'.pc # "idle",
             s = w'.obj.svcIDs[b], services'[s].state = "live"
      PROVE  hr'[w'.route].svcIDs[b] = s
  <2>1. CASE w.pc # "idle" /\ w'.route = w.route /\ w'.obj.svcIDs = w.obj.svcIDs
    <3>1. w.route \in Routes /\ services[s].state # "unborn"
      BY <1>1, <1>4, <2>1, RecordedBorn, InPass, CloudAssumption
    <3>2. Exists(s)
      BY <1>1, <1>4, <3>1, LivedBefore
    <3>3. hr[w.route].svcIDs[b] = s
      BY <1>4, <2>1, <3>2 DEF StillRecorded
    <3> QED
      BY <2>1, <3>1, <3>2, <3>3, RecordStands
  <2>2. CASE ObjAnswered
    BY <1>4, <2>2 DEF ObjAnswered, SameButStatus
  <2>3. ASSUME NEW r \in Routes, w'.route = r, w'.obj = hrCache[r]
        PROVE  hr'[w'.route].svcIDs[b] = s
    BY <1>2, <1>4, <2>3
  <2> QED
    BY <1>1, <1>4, <2>1, <2>2, <2>3, ObjStep DEF ObjKept, SameButStatus
<1> QED
  BY <1>3, <1>4 DEF StillRecorded, Exists

\* What a pass holds it held, read from its object, or has just made.
LEMMA HeldFrom ==
  ASSUME LedgerInv, [Next]_vars, NEW s, s \in InHand'
  PROVE  \/ s \in InHand
         \/ w.pc # "idle" /\ \E b \in Backends : s = w.obj.svcIDs[b]
         \/ s \in FreshServices
<1>1. /\ TypeInv /\ TypeOK /\ w \in Worker /\ Linked(services, routes)
  BY LedgerInvParts
<1>2. PICK b \in Backends : s = w'.sids[b] /\ s # None
  BY DEF InHand
<1>3. w'.sids # NoServiceIDs
  BY <1>2 DEF NoServiceIDs
<1>4. w'.sids = w.sids => s \in InHand
  BY <1>2 DEF InHand
<1>5. w' # Idle
  BY <1>3, IdleFields
<1>6. CASE UNCHANGED w \/ Fail
  BY <1>1, <1>4, <1>6, FailFields DEF Keeps
<1>7. CASE ResolveParent
  BY <1>1, <1>2, <1>6, <1>7, ResolveFields
<1>8. CASE CreateServiceCall
  <2>1. ASSUME NEW x \in FreshServices, w'.sids = [w.sids EXCEPT ![ServiceKey] = x]
        PROVE  s = x \/ s \in InHand
    <3>1. w.sids \in [Backends -> ServiceIDs \union {None}]
      BY <1>1 DEF Worker
    <3>2. w'.sids[b] = x \/ w'.sids[b] = w.sids[b]
      BY <2>1, <3>1
    <3> QED
      BY <1>2, <3>2 DEF InHand
  <2> QED
    BY <1>1, <1>6, <1>8, <2>1, CreateServiceFields
<1>9. CASE EnsureNodePort \/ RereadNodePort \/ GetServiceCall \/ UpdateServiceCall
  BY <1>1, <1>4, <1>6, <1>9, LookupFields DEF KeepsPlace, Keeps
<1>10. CASE CreateRouteCall \/ ListRoutesCall
  BY <1>1, <1>4, <1>6, <1>10, RouteFields DEF KeepsPlace, Keeps
<1>11. CASE SkipBackendRef \/ SetRequestTransformCall \/ SetResponseTransformCall
  BY <1>1, <1>4, <1>11, TransformFields DEF Keeps
<1>12. CASE SaveAnnotations \/ AddFinalizer
  BY <1>1, <1>4, <1>5, <1>6, <1>12, SaveFields, AddFinalizerFields DEF Keeps
<1>13. CASE WriteStatus \/ ReportError \/ RemoveFinalizer
  BY <1>5, <1>13, EndFields
<1>14. CASE DeleteRoutes \/ DeleteServices \/ DeleteNodePorts
  BY <1>1, <1>4, <1>14, DeleteRoutesFields, DeleteServicesFields, DeleteNodePortsFields DEF Keeps
<1>15. CASE Restart
  BY <1>5, <1>15 DEF Restart
<1>16. ASSUME NEW r \in Routes, Reconcile(r)
       PROVE  s \in InHand
  BY <1>3, <1>6, <1>16, <1>4, StartFields
<1> QED
  BY <1>6, <1>7, <1>8, <1>9, <1>10, <1>11, <1>12, <1>13, <1>14, <1>15, <1>16, WhoMoves
     DEF WorkerStep

\* Nothing changes the Gateways' and the client's lasting.
LEMMA WorldStays ==
  ASSUME SteadyWorld, TypeOK, GatewaysStay, [Next]_vars
  PROVE  GatewaysStay' /\ UNCHANGED clientOK
<1>1. UNCHANGED worldVars => GatewaysStay' /\ UNCHANGED clientOK
  BY DEF worldVars, GatewaysStay
<1>2. WorkerStep => UNCHANGED worldVars
  BY DEF WorkerStep, AddFinalizer, ResolveParent, EnsureNodePort, RereadNodePort, GetServiceCall,
     UpdateServiceCall, CreateServiceCall, CreateRouteCall, ListRoutesCall,
     SkipBackendRef, SetRequestTransformCall, SetResponseTransformCall, SaveAnnotations,
     WriteStatus, ReportError,
     DeleteRoutes, DeleteServices, DeleteNodePorts, RemoveFinalizer
<1>3. ASSUME NEW r \in Routes,
             \/ Reconcile(r) \/ SyncRoute(r) \/ RetryDue(r)
             \/ UserCreates(r) \/ UserEdits(r) \/ UserDeletes(r)
      PROVE  UNCHANGED worldVars
  BY <1>3 DEF Reconcile, SyncRoute, RetryDue, UserCreates, UserEdits, UserDeletes
<1>4. ASSUME NEW b \in Backends,
             SyncNodePort(b) \/ GarbageCollect(b) \/ BackendChanges(b) \/ OutsiderServes(b)
      PROVE  UNCHANGED worldVars
  BY <1>4 DEF SyncNodePort, GarbageCollect, BackendChanges, OutsiderServes
<1>5. Resync \/ Restart \/ NodeChanges \/ UNCHANGED vars => UNCHANGED worldVars
  BY DEF Resync, Restart, NodeChanges, vars, worldVars
<1>6. ASSUME NEW s \in ServiceIDs, CloudRemoves(s)
      PROVE  UNCHANGED worldVars
  BY <1>6 DEF CloudRemoves
<1>7. ~ClientChanges /\ \A g \in Gateways : ~GatewayDeleted(g)
  BY DEF SteadyWorld, ClientChanges, GatewayDeleted, Move
<1>8. ASSUME NEW g \in Gateways, GatewayReady(g) \/ SecretChanges(g)
      PROVE  GatewaysStay' /\ UNCHANGED clientOK
  <2>1. gw \in [Gateways -> {"pending", "ready", "gone"}]
    BY DEF TypeOK, World!WorldTypeOK
  <2>2. UNCHANGED gw \/ gw' = [gw EXCEPT ![g] = "ready"]
    BY <1>8 DEF GatewayReady, SecretChanges, World!Annotated, World!SecretChanges
  <2>3. UNCHANGED clientOK
    BY <1>8 DEF GatewayReady, SecretChanges, World!Annotated, World!SecretChanges
  <2> QED
    BY <2>1, <2>2, <2>3 DEF GatewaysStay
<1> QED
  BY <1>1, <1>2, <1>3, <1>4, <1>5, <1>6, <1>7, <1>8 DEF Next

\* Without a client no pass gets as far as a call that makes something.
LEMMA WithoutClientKept ==
  ASSUME LedgerInv, WithoutClient, [Next]_vars, UNCHANGED clientOK
  PROVE  WithoutClient'
<1> SUFFICES ASSUME ~clientOK
             PROVE  /\ w'.pc \notin ItemPCs
                    /\ \A s \in ServiceIDs : services'[s].state = "unborn"
  BY DEF WithoutClient
<1>1. /\ TypeInv /\ TypeOK /\ w \in Worker /\ Linked(services, routes)
      /\ w.pc \notin ItemPCs /\ \A s \in ServiceIDs : services[s].state = "unborn"
  BY LedgerInvParts DEF WithoutClient
<1>2. ~CreateServiceCall
  BY <1>1 DEF CreateServiceCall, ItemPCs
<1>3. \A s \in ServiceIDs : services'[s].state = "unborn"
  BY <1>1, <1>2, ServiceStep
<1>4. w' = Idle \/ Fail \/ UNCHANGED w => w'.pc \notin ItemPCs
  BY <1>1, IdleFields, FailFields DEF ItemPCs
<1>5. CASE AddFinalizer \/ SaveAnnotations \/ WriteStatus \/ ReportError \/ RemoveFinalizer
  BY <1>1, <1>3, <1>4, <1>5, AddFinalizerFields, SaveFields, EndFields DEF ItemPCs
<1>6. CASE ResolveParent
  BY <1>3, <1>4, <1>6 DEF ResolveParent
<1>7. CASE DeleteRoutes \/ DeleteServices \/ DeleteNodePorts
  BY <1>1, <1>3, <1>7, DeleteRoutesFields, DeleteServicesFields, DeleteNodePortsFields
     DEF ItemPCs, FirstNodePortStep
<1>8. ~(\/ EnsureNodePort \/ RereadNodePort \/ GetServiceCall \/ UpdateServiceCall
        \/ CreateRouteCall \/ ListRoutesCall \/ SkipBackendRef \/ SetRequestTransformCall
        \/ SetResponseTransformCall)
  BY <1>1 DEF EnsureNodePort, RereadNodePort, GetServiceCall, UpdateServiceCall,
     CreateRouteCall, ListRoutesCall, SkipBackendRef, SetRequestTransformCall,
     SetResponseTransformCall, ItemPCs
<1>9. ASSUME NEW r \in Routes, Reconcile(r)
      PROVE  w'.pc \notin ItemPCs
  BY <1>4, <1>9, StartFields DEF ItemPCs, FirstNodePortStep
<1>10. w'.pc \notin ItemPCs
  BY <1>2, <1>4, <1>5, <1>6, <1>7, <1>8, <1>9, WhoMoves DEF WorkerStep, Restart
<1> QED
  BY <1>3, <1>10

\* In a steady world only a pass that failed gives up a service that lives.
LEMMA SteadyLoss ==
  ASSUME SteadyWorld, CleanInv, [Next]_vars,
         NEW s \in abandoned', s \notin abandoned, Exists(s)'
  PROVE  ReportError /\ s \in InHand /\ s \notin Tracked(w.route)
<1>1. /\ TypeInv /\ TypeOK /\ w \in Worker /\ Linked(services, routes)
  BY LedgerInvParts DEF CleanInv
<1>2. ~CloudFault
  <2>1. faults \in Nat
    BY <1>1 DEF TypeOK
  <2> QED
    BY <2>1 DEF SteadyWorld, CloudFault, Fault
<1>3. s \in ServiceIDs /\ services'[s].state = "live"
  BY DEF Exists
<1>4. UNCHANGED abandoned => FALSE
  OBVIOUS
<1>5. ~CreateServiceCall /\ ~DeleteServices
  BY <1>2, <1>4 DEF CreateServiceCall, DeleteServices
<1>6. CASE Restart
  <2>1. DryRun
    <3>1. faults \in Nat
      BY <1>1 DEF TypeOK
    <3> QED
      BY <1>6, <3>1 DEF SteadyWorld, Restart, Fault
  <2>2. services' = [x \in ServiceIDs |->
                       IF x \in ServiceIDs /\ Exists(x)
                       THEN [services[x] EXCEPT !.state = "removed"] ELSE services[x]]
    BY <1>6, <2>1 DEF Restart, EndServices
  <2>3. services \in [ServiceIDs -> Service]
    BY <1>1 DEF TypeOK, CloudTypeOK
  <2>4. services'[s].state # "live"
    <3>1. CASE Exists(s)
      <4>1. services'[s] = [services[s] EXCEPT !.state = "removed"]
        BY <1>3, <2>2, <3>1
      <4> QED
        BY <1>3, <2>3, <4>1 DEF Service
    <3>2. CASE ~Exists(s)
      <4>1. services'[s] = services[s]
        BY <1>3, <2>2, <3>2
      <4> QED
        BY <1>3, <3>2, <4>1 DEF Exists
    <3> QED
      BY <3>1, <3>2
  <2> QED
    BY <1>3, <2>4
<1>7. ASSUME NEW r \in Routes, Reconcile(r)
      PROVE  FALSE
  <2>1. ~DeletionClient(hrCache[r], r)
    BY <1>4, <1>7 DEF Reconcile, StartDelete, Read
  <2>2. ParentRefs[r] \in Seq(Gateways) \ {<<>>}
    BY ReconcilerAssumption
  <2>3. 1 \in DOMAIN ParentRefs[r] /\ ParentRefs[r][1] \in Gateways
    BY <2>2
  <2>4. ~clientOK
    BY <2>1, <2>3 DEF CleanInv, GatewaysStay, DeletionClient
  <2>5. services[s].state = "unborn" /\ UNCHANGED services
    BY <1>3, <1>7, <2>4 DEF CleanInv, WithoutClient, Reconcile, cloudVars
  <2> QED
    BY <1>3, <2>5
<1>8. CASE ReportError
  BY <1>8 DEF ReportError
<1>9. AddFinalizer \/ ResolveParent \/ EnsureNodePort \/ RereadNodePort \/ GetServiceCall
      \/ UpdateServiceCall \/ CreateRouteCall \/ ListRoutesCall => FALSE
  BY <1>1, <1>4, AddFinalizerFields, ResolveFields, LookupFields, RouteFields
<1>10. SkipBackendRef \/ SetRequestTransformCall \/ SetResponseTransformCall \/ SaveAnnotations
      \/ WriteStatus
       \/ DeleteRoutes \/ DeleteNodePorts \/ RemoveFinalizer => FALSE
  BY <1>1, <1>4, TransformFields, SaveFields, DeleteRoutesFields, DeleteNodePortsFields
     DEF WriteStatus, RemoveFinalizer
<1>11. (\E r \in Routes : UserCreates(r) \/ UserEdits(r) \/ UserDeletes(r))
       \/ (\E x \in ServiceIDs : CloudRemoves(x)) => FALSE
  BY <1>4 DEF UserCreates, UserEdits, UserDeletes, CloudRemoves
<1> QED
  BY <1>4, <1>5, <1>6, <1>7, <1>8, <1>9, <1>10, <1>11, SeenSteps DEF WorkerStep

\* In a steady world what is recorded or held is kept.
LEMMA KeptKept ==
  ASSUME SteadyWorld, CleanInv, [Next]_vars
  PROVE  Kept'
<1>1. /\ LedgerInv /\ TypeInv /\ TypeOK /\ w \in Worker /\ Linked(services, routes)
      /\ OwnInv /\ LifeInv /\ MapInv /\ GivenUpBorn
  BY LedgerInvParts DEF CleanInv, LedgerInv
<1>2. ASSUME NEW s \in ServiceIDs, services'[s].state = "live", s \in abandoned'
      PROVE  \/ Exists(s) /\ s \in abandoned
             \/ ReportError /\ s \in InHand /\ s \notin Tracked(w.route)
  <2>1. CASE s \in abandoned
    BY <1>1, <1>2, <2>1, LivedBefore DEF GivenUpBorn
  <2>2. CASE s \notin abandoned
    BY <1>2, <2>2, SteadyLoss DEF Exists
  <2> QED
    BY <2>1, <2>2
<1>3. ASSUME NEW r \in Routes, NEW b \in Backends, NEW s \in ServiceIDs,
             s = hr'[r].svcIDs[b], services'[s].state = "live", s \in abandoned'
      PROVE  FALSE
  <2>1. \/ SameRecords(hr'[r], hr[r])
        \/ w.pc = "save" /\ w.route = r /\ hr'[r].svcIDs = w.sids
    BY <1>1, AnnotationStep
  <2>2. CASE Exists(s) /\ s \in abandoned
    <3>1. s = hr[r].svcIDs[b] \/ s \in InHand
      BY <1>3, <2>1, CloudAssumption DEF SameRecords, InHand
    <3> QED
      BY <2>2, <3>1 DEF CleanInv, Kept
  <2>3. CASE ReportError /\ s \in InHand /\ s \notin Tracked(w.route)
    <3>1. s = hr[r].svcIDs[b] /\ s # None
      BY <1>3, <2>1, <2>3, CloudAssumption DEF SameRecords, ReportError
    <3>2. services[s].owner = <<r, b>>
      BY <1>1, <3>1, RecordedBorn
    <3>3. services[s].owner[1] = w.route /\ hr[w.route].phase = "live"
      BY <1>1, <2>3, HeldByLive
    <3>4. r = w.route
      BY <3>2, <3>3
    <3> QED
      BY <2>3, <3>1, <3>3, <3>4 DEF Tracked
  <2> QED
    BY <1>2, <1>3, <2>2, <2>3
<1>4. ASSUME NEW s \in ServiceIDs, s \in InHand', services'[s].state = "live", s \in abandoned'
      PROVE  FALSE
  <2>1. CASE ReportError
    <3>1. w'.sids = NoServiceIDs
      BY <2>1, EndFields, IdleFields
    <3> QED
      BY <1>4, <3>1 DEF InHand, NoServiceIDs
  <2>2. CASE Exists(s) /\ s \in abandoned
    <3>1. s \notin InHand
      BY <2>2 DEF CleanInv, Kept
    <3>2. s \notin FreshServices
      BY <2>2 DEF FreshServices, Exists
    <3>3. w.pc # "idle" /\ \E b \in Backends : s = w.obj.svcIDs[b]
      BY <1>1, <1>4, <3>1, <3>2, HeldFrom
    <3>4. PICK b \in Backends : s = w.obj.svcIDs[b]
      BY <3>3
    <3>5. w.route \in Routes /\ s = hr[w.route].svcIDs[b]
      BY <1>1, <2>2, <3>3, <3>4, InPass DEF CleanInv, StillRecorded
    <3> QED
      BY <2>2, <3>5 DEF CleanInv, Kept
  <2> QED
    BY <1>2, <1>4, <2>1, <2>2
<1> QED
  BY <1>3, <1>4 DEF Kept, Exists

\* The first state.
LEMMA CleanInit == Init => CleanInv
<1> SUFFICES ASSUME Init PROVE CleanInv
  OBVIOUS
<1>1. /\ LedgerInv /\ w = Idle /\ abandoned = {}
      /\ \A s \in ServiceIDs : services[s].state = "unborn"
  BY LedgerInit DEF Init, CloudInit
<1>2. w.pc = "idle"
  BY <1>1 DEF Idle
<1>3. \A s : ~Exists(s)
  BY <1>1 DEF Exists
<1>4. GatewaysStay
  BY DEF Init, World!Init, GatewaysStay
<1> QED
  BY <1>1, <1>2, <1>3, <1>4 DEF CleanInv, StillRecorded, Kept, WithoutClient, ItemPCs

\* Every step keeps it, in a steady world.
LEMMA CleanInvKept == SteadyWorld /\ CleanInv /\ [Next]_vars => CleanInv'
<1> SUFFICES ASSUME SteadyWorld, CleanInv, [Next]_vars PROVE CleanInv'
  OBVIOUS
<1>1. LedgerInv /\ StillRecorded /\ GatewaysStay /\ WithoutClient /\ TypeOK
  BY LedgerInvParts DEF CleanInv
<1>2. GatewaysStay' /\ UNCHANGED clientOK
  BY <1>1, WorldStays
<1> QED
  BY <1>1, <1>2, LedgerInvKept, StillRecordedKept, KeptKept, WithoutClientKept DEF CleanInv

\* A route that is gone has left no service its annotations record.
LEMMA CleanInvImplies == CleanInv => FinalizerCleansUp
<1> SUFFICES ASSUME CleanInv, NEW r \in Routes, NEW b \in Backends, hr[r].phase = "gone",
                    Exists(hr[r].svcIDs[b])
             PROVE  FALSE
  BY DEF FinalizerCleansUp
<1>1. PICK s \in ServiceIDs : s = hr[r].svcIDs[b] /\ services[s].state = "live"
  BY DEF Exists
<1>2. OwnInv /\ Accounted
  BY LedgerInvParts DEF CleanInv
<1>3. services[s].owner[1] = r
  BY <1>1, <1>2, RecordedBorn, CloudAssumption
<1>4. s \notin abandoned
  BY <1>1 DEF CleanInv, Kept
<1> QED
  BY <1>1, <1>2, <1>3, <1>4 DEF Accounted

\* Where Gateways and the client stay and calls to the cloud do not fail, as in dry
\* run, the finalizer cleans up: a route that is gone has left none of the services
\* its annotations recorded, whatever conflicts, stale copies, failed writes and
\* restarts there were (:365-416).
THEOREM FinalizerKeepsItsPromise ==
  ASSUME SteadyWorld
  PROVE  Spec => []FinalizerCleansUp
<1>1. CleanInv /\ [Next]_vars => CleanInv'
  BY CleanInvKept
<1> QED
  BY <1>1, CleanInit, CleanInvImplies, PTL DEF Spec
=============================================================================
