------------------------ MODULE HTTPRouteReconciler ------------------------
(***************************************************************************)
(* The HTTPRoute controller, internal/controller/httproute_controller.go.   *)
(*                                                                          *)
(* One worker takes routes off the work queue.  A pass starts from the      *)
(* informer's copy of the route, hrCache[r], which lags behind the API      *)
(* server's hr[r]; it keeps what it reads and creates in memory (the record *)
(* w) and writes to the server under optimistic locking.  Every call to the *)
(* API server or to the Sakura API is an action of its own, because the     *)
(* rest of the world moves between two calls: users edit and delete routes, *)
(* caches catch up, Gateways and nodes change, the process restarts.  A     *)
(* call can fail without an effect or have its effect and lose its answer.  *)
(***************************************************************************)
EXTENDS NodePortManager, Sequences

CONSTANTS
    Specs,         \* route specs: the backendRefs of all rules in processing order
    ParentRefs,    \* [Routes -> Seq(Gateways)]: spec.parentRefs
    Wakes,         \* routes in each Gateway's namespace with a parentRef of its name
    EnvKinds,      \* what the environment does in this run
    MaxFaults,     \* bound: failed calls and crashes
    MaxMoves,      \* bound: changes made by the environment
    PromptCache    \* TRUE: a retry's delay and the resync period outlast the
                   \* informers' lag; FALSE: they may lag for any time

\* One backendRef of one rule, with what the code takes from the rule for it. A
\* reference to something else than a core Service is passed over.
Item == [rule : RuleIdx, backend : Backends, service : BOOLEAN, path : Paths, port : Ports,
         req : Filters \union {None}, resp : Filters \union {None}]

ASSUME ReconcilerAssumption ==
    /\ Specs \subseteq Seq(Item)
    /\ ParentRefs \in [Routes -> Seq(Gateways) \ {<<>>}]
    /\ Wakes \in [Gateways -> SUBSET Routes]
    /\ MaxFaults \in Nat /\ MaxMoves \in Nat
    /\ PromptCache \in BOOLEAN

VARIABLES
    hr,         \* HTTPRoutes in the API server
    hrCache,    \* the informer's copy
    gw,         \* Gateways: "pending" has no subscription annotation yet
    secret,     \* whether a Gateway's verification secret exists
    clientOK,   \* GatewayClass, config and credentials resolve to a client
    w,          \* the worker: what a pass has in memory
    queue,      \* the work queue, de-duplicated
    delayed,    \* routes to be queued again after a delay
    faults,     \* failures so far
    moves,      \* environment changes so far
    abandoned   \* ghost: services whose identifier a pass dropped or failed to delete

worldVars == <<gw, secret, clientOK>>
World == INSTANCE GatewayWorld
vars == <<services, routes, np, npCache, backendSvc, nodeIP, hr, hrCache, gw, secret,
          clientOK, w, queue, delayed, faults, moves, abandoned>>

----------------------------------------------------------------------------
Condition == [acc : {"none", "True", "False"}, gen : Nat]
NoStatus == [g \in Gateways |-> [acc |-> "none", gen |-> 0]]
NoServiceIDs == [b \in Backends |-> None]
NoRouteIDs == [k \in Backends \X RuleIdx |-> None]

\* An HTTPRoute object: metadata, the two annotations, spec and status.
HTTPRoute == [phase : {"new", "live", "gone"}, deleting : BOOLEAN, finalizer : BOOLEAN,
              gen : Nat, rv : Nat, spec : Specs \union {<<>>},
              svcIDs : [Backends -> ServiceIDs \union {None}],
              rtIDs : [Backends \X RuleIdx -> RouteIDs \union {None}],
              status : [Gateways -> Condition]]

Uncreated == [phase |-> "new", deleting |-> FALSE, finalizer |-> FALSE, gen |-> 0, rv |-> 0,
              spec |-> <<>>, svcIDs |-> NoServiceIDs, rtIDs |-> NoRouteIDs, status |-> NoStatus]

\* Where a pass stands; the call it makes next.
ItemPCs == {"nodeport", "reread", "getService", "updateService", "createService",
            "createRoute", "listRoutes", "reqTransform", "respTransform"}
PCs == ItemPCs \union {"idle", "finalizer", "parent", "save", "status", "failed",
            "deleteRoutes", "deleteServices", "deleteNodePorts", "removeFinalizer"}

Worker == [pc : PCs, route : Routes \union {None}, obj : HTTPRoute,
           parent : Nat, item : Nat,
           sids : [Backends -> ServiceIDs \union {None}],
           rids : [Backends \X RuleIdx -> RouteIDs \union {None}],
           host : Upstream, header : Gateways \union {None},
           pairs : SUBSET (ServiceIDs \X RouteIDs), doomed : SUBSET ServiceIDs]

Idle == [pc |-> "idle", route |-> None, obj |-> Uncreated, parent |-> 1, item |-> 1,
         sids |-> NoServiceIDs, rids |-> NoRouteIDs, host |-> NoUpstream, header |-> None,
         pairs |-> {}, doomed |-> {}]

Init ==
    /\ CloudInit
    /\ NodePortInit
    /\ hr = [r \in Routes |-> Uncreated]
    /\ hrCache = hr
    /\ World!Init
    /\ w = Idle
    /\ queue = {}
    /\ delayed = {}
    /\ faults = 0
    /\ moves = 0
    /\ abandoned = {}

----------------------------------------------------------------------------
(* Calls, versions and conditions.                                          *)

Answered == UNCHANGED faults
Fault == faults < MaxFaults /\ faults' = faults + 1
\* Calls on the in-process mock neither fail nor lose their answer.
CloudFault == ~DryRun /\ Fault

\* Mutant: writes without a version (a patch).
MutantFresh(o) == hr[w.route].phase = "live"

\* The API server takes a write made from a copy of the current version only.
Fresh(o) == hr[w.route].phase = "live" /\ hr[w.route].rv = o.rv

\* A write that changes nothing keeps the version; the last finalizer of a
\* route being deleted takes the route with it.
Bumped(old, new) ==
    IF new = old THEN old
    ELSE [new EXCEPT !.rv = @ + 1,
                     !.phase = IF new.deleting /\ ~new.finalizer THEN "gone" ELSE @]

\* Update stores metadata and leaves the status subresource alone.
MetaPut(o) ==
    Bumped(hr[w.route], [hr[w.route] EXCEPT !.finalizer = o.finalizer,
                                            !.svcIDs = o.svcIDs, !.rtIDs = o.rtIDs])
StatusPut(o) == Bumped(hr[w.route], [hr[w.route] EXCEPT !.status = o.status])

Put(o) == hr' = [hr EXCEPT ![w.route] = o]

\* The answer to Update is decoded into the caller's object: the server's
\* status, once there is one, replaces the conditions set in memory.
Decoded(o, answer) ==
    [answer EXCEPT !.status = IF answer.status = NoStatus THEN o.status ELSE answer.status]

Parent == ParentRefs[w.route][w.parent]
WithCondition(o, acc) == [o EXCEPT !.status[Parent] = [acc |-> acc, gen |-> o.gen]]

\* The identifiers a pass holds, and those the server's annotations record.
InHand == {w.sids[b] : b \in Backends} \ {None}
Tracked(r) == IF hr[r].phase = "live" THEN {hr[r].svcIDs[b] : b \in Backends} \ {None} ELSE {}

\* Reconcile returns an error or RequeueAfter: the route comes back after a delay.
Requeue == w' = Idle /\ delayed' = delayed \union {w.route}

\* reconcileParent returns an error: Reconcile sets Accepted=False in memory.
Fail == w' = [w EXCEPT !.pc = "failed", !.obj = WithCondition(w.obj, "False")]

----------------------------------------------------------------------------
(* Reconcile: take a route off the queue and read it from the cache.         *)

\* getSakuraClientForDeletion: any parent Gateway left in the cache will do.
DeletionClient(o, r) ==
    clientOK /\ \E i \in DOMAIN ParentRefs[r] : gw[ParentRefs[r][i]] # "gone"

FirstNodePortStep(o) == IF o.spec = <<>> THEN "removeFinalizer" ELSE "deleteNodePorts"

\* Mutants: only what the current spec refers to is cleaned up; services are
\* looked up by the backend's name.
MutantServicesToDelete(o) == {o.svcIDs[o.spec[i].backend] : i \in DOMAIN o.spec} \ {None}
MutantByBackendName(o) == {s \in ServiceIDs : Exists(s) /\ o.svcIDs[services[s].owner[2]] # None}

ServicesToDelete(o) == {o.svcIDs[b] : b \in Backends} \ {None}

\* reconcileDelete collects what to delete from the annotations of its copy.
StartDelete(o, r) ==
    LET sids == ServicesToDelete(o)
        tids == {o.rtIDs[k] : k \in Backends \X RuleIdx} \ {None}
    IN  IF DeletionClient(o, r)
        THEN /\ w' = [Idle EXCEPT !.pc = "deleteRoutes", !.route = r, !.obj = o,
                                  !.pairs = sids \X tids, !.doomed = sids]
             /\ UNCHANGED abandoned
        ELSE /\ w' = [Idle EXCEPT !.pc = FirstNodePortStep(o), !.route = r, !.obj = o]
             /\ abandoned' = abandoned \union sids

\* Mutant: a newer version number is put on the cached object to avoid conflicts.
MutantRead(r) == [hrCache[r] EXCEPT !.rv = hr[r].rv]

Read(r) == hrCache[r]

Reconcile(r) ==
    /\ w.pc = "idle"
    /\ r \in queue
    /\ queue' = queue \ {r}
    /\ LET o == Read(r) IN
       \/ /\ o.phase # "live" \/ (o.deleting /\ ~o.finalizer)
          /\ UNCHANGED <<w, abandoned>>
       \/ /\ o.phase = "live" /\ o.deleting /\ o.finalizer
          /\ StartDelete(o, r)
       \/ /\ o.phase = "live" /\ ~o.deleting
          /\ w' = [Idle EXCEPT !.pc = IF o.finalizer THEN "parent" ELSE "finalizer",
                               !.route = r, !.obj = o]
          /\ UNCHANGED abandoned
    /\ UNCHANGED <<cloudVars, nodePortVars, hr, hrCache, worldVars, delayed, faults, moves>>

AddFinalizer ==
    /\ w.pc = "finalizer"
    /\ LET o == [w.obj EXCEPT !.finalizer = TRUE] IN
       \/ /\ Fresh(o) /\ Answered
          /\ Put(MetaPut(o))
          /\ w' = [w EXCEPT !.obj = Decoded(o, MetaPut(o)), !.pc = "parent"]
          /\ UNCHANGED delayed
       \/ /\ ~Fresh(o) /\ Answered
          /\ Requeue
          /\ UNCHANGED hr
       \/ /\ Fault
          /\ UNCHANGED hr \/ (Fresh(o) /\ Put(MetaPut(o)))
          /\ Requeue
    /\ UNCHANGED <<cloudVars, nodePortVars, hrCache, worldVars, queue, moves, abandoned>>

----------------------------------------------------------------------------
(* reconcileParent, up to the loop over the backendRefs.                     *)

\* The Gateway, its subscription annotation, its class, the client and the
\* secret are read from the caches; the annotation maps from the object.
ResolveParent ==
    /\ w.pc = "parent"
    /\ \/ /\ gw[Parent] = "ready" /\ clientOK
          /\ w' = [w EXCEPT !.pc = IF w.obj.spec = <<>> THEN "save" ELSE "nodeport",
                            !.item = 1, !.sids = w.obj.svcIDs, !.rids = w.obj.rtIDs,
                            !.header = IF secret[Parent] THEN Parent ELSE None]
       \/ /\ gw[Parent] # "ready" \/ ~clientOK
          /\ Fail
    /\ UNCHANGED <<cloudVars, nodePortVars, hr, hrCache, worldVars, queue, delayed, faults, moves, abandoned>>

CurrentItem == w.obj.spec[w.item]
\* The backendRefs of a spec that the loop does not pass over.
ServiceRefs(spec) == {i \in DOMAIN spec : spec[i].service}
ServiceKey == CurrentItem.backend
\* Mutant: the key of a route forgets the rule's index.
MutantRuleKey == <<CurrentItem.backend, 0>>
RuleKey == <<CurrentItem.backend, CurrentItem.rule>>
CurrentService == w.sids[ServiceKey]

\* Mutant: the loop runs one backendRef too far.
MutantOverruns == [w EXCEPT !.pc = IF w.item <= Len(w.obj.spec) THEN "nodeport" ELSE "save",
                            !.item = IF w.item <= Len(w.obj.spec) THEN @ + 1 ELSE @]

\* The loop goes on with the next backendRef, or leaves to save the annotations.
NextItem == [w EXCEPT !.pc = IF w.item < Len(w.obj.spec) THEN "nodeport" ELSE "save",
                      !.item = IF w.item < Len(w.obj.spec) THEN @ + 1 ELSE @]

\* A backendRef of another group or kind: nothing is made for it (:127-132).
SkipBackendRef ==
    /\ w.pc = "nodeport" /\ ~CurrentItem.service
    /\ w' = NextItem
    /\ UNCHANGED <<cloudVars, nodePortVars, hr, hrCache, worldVars, queue, delayed, faults, moves, abandoned>>

\* EnsureNodePortService returned: ensureSakuraService looks up or creates.
WithHost(port) ==
    [w EXCEPT !.host = [ip |-> nodeIP, port |-> port],
              !.pc = IF CurrentService = None THEN "createService" ELSE "getService"]

EnsureNodePort ==
    LET b == ServiceKey
        port == CurrentItem.port
    IN
    /\ w.pc = "nodeport" /\ CurrentItem.service
    /\ \/ /\ backendSvc[b] = None \/ (HasNodePort(b, port) /\ nodeIP = None)
          /\ Fail /\ Answered
          /\ UNCHANGED nodePortVars
       \/ /\ backendSvc[b] # None /\ HasNodePort(b, port) /\ nodeIP # None
          /\ w' = WithHost(npCache[b].nodePort)
          /\ Answered
          /\ UNCHANGED nodePortVars
       \/ /\ backendSvc[b] # None /\ ~HasNodePort(b, port)
          /\ \/ CreateNodePort(b, w.route, port) /\ w' = [w EXCEPT !.pc = "reread"] /\ Answered
             \/ ~CanCreateNodePort(b) /\ Fail /\ Answered /\ UNCHANGED nodePortVars
             \/ CreateNodePort(b, w.route, port) /\ Fail /\ Fault
             \/ Fail /\ Fault /\ UNCHANGED nodePortVars
    /\ UNCHANGED <<cloudVars, hr, hrCache, worldVars, queue, delayed, moves, abandoned>>

\* The re-read goes to the cache, which may not have the new Service yet.
RereadNodePort ==
    /\ w.pc = "reread"
    /\ \/ /\ npCache[ServiceKey].exists /\ nodeIP # None
          /\ w' = WithHost(CachedNodePort(ServiceKey, CurrentItem.port))
       \/ /\ ~npCache[ServiceKey].exists \/ nodeIP = None
          /\ Fail
    /\ UNCHANGED <<cloudVars, nodePortVars, hr, hrCache, worldVars, queue, delayed, faults, moves, abandoned>>

----------------------------------------------------------------------------
(* ensureSakuraService                                                       *)

\* Mutants: every error counts as "deleted externally"; a changed host is not noticed.
MutantLookupFails == w' = [w EXCEPT !.pc = "createService"]
MutantHostChanged == FALSE

LookupFails == Fail
\* Services are made with a port (:220); an answer without one would be compared
\* by its host alone (:197).
HostChanged == services[CurrentService].host # w.host

GetServiceCall ==
    /\ w.pc = "getService"
    /\ \/ /\ Exists(CurrentService) /\ Answered
          /\ w' = [w EXCEPT !.pc = IF HostChanged THEN "updateService" ELSE "createRoute"]
       \/ /\ ~Exists(CurrentService) /\ Answered
          /\ w' = [w EXCEPT !.pc = "createService"]
       \/ CloudFault /\ LookupFails
    /\ UNCHANGED <<cloudVars, nodePortVars, hr, hrCache, worldVars, queue, delayed, moves, abandoned>>

UpdateServiceCall ==
    /\ w.pc = "updateService"
    /\ \/ /\ UpdateService(CurrentService, w.host) /\ Answered
          /\ w' = [w EXCEPT !.pc = "createRoute"]
       \/ ~Exists(CurrentService) /\ Answered /\ Fail /\ UNCHANGED cloudVars
       \/ CloudFault /\ Fail /\ (UNCHANGED cloudVars \/ UpdateService(CurrentService, w.host))
    /\ UNCHANGED <<nodePortVars, hr, hrCache, worldVars, queue, delayed, moves, abandoned>>

\* Without a fresh identifier (the plan's quota, and the bound of a run) the call is refused.
CreateServiceCall ==
    /\ w.pc = "createService"
    /\ LET s == CHOOSE x \in FreshServices : TRUE IN
       \/ /\ FreshServices # {} /\ Answered
          /\ CreateService(s, <<w.route, ServiceKey>>, w.host)
          /\ w' = [w EXCEPT !.sids[ServiceKey] = s, !.pc = "createRoute"]
          /\ UNCHANGED abandoned
       \/ /\ FreshServices = {} /\ Answered
          /\ Fail
          /\ UNCHANGED <<cloudVars, abandoned>>
       \/ /\ CloudFault /\ Fail
          /\ \/ UNCHANGED <<cloudVars, abandoned>>
             \/ /\ FreshServices # {}
                /\ CreateService(s, <<w.route, ServiceKey>>, w.host)
                /\ abandoned' = abandoned \union {s}
    /\ UNCHANGED <<nodePortVars, hr, hrCache, worldVars, queue, delayed, moves>>

----------------------------------------------------------------------------
(* ensureSakuraRoute and the transforms                                      *)

RouteName == <<w.route, CurrentItem.rule>>

\* Mutant: the transforms of a route that exists already are not set again.
MutantGotRoute(t) ==
    w' = IF routes[t].state = "live" THEN [NextItem EXCEPT !.rids[RuleKey] = t]
         ELSE [w EXCEPT !.rids[RuleKey] = t, !.pc = "reqTransform"]

GotRoute(t) == w' = [w EXCEPT !.rids[RuleKey] = t, !.pc = "reqTransform"]

\* Mutant: a 409 is an error like any other.
MutantOnConflict == Fail

OnConflict == w' = [w EXCEPT !.pc = "listRoutes"]

CreateRouteCall ==
    /\ w.pc = "createRoute"
    /\ LET s == CurrentService
           t == CHOOSE x \in FreshRoutes : TRUE
           path == CurrentItem.path
       IN
       \/ /\ FreshRoutes # {} /\ Answered
          /\ CreateRoute(t, s, RouteName, path)
          /\ GotRoute(t)
       \/ /\ Exists(s) /\ Conflict(s, path) /\ Answered
          /\ OnConflict
          /\ UNCHANGED cloudVars
       \/ /\ ~Exists(s) \/ (~Conflict(s, path) /\ FreshRoutes = {})
          /\ Fail /\ Answered
          /\ UNCHANGED cloudVars
       \/ /\ CloudFault /\ Fail
          /\ \/ UNCHANGED cloudVars
             \/ FreshRoutes # {} /\ CreateRoute(t, s, RouteName, path)
    /\ UNCHANGED <<nodePortVars, hr, hrCache, worldVars, queue, delayed, moves, abandoned>>

\* After a 409 the first route of that name is reused, whatever its path.
ListRoutesCall ==
    /\ w.pc = "listRoutes"
    /\ LET named == {t \in RoutesOn(CurrentService) : routes[t].name = RouteName} IN
       \/ Answered /\ \E t \in named : GotRoute(t)
       \/ named = {} /\ Answered /\ Fail
       \/ CloudFault /\ Fail
    /\ UNCHANGED <<cloudVars, nodePortVars, hr, hrCache, worldVars, queue, delayed, moves, abandoned>>

\* A failure is logged and the pass goes on.
SetRequestTransformCall ==
    /\ w.pc = "reqTransform"
    /\ LET transform == [header |-> w.header, filter |-> CurrentItem.req] IN
       \/ Answered /\ SetRequestTransform(CurrentService, w.rids[RuleKey], transform)
       \/ CloudFault /\ (UNCHANGED cloudVars
                          \/ SetRequestTransform(CurrentService, w.rids[RuleKey], transform))
    /\ w' = IF CurrentItem.resp = None THEN NextItem ELSE [w EXCEPT !.pc = "respTransform"]
    /\ UNCHANGED <<nodePortVars, hr, hrCache, worldVars, queue, delayed, moves, abandoned>>

\* Called for a rule that has a response filter only.
SetResponseTransformCall ==
    /\ w.pc = "respTransform"
    /\ \/ Answered /\ SetResponseTransform(CurrentService, w.rids[RuleKey], CurrentItem.resp)
       \/ CloudFault /\ (UNCHANGED cloudVars
                          \/ SetResponseTransform(CurrentService, w.rids[RuleKey], CurrentItem.resp))
    /\ w' = NextItem
    /\ UNCHANGED <<nodePortVars, hr, hrCache, worldVars, queue, delayed, moves, abandoned>>

----------------------------------------------------------------------------
(* The end of a pass                                                         *)

LastParent == w.parent = Len(ParentRefs[w.route])

\* When Update fails, the Go object keeps the unsaved annotations in memory
\* (:175-177); only a status write follows, which does not store them.
SaveAnnotations ==
    /\ w.pc = "save"
    /\ LET o == [w.obj EXCEPT !.svcIDs = w.sids, !.rtIDs = w.rids] IN
       \/ /\ Fresh(o) /\ Answered
          /\ Put(MetaPut(o))
          /\ w' = [w EXCEPT !.obj = WithCondition(Decoded(o, MetaPut(o)), "True"),
                            !.pc = IF LastParent THEN "status" ELSE "parent",
                            !.parent = IF LastParent THEN @ ELSE @ + 1]
       \/ ~Fresh(o) /\ Answered /\ Fail /\ UNCHANGED hr
       \/ Fault /\ Fail /\ (UNCHANGED hr \/ (Fresh(o) /\ Put(MetaPut(o))))
    /\ UNCHANGED <<cloudVars, nodePortVars, hrCache, worldVars, queue, delayed, moves, abandoned>>

WriteStatus ==
    /\ w.pc = "status"
    /\ \/ /\ Fresh(w.obj) /\ Answered
          /\ Put(StatusPut(w.obj))
          /\ w' = Idle
          /\ UNCHANGED delayed
       \/ ~Fresh(w.obj) /\ Answered /\ Requeue /\ UNCHANGED hr
       \/ Fault /\ Requeue /\ (UNCHANGED hr \/ (Fresh(w.obj) /\ Put(StatusPut(w.obj))))
    /\ UNCHANGED <<cloudVars, nodePortVars, hrCache, worldVars, queue, moves, abandoned>>

\* The result of this status update is ignored, and what the pass created and
\* did not save is forgotten.
ReportError ==
    /\ w.pc = "failed"
    /\ \/ Fresh(w.obj) /\ Answered /\ Put(StatusPut(w.obj))
       \/ ~Fresh(w.obj) /\ Answered /\ UNCHANGED hr
       \/ Fault /\ UNCHANGED hr
    /\ Requeue
    /\ abandoned' = abandoned \union (InHand \ Tracked(w.route))
    /\ UNCHANGED <<cloudVars, nodePortVars, hrCache, worldVars, queue, moves>>

----------------------------------------------------------------------------
(* reconcileDelete: failed deletions are logged, and the finalizer goes.      *)

DeleteRoutes ==
    /\ w.pc = "deleteRoutes"
    /\ \/ \E p \in w.pairs :
             /\ w' = [w EXCEPT !.pairs = @ \ {p}]
             /\ \/ Answered /\ DeleteRoute(p[1], p[2])
                \/ CloudFault /\ (UNCHANGED cloudVars \/ DeleteRoute(p[1], p[2]))
       \/ /\ w.pairs = {}
          /\ w' = [w EXCEPT !.pc = "deleteServices"]
          /\ Answered /\ UNCHANGED cloudVars
    /\ UNCHANGED <<nodePortVars, hr, hrCache, worldVars, queue, delayed, moves, abandoned>>

DeleteServices ==
    /\ w.pc = "deleteServices"
    /\ \/ \E s \in w.doomed :
             /\ w' = [w EXCEPT !.doomed = @ \ {s}]
             /\ \/ Answered /\ DeleteService(s) /\ UNCHANGED abandoned
                \/ /\ CloudFault
                   /\ UNCHANGED cloudVars \/ DeleteService(s)
                   /\ abandoned' = abandoned \union {s}
       \/ /\ w.doomed = {}
          /\ w' = [w EXCEPT !.pc = FirstNodePortStep(w.obj)]
          /\ Answered /\ UNCHANGED <<cloudVars, abandoned>>
    /\ UNCHANGED <<nodePortVars, hr, hrCache, worldVars, queue, delayed, moves>>

\* Goes over all backendRefs, those the loop above passes over included (:401-407).
DeleteNodePorts ==
    /\ w.pc = "deleteNodePorts"
    /\ \/ WantsNodePortDelete(ServiceKey) /\ DeleteNodePort(ServiceKey) /\ Answered
       \/ ~WantsNodePortDelete(ServiceKey) /\ Answered /\ UNCHANGED nodePortVars
       \/ /\ WantsNodePortDelete(ServiceKey) /\ Fault
          /\ UNCHANGED nodePortVars \/ DeleteNodePort(ServiceKey)
    /\ w' = IF w.item < Len(w.obj.spec) THEN [w EXCEPT !.item = @ + 1]
            ELSE [w EXCEPT !.pc = "removeFinalizer"]
    /\ UNCHANGED <<cloudVars, hr, hrCache, worldVars, queue, delayed, moves, abandoned>>

\* Mutant: the object is saved with the finalizer still on it.
MutantWithoutFinalizer(o) == o

WithoutFinalizer(o) == [o EXCEPT !.finalizer = FALSE]

RemoveFinalizer ==
    /\ w.pc = "removeFinalizer"
    /\ LET o == WithoutFinalizer(w.obj) IN
       \/ /\ Fresh(o) /\ Answered
          /\ Put(MetaPut(o))
          /\ w' = Idle
          /\ UNCHANGED delayed
       \/ ~Fresh(o) /\ Answered /\ Requeue /\ UNCHANGED hr
       \/ Fault /\ Requeue /\ (UNCHANGED hr \/ (Fresh(o) /\ Put(MetaPut(o))))
    /\ UNCHANGED <<cloudVars, nodePortVars, hrCache, worldVars, queue, moves, abandoned>>

WorkerStep ==
    \/ AddFinalizer \/ ResolveParent \/ SkipBackendRef \/ EnsureNodePort \/ RereadNodePort
    \/ GetServiceCall \/ UpdateServiceCall \/ CreateServiceCall
    \/ CreateRouteCall \/ ListRoutesCall
    \/ SetRequestTransformCall \/ SetResponseTransformCall
    \/ SaveAnnotations \/ WriteStatus \/ ReportError
    \/ DeleteRoutes \/ DeleteServices \/ DeleteNodePorts \/ RemoveFinalizer

----------------------------------------------------------------------------
(* Informers, the garbage collector and the process                          *)

\* A watch event reaches the cache and the work queue.
SyncRoute(r) ==
    /\ hrCache[r] # hr[r]
    /\ hrCache' = [hrCache EXCEPT ![r] = hr[r]]
    /\ queue' = queue \union {r}
    /\ UNCHANGED <<cloudVars, nodePortVars, hr, worldVars, w, delayed, faults, moves, abandoned>>

Timely == PromptCache => hrCache = hr /\ npCache = np

\* The delay of a retry is over.
RetryDue(r) ==
    /\ r \in delayed
    /\ Timely
    /\ delayed' = delayed \ {r}
    /\ queue' = queue \union {r}
    /\ UNCHANGED <<cloudVars, nodePortVars, hr, hrCache, worldVars, w, faults, moves, abandoned>>

\* Owns(Service): events of a NodePort Service wake the route that owns it.
SyncNodePort(b) ==
    /\ npCache[b] # np[b]
    /\ npCache' = [npCache EXCEPT ![b] = np[b]]
    /\ queue' = queue \union ({np[b].owner, npCache[b].owner} \ {None})
    /\ UNCHANGED <<cloudVars, np, backendSvc, nodeIP, hr, hrCache, worldVars, w, delayed, faults, moves, abandoned>>

\* Kubernetes deletes a Service whose owner is gone.
GarbageCollect(b) ==
    /\ np[b].exists /\ np[b].owner # None
    /\ hr[np[b].owner].phase = "gone"
    /\ DeleteNodePort(b)
    /\ UNCHANGED <<cloudVars, hr, hrCache, worldVars, w, queue, delayed, faults, moves, abandoned>>

LiveRoutes == {r \in Routes : hr[r].phase = "live"}

\* The manager's periodic resync reconciles everything in the cache.
Resync ==
    /\ "resync" \in EnvKinds /\ Timely
    /\ queue' = queue \union {r \in Routes : hrCache[r].phase = "live"}
    /\ queue' # queue
    /\ UNCHANGED <<cloudVars, nodePortVars, hr, hrCache, worldVars, w, delayed, faults, moves, abandoned>>

\* The process stops anywhere and starts again: memory is lost, the caches are
\* filled and every route is queued.  The mock's resources lived in the process.
Restart ==
    /\ "restart" \in EnvKinds /\ Fault
    /\ w' = Idle
    /\ hrCache' = hr /\ npCache' = np
    /\ queue' = LiveRoutes /\ delayed' = {}
    /\ IF DryRun THEN EndServices(ServiceIDs, "removed") ELSE UNCHANGED cloudVars
    /\ abandoned' = abandoned \union (InHand \ (IF w.route = None THEN {} ELSE Tracked(w.route)))
    /\ UNCHANGED <<np, backendSvc, nodeIP, hr, worldVars, moves>>

----------------------------------------------------------------------------
(* The environment                                                           *)

Move(kind) == kind \in EnvKinds /\ moves < MaxMoves /\ moves' = moves + 1

UserCreates(r) ==
    /\ hr[r].phase = "new"
    /\ \E spec \in Specs :
          hr' = [hr EXCEPT ![r].phase = "live", ![r].gen = 1, ![r].rv = 1, ![r].spec = spec]
    /\ UNCHANGED <<cloudVars, nodePortVars, hrCache, worldVars, w, queue, delayed, faults, moves, abandoned>>

UserEdits(r) ==
    /\ Move("edit")
    /\ hr[r].phase = "live"
    /\ \E spec \in Specs \ {hr[r].spec} :
          hr' = [hr EXCEPT ![r].spec = spec, ![r].gen = @ + 1, ![r].rv = @ + 1]
    /\ UNCHANGED <<cloudVars, nodePortVars, hrCache, worldVars, w, queue, delayed, faults, abandoned>>

UserDeletes(r) ==
    /\ Move("delete")
    /\ hr[r].phase = "live" /\ ~hr[r].deleting
    /\ hr' = [hr EXCEPT ![r] = Bumped(hr[r], [hr[r] EXCEPT !.deleting = TRUE,
                                                          !.gen = hr[r].gen + 1])]
    /\ UNCHANGED <<cloudVars, nodePortVars, hrCache, worldVars, w, queue, delayed, faults, abandoned>>

\* findHTTPRoutesForGateway: a Gateway event wakes routes of its own namespace,
\* by the name in their parentRefs alone (:525, :532).
RoutesOf(g) == {r \in Wakes[g] : hrCache[r].phase = "live"}

\* The Gateway controller's annotation becomes visible.
GatewayReady(g) ==
    /\ World!Annotated(g)
    /\ queue' = queue \union RoutesOf(g)
    /\ UNCHANGED <<cloudVars, nodePortVars, hr, hrCache, w, delayed, faults, moves, abandoned>>

\* The Gateway controller creates the secret about when it annotates, a user may
\* delete it.  Whether the Gateway changes as well, and so wakes its routes,
\* depends on its status.
SecretChanges(g) ==
    /\ Move("secret")
    /\ World!SecretChanges(g)
    /\ queue' \in {queue, queue \union RoutesOf(g)}
    /\ UNCHANGED <<cloudVars, nodePortVars, hr, hrCache, w, delayed, faults, abandoned>>

GatewayDeleted(g) ==
    /\ Move("gateway")
    /\ World!Deleted(g)
    /\ queue' = queue \union RoutesOf(g)
    /\ UNCHANGED <<cloudVars, nodePortVars, hr, hrCache, w, delayed, faults, abandoned>>

\* GatewayClass, config or credentials come and go; the controller watches none of them.
ClientChanges ==
    /\ Move("client")
    /\ World!ClientChanges
    /\ UNCHANGED <<cloudVars, nodePortVars, hr, hrCache, w, queue, delayed, faults, abandoned>>

\* Nodes and backend Services are not watched either.
NodeChanges ==
    /\ Move("node")
    /\ nodeIP' \in (IPs \union {None}) \ {nodeIP}
    /\ UNCHANGED <<cloudVars, np, npCache, backendSvc, hr, hrCache, worldVars, w, queue, delayed, faults, abandoned>>

BackendChanges(b) ==
    /\ Move("backend")
    /\ \E sel \in (Selectors \union {None}) \ {backendSvc[b]} :
          backendSvc' = [backendSvc EXCEPT ![b] = sel]
    /\ UNCHANGED <<cloudVars, np, npCache, nodeIP, hr, hrCache, worldVars, w, queue, delayed, faults, abandoned>>

\* Another tool, or a user, has a Service of a NodePort Service's name.
OutsiderServes(b) ==
    /\ Move("foreign")
    /\ OutsiderTakes(b) \/ OutsiderRemoves(b)
    /\ UNCHANGED <<cloudVars, hr, hrCache, worldVars, w, queue, delayed, faults, abandoned>>

\* Somebody deletes a service in the Sakura console.
CloudRemoves(s) ==
    /\ Move("console")
    /\ Exists(s)
    /\ EndServices({s}, "removed")
    /\ UNCHANGED <<nodePortVars, hr, hrCache, worldVars, w, queue, delayed, faults, abandoned>>

Next ==
    \/ \E r \in Routes : Reconcile(r)
    \/ WorkerStep
    \/ \E r \in Routes : SyncRoute(r) \/ RetryDue(r)
    \/ \E b \in Backends : SyncNodePort(b) \/ GarbageCollect(b)
    \/ Resync
    \/ Restart
    \/ \E r \in Routes : UserCreates(r) \/ UserEdits(r) \/ UserDeletes(r)
    \/ \E g \in Gateways : GatewayReady(g) \/ SecretChanges(g) \/ GatewayDeleted(g)
    \/ ClientChanges
    \/ NodeChanges
    \/ \E b \in Backends : BackendChanges(b) \/ OutsiderServes(b)
    \/ \E s \in ServiceIDs : CloudRemoves(s)

Spec == Init /\ [][Next]_vars

\* The worker takes steps while it has some to take and serves the queue in
\* order (SF); informers and the garbage collector deliver; resync recurs.
Fairness ==
    /\ WF_vars(WorkerStep)
    /\ \A r \in Routes : SF_vars(Reconcile(r)) /\ WF_vars(SyncRoute(r))
                          /\ SF_vars(RetryDue(r))
    /\ \A b \in Backends : WF_vars(SyncNodePort(b)) /\ WF_vars(GarbageCollect(b))
    /\ \A g \in Gateways : WF_vars(GatewayReady(g))
    /\ SF_vars(Resync)

FairSpec == Spec /\ Fairness
=============================================================================
