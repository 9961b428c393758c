# Verification of sakura-gateway-api-ctl

The program is a Kubernetes controller that maps Gateway API objects to the
Sakura Cloud API Gateway.  This directory holds TLA+ modules of its control
logic, TLC configurations that check them on small instances, and proofs that
TLAPS checks.  `PROJECT.json` lists components, runs, mutants, the map from
definitions to source lines, findings, hazards and theorems.

    tlc -workers 2 -config faults.cfg MCHTTPRoute     # any run of PROJECT.json
    tlapm HTTPRouteReconciler_proofs.tla              # the proofs of a module

## The system

| Component | State | Operations | Source |
|---|---|---|---|
| SakuraGatewayConfig controller | `status.subscriptionID`, condition Accepted with its generation | early return, credentials, verify / look up / create a subscription, status | `sakuragatewayconfig_controller.go` |
| GatewayClass controller | condition Accepted | validate `parametersRef`, accept or refuse | `gatewayclass_controller.go` |
| Gateway controller | finalizer, subscription annotation, verification Secret, conditions | resolve the config, annotate, create the Secret, status, deletion | `gateway_controller.go` |
| HTTPRoute controller | finalizer, annotations with the identifiers of Sakura services (per backend) and routes (per backend and rule), conditions per parent | `Reconcile`, `reconcileParent`, `ensureSakuraService`, `ensureSakuraRoute`, transforms, `reconcileDelete` | `httproute_controller.go` |
| NodePort manager | one NodePort Service per backend name | ensure, delete, address of the first Ready node | `nodeport.go` |
| Sakura API | subscriptions, services, routes, transforms | create, get, update, delete; 404, 409 | external; `client.go` shows its use |
| Mock client (dry run) | Go maps of all of these and of users, groups, OIDC, domains, certificates | the methods of `Client`, each under one mutex | `internal/sakura/mock.go` |
| Sakura HTTP client | calls under way | send, classify the status, decode the answer, time out | `internal/sakura/client.go` and the files with its methods |
| SakuraAuthPolicy controller | condition Accepted | a stub: sets it to True at the object's generation and writes the status | `sakuraauthpolicy_controller.go` |
| Manager start-up | none | flags, controllers, caches | `cmd/main.go`, `setup.go` |

The four controllers never call each other.  They share objects in the API
server, which each reads through an informer cache that lags behind and writes
under optimistic locking, and they wake each other by watch events:

    SakuraGatewayConfig --status--> GatewayClass --status--> Gateway
                                                                |
              annotation (subscription), verification Secret    v
    backend Service, Nodes (read, not watched) ----------> HTTPRoute --> Sakura API
                                                                |
                                 NodePort Services (owned, shared by backend name)

No event leads from an edited config to the Gateways, from a Node or a backend
Service to the routes, or from the cloud to anything.

What is hard, and what has to be right:

- *Half-done passes.* A pass creates services and routes in the cloud and
  records them in annotations once, at the end.  Whatever comes between (an
  error, a conflict, a lost answer, a crash) must not make a recorded
  identifier wrong, drop a recorded live service, or lose track of others.
- *Stale reads.* A pass starts from a cached object and holds it across many
  calls.  Optimistic locking has to stop it from undoing a newer write.
- *Shared resources.* Two routes may use one backend: they share its NodePort
  Service but not its Sakura service.
- *Deletion.* The finalizer must be removed in the end, after what the
  annotations record has been deleted, in any order of events.
- *Convergence.* Errors are retried after 10 s or with back-off; changes nobody
  watches wait for the 10 h resync.  In the end the cloud serves the spec.
- *Doubt.* A call to the cloud can fail with or without its effect; 404 and 409
  are the only errors that say which.  The controllers replace what is not found.
- *Money.* A subscription is paid for: the config controller must not lose one
  or replace a live one.

## The modules

| Module | Models | EXTENDS |
|---|---|---|
| `SakuraCloud` | services, routes, transforms; the effect and the refusals of every call the controllers make | - |
| `NodePortManager` | NodePort Services, their cache, backends and nodes | `SakuraCloud` |
| `HTTPRouteReconciler` | the HTTPRoute controller, call by call; informers, retries, resync, garbage collector, restarts; users, Gateways, nodes, the console | `NodePortManager` |
| `GatewayWorld` | what the HTTPRoute controller sees of Gateways, secrets and its way to a client: the interface between the two halves | - |
| `ServiceLedger` | abstract: which services are held, recorded, lost or ended, and when that may change | - |
| `HTTPRouteProperties` | its type invariant, safety, action and liveness properties, and the mapping to the ledger | `HTTPRouteReconciler` |
| `HTTPRouteReconciler_proofs` | theorem `TypeCorrect`, with the types of every action | `HTTPRouteProperties` |
| `HTTPRouteOwnership_proofs` | theorem `IdentifiersOwned` | `HTTPRouteReconciler_proofs` |
| `HTTPRouteVersions_proofs` | theorem `VersionsFaithful`; what each write does to an object | `HTTPRouteOwnership_proofs` |
| `HTTPRouteAccounting_proofs` | theorems `DeletionsAreOwn`, `RecordsReplacedWhenGone`, `ServicesAccounted`; the worker's steps field by field | `HTTPRouteVersions_proofs` |
| `HTTPRouteAccepted_proofs` | theorem `AcceptedIsBacked` | `HTTPRouteAccounting_proofs` |
| `HTTPRouteLedger_proofs` | theorems `LedgerIsKept` and `FinalizerKeepsItsPromise` | `HTTPRouteAccounting_proofs` |
| `MCHTTPRoute` | instances: sets of specs and parents | `HTTPRouteProperties` |
| `Provisioning` | the config, GatewayClass and Gateway controllers together | - |
| `ProvisioningProperties` | their properties | `Provisioning` |
| `Provisioning_proofs` | theorems `SubscriptionsKept`, `AcceptedNamesItsSubscription`, `ProvisioningTypesCorrect`, `WorldIsKept`, `AnnotationsLast` | `ProvisioningProperties` |
| `MCProvisioning` | instances | `ProvisioningProperties` |
| `MockClient` | the client of dry run, map by map, and its mapping to `SakuraCloud` | - |
| `HTTPClient` | the client of the real API: calls, answers, the network and the server | - |
| `SakuraClient` | the choice between the two at start | `MockClient`, `HTTPClient` |
| `SakuraClient_proofs` | theorems `MapsAgree`, `MockImplementsCloud`, `ClientTypesCorrect`, `HonestOutcomes`, `NotFoundLasts`, `CreationsAreNamed` | `SakuraClient` |
| `MCSakuraClient` | instances | `SakuraClient` |

`HTTPRouteReconciler` instantiates `GatewayWorld` and takes its environment's
steps from it; `ProvisioningProperties`, `HTTPRouteProperties` and `MockClient`
instantiate `GatewayWorld`, `ServiceLedger` and `SakuraCloud` with a refinement
mapping.

### How they correspond to the code

A pass of a reconciler is a record (`w`; `cfgW`, `classW`, `gwW`): `pc` names the
call it makes next and the other fields are the Go variables that live across
calls (`obj` is the decoded object, `sids` and `rids` the annotation maps, `host`
the NodePort result).  Each call to the API server or to Sakura is one action,
with everything the code does up to the next call, because the rest of the
world runs between two calls.  Reads that only use the informer cache are part
of the action they precede, except where two of them may disagree.

Each write has three outcomes: done; refused, with the code's own reaction to
the error; or failed, with or without its effect (a lost answer).  `Fresh` is
the API server's version check.  A write that changes nothing keeps the version
(`Bumped`) and produces no event, as in the API server; that matters, because
the controllers rely on their own writes to wake each other.  `Decoded` is what
controller-runtime does with the answer to Update: the server's status replaces
the conditions set in memory.

`hrCache`, `npCache` and the caches of `Provisioning` are the informers' copies.
`SyncRoute` and its like deliver one object's current state (events in between
may be skipped, as informers do) and queue its key.  The queue is a set: the
work queue de-duplicates.  A key that is being processed may be queued again but
is not taken by a second worker, since each controller has one.

`Restart` is a crash at any point followed by a start: memory and queues are
lost, caches are filled, every object is queued, and in dry run the mock's
resources are gone.

The cloud's identifiers come from finite sets.  `FreshServices = {}` stands for
the plan's quota (creation refused) and is also a bound of the instances.
`services[s].owner` stands for the name the service is created with.  State
`"removed"` marks a deletion made in the console or by the mock's end, so that
properties can tell it from the controllers' deletions.

Abstracted away: hostnames and methods of rules, the contents of header filters
and of the Secret, label and port names, plan names in the status, messages and
logging.  A rule's spec is the sequence of its backendRefs in processing order
(`Item`), so a rule with two backendRefs is two items with one index.  An item
that names no core Service (`service` is FALSE) is passed over by
`SkipBackendRef`: nothing is made for it, and the route is accepted like any
other (`httproute_controller.go:127-132`, `:71`), although the comment at `:32`
says that each backendRef has a Sakura service and route.  `ServiceRefs` are the
others, and `AcceptedIsBackedByRecords` speaks of these only; a
deletion goes over all items (`:401-407`), as the code does.

`Wakes` says which routes a Gateway's event wakes.  The code lists the routes of
the Gateway's own namespace and compares names only (`:525`, `:532`), so a route
in another namespace is not woken by its Gateway; the run `world` has such a
route (`WakesNone`), the others have routes that are.

Two simplifications that nothing sees: after an Update of the annotations that
failed the code keeps the new annotations in memory, the model does not, and
only the status is written then; and `HostChanged` always compares the port,
which the code skips for an answer without one (`:197`).

Two ghost variables record what no program variable holds: `abandoned`, services
whose identifier a pass dropped or failed to delete, and `dropped`, subscriptions
let go.  They only grow at the steps where the code loses the identifier, so
`Accounted` and `SubscriptionsAccounted` say that nothing is lost elsewhere.

### How the parts fit together

The two halves of the program, the provisioning controllers and the HTTPRoute
controller, meet in Gateways, secrets, class and config, which the second reads
in its informers' caches.  `GatewayWorld` says what it may see there: an
annotation that comes once and stays for the Gateway's life, a secret and a
client that come and go.  `HTTPRouteReconciler` is checked in every such world;
`KeepsWorld` (run `provisioning`, theorem `WorldIsKept`) shows that the caches of
`Provisioning`, seen through `SeenGateway`, never do anything else.  A restart of the process in
`Provisioning` fills the caches anew and is one `GatewayWorld` step per object
it had missed; the HTTPRoute model takes it as those steps, then its own
`Restart`.  That is why the runs of `KeepsWorld` leave restarts out, and why
`WorldIsKept` assumes there are none; `AnnotationsLast` holds with them.

Both halves meet the cloud through the `Client` interface.  `SakuraCloud` is
what the controllers' models assume of it.  In dry run that is not an
assumption: `ImplementsCloud` (run `api`, theorem `MockImplementsCloud`) shows that the mock's maps, under any
calls with any identifiers, do what `SakuraCloud` with `DryRun` says, where
deleted services and routes are kept by the ghost `past`.  The real API is
external; what the code itself contributes is the client, and `HTTPClient`
models every call as a request and an answer: 2xx, 404, 409, other refusals
(429), failures (500) with or without the effect, an answer cut short, a network
that loses a request or an answer, a server that is silent, and requests
executed after their caller gave up.  Only the outcome a method returns reaches
a controller.  `OutcomeIsHonest` is the ground for the three outcomes of a call
in `HTTPRouteReconciler` and `Provisioning` (answered, refused without effect,
failed with or without it), `NotFoundIsForGood` that for replacing what is not
found.

Assumed of the server: 404 only for what is not there (or a new route's
service), 409 for creations only, no redirects (net/http would follow a 302 with
a GET and take its 200 for the POST's), and a port in every answer that gives a
service.

The form of answers is not assumed to be one or the other.  The client decodes
subscriptions, services and routes nested and everything else flat;
`docs/sakura-apigw-api-spec.md:68-88` gives subscriptions flat, and `types.go:14`
says that single answers are nested.  `NestedKinds` are the kinds the server
nests: `Decoded` yields an empty identifier, and no error, where server and
client differ, and `CreatedIsNamed` says just when that is.  In the run `api` the
server nests routes and users and not subscriptions: one kind that fits and both
that do not.  (For users, and what else is decoded flat, a disagreement with
`types.go:14` has no effect yet: no controller calls them.)  `Provisioning` has
the same as `NestedAnswers`.  Where it is FALSE every subscription gets an empty
identifier; `flat_answer` shows what comes of it, and the other runs take TRUE.

### The ledger of services

`ServiceLedger` has no annotations, caches, versions or calls.  An account is
opened by a pass and held, recorded by one commit together with all the pass
holds, lost when the pass ends without it, and ended only by a pass for its own
route while that route is closing (or from outside).  A key has at most one
recorded account, and a route leaves only when nothing is held or recorded for
it.  `Standing` computes where a service stands from cloud, annotations and the
pass's memory; `KeepsLedger` says that every step of the controller, its
failures, crashes and the environment included, is a ledger step or none.  The
runs check it on small instances and `LedgerIsKept` proves it for all.

## Runs

| Run | Instance | What it shows |
|---|---|---|
| `faults` | one route that grows from one backend to two, with a backendRef to pass over between them; edit, delete, restart; 2 changes, 1 failure | `TypeOK`, `IdentifiersAreOwn`, `Accounted`, `AcceptedIsBackedByRecords`, `VersionsAreFaithful`, `KeepsLedger`, `NoLiveServiceForgotten` |
| `shared` | two routes on one backend, one deleted; two service identifiers, so the quota bites | `Accounted`, `KeepsLedger`, `DeletesOwnServicesOnly` |
| `dryrun` | the mock; a route that moves between backends, with two parents, which are two listeners of one Gateway; restart; caches as late as they like | `IdentifiersAreOwn`, `FinalizerCleansUp` |
| `world` | the deletion of the route, and one event: a failed call, a lost answer, a crash, or a change of spec, Gateway, secret, client, node, backend, console or another tool's Service; clashing paths; no event of the Gateway reaches the route; fair | `KeepsLedger`, `DeletionCompletes`, `Converges`, `TransformsConverge` |
| `subscription` | config, class, one Gateway; edit, restart; 1 change, 1 failure | `ProvisioningTypeOK`, `SubscriptionsAccounted`, `AcceptedNamesSubscription` |
| `provisioning` | two changes of config, class, Gateway, secret, credentials, subscription, or one failure in the Gateway controller; fair | `KeepsWorld`, `GatewayDeletionCompletes`, `ProvisioningConverges`, `ClassFollowsConfig` |
| `api` | dry run: 5 calls on 2 services and 2 routes, with identifiers of an earlier process; real API: 2 callers, 3 calls, 2 resources | `ClientTypeOK`, `ReadsAgree`, `OutcomeIsHonest`, `NotFoundIsForGood`, `CreatedIsNamed`, `ImplementsCloud` |

Five runs refute what a comment or document says; the trace TLC prints is the
scenario.

| Run | Statement refuted | Scenario |
|---|---|---|
| `duplicate_service` | one backendRef is one Sakura service (`crd-design.md:743`) | A pass starts before the cache has the annotations the last one saved, and creates a second service.  No failure is needed. |
| `swapped_paths` | the old route is deleted first (`httproute_controller.go:253`) | Two rules trade paths: both creations get 409, both reuse the route of their own name, and Accepted=True is reported for the wrong paths. |
| `shared_nodeport` | only what we own is deleted (`nodeport.go:139`) | Deleting one route deletes the NodePort Service that another owns.  The same statement fails for a Service of another tool that takes the name after the label was checked on the informer's copy, since the deletion goes by name (`nodeport.go:144`). |
| `flat_answer` | a subscription that was created is reused (`sakuragatewayconfig_controller.go:137`) | The API answers as `docs/sakura-apigw-api-spec.md:68-88` says: the identifier recorded is empty, and the next pass creates another subscription. |
| `second_subscription` | a subscription is created when the recorded one was deleted (`sakuragatewayconfig_controller.go:147`) | A look-up that fails for any reason leads to a new subscription. |

`FinalizerCleansUp` holds in `dryrun`, where Gateways stay.  A route deleted after
its Gateway finds no client, removes its finalizer and leaves its services
(`httproute_controller.go:396`); in the ledger that is `Disown`, the one step by
which recorded accounts are lost without a failure.  `FinalizerKeepsItsPromise`
states in which worlds the finalizer does clean up.

### Bounds, and why they are enough

- One route suffices where routes do not interact: they meet in the NodePort
  Services and the cloud's identifiers only, which `shared` has.
- Two backends and two rule indices tell keys apart and drive both loops to
  their last item and past it.  `GrowingSpecs` grows from one item to three,
  the middle one of which is passed over.  Three service identifiers (two in
  `shared` and `dryrun`, where creation is soon refused) leave room for a
  recreated and a lost one.
- `MaxFaults` is 1: a failure at any of some twenty calls, with or without
  effect, or a crash.  `MaxMoves` is 1 or 2.
- `EditThenDelete` (`faults`, `dryrun`) lets a route be edited once and deleted,
  with the failure or crash anywhere among them; a route starts with any spec, so
  one edit adds or removes what a spec names.
- `FewEvents` (`ACTION_CONSTRAINT`) bounds the two liveness runs: in
  `world` the deletion of the route and one event of any kind, in any order; in
  `provisioning` two changes, or one failure where a lost error hurts, in the
  Gateway controller (which logs the failure to create a secret) with a config
  whose subscription is named.  Every disjunct of `Next` still fires.  Another
  tool's Service comes or the NodePort Service is removed in `world`; that a
  Service comes and goes again would be two events.
- `MaxCalls` is 3: a creation by one caller, a deletion by the other and a look-up
  that races it.  `MaxMockCalls` is 5: two services with a route each, then any
  call on them.  `Kinds` has sections decoded
  nested and flat, with the server's form the same and the other one.
- `CalmMoves` (`provisioning` only) lets the environment move when no worker is
  in a pass; `subscription` checks safety without it.
- `PromptCache`: TRUE in runs that check liveness, and in `faults` and `shared`
  for size.  It delays the end of a retry's wait and the resync until the caches
  have caught up: 10 s and 10 h are longer than an informer's lag.  It does not
  stop a pass from starting with a stale copy, since a route may be queued by
  another event.  With unbounded lag a retry could go on for ever from an old
  copy.  `dryrun` and the violations run with FALSE.
- Deadlock is not checked: when the environment has used its moves and every
  controller is at rest, the system really stops.

### Fairness

Weak fairness of a worker's steps: once a pass makes calls, Go runs it on, and no
call lasts longer than the 30 s of the client's timeout (`client.go:98`), which
ends it as a failed one (`GiveUp`).  `HTTPClient` itself has no fairness: that a
call ends would only restate that the timeout fires.
Weak fairness of informers, of the garbage collector and of the Gateway's
becoming ready.  Strong fairness of taking a key off a queue (the queue is
first-in first-out, and a set cannot say so), of the end of a retry's delay and
of the resync (whose guards come and go with the caches).  Failures and users
owe nothing and are bounded instead.  The liveness properties speak of routes
whose world is healthy from some time on (`Healthy`, `CanProvision`).

### Mutants

Each property of a passing run has a mutant in `PROJECT.json`: a plausible slip
in one mapped definition (a dropped index, a clean-up driven by the spec, an
error taken for 404, a missing finalizer removal) that makes the same run fail.

## Proofs

The theorems hold for all routes, backends, Gateways, specs, parents,
subscriptions, callers and identifiers, and without bounds: faults, moves and
calls are limited by `MaxFaults`, `MaxMoves` and the like, which are any
naturals.  The assumptions are those of the modules (`CloudAssumption`,
`NodePortAssumption`, `ReconcilerAssumption`, `ProvisioningAssumption`,
`MockAssumption`, `HTTPAssumption`), which TLC evaluates on every instance.  Three
theorems state further hypotheses, named below.

### The HTTPRoute controller

The modules of proofs extend each other, and so do the inductive invariants:

    TypeInv - OwnInv ---- MapInv - DoomInv - AccountInv - LedgerInv - CleanInv
          \              /      \
           VerInv - LifeInv      AcceptInv

**`TypeCorrect == Spec => []TypeOK`.**  Besides the types of all variables,
`TypeOK` says that a pass never reads past its route's parents or backendRefs.
It is not inductive: a deletion goes on from its services to the NodePort
Service of the spec's first backendRef, which is one only if the pass is still
at item 1.  The inductive invariant is `TypeInv == TypeOK /\ AtFirstItem`.
There is one lemma per action.

**`IdentifiersOwned == Spec => []IdentifiersAreOwn`.**  Each identifier in a
route's annotations, in the informer's copy of them or in a pass's maps names a
service created for that route and backend, or a Sakura route created for that
rule on such a service.  Half-done passes, lost answers, conflicts, stale caches
and crashes are all among the steps.  The argument has two halves.
`CloudStep`: no step changes the name of a service the cloud has given out, or
the name and service of a route (`Stable`), so a record that is right stays
right (`OwnStable`).  `ObjectStep`, `CacheStep` and `WorkerOwnKept`: a record is
copied from another record of the same route, or filled under its own key with
what was just made or was found by name on the backend's own service.  The
inductive invariant `OwnInv` adds to the property the types, the annotations of
the object a pass has read, and `Linked`: a Sakura route has a service, which
was created, from its creation on.

**`VersionsFaithful == Spec => []VersionsAreFaithful`.**  A copy that has the
server's version is the server's object, however far the informers lag.
`ServerStep` says what a step may do to an object on the server: nothing, or a
change that raises its version.  `ObjStep` says that a pass changes only the
conditions of its copy until an answer replaces it.  `VerInv` compares whole
objects where the property compares some fields (`CacheFaithful`,
`PassFaithful`), and adds `NewIsBlank`, without which the first version of an
object would not tell it from the copy before its creation.

**`DeletionsAreOwn`, `RecordsReplacedWhenGone`, `ServicesAccounted`** (the
properties `DeletesOwnServicesOnly`, `NoLiveServiceForgotten`, `Accounted`).  The
chain of invariants is what a reviewer of the controller has to believe:

- `Life`, `PassLife`: a mark of deletion, once seen, is there for good; a pass
  that programs the cloud works for a route that is live and cannot go, because
  it has the finalizer; one that cleans up works for a route being deleted.
- `Maps`: the map of a pass differs from the annotations it read only where the
  recorded service is gone (`GetService` said 404).  With optimistic locking that
  is why a save never drops the record of a live service.
- `Doom`: what a deletion still has to delete is part of what its object
  records, and the rest has ended or was given up.  So a finalizer that is
  removed from the server's version leaves nothing recorded behind.
- `Owned`, `Accounted`: the account itself.  `RecordedStays` and `HeldStays` say
  what becomes of a service in one step; `NewbornHeld` where a new one begins.

**`AcceptedIsBacked == Spec => []AcceptedIsBackedByRecords`.**  It speaks of the
backendRefs to core Services (`ServiceRefs`); for the others the code accepts
without a record.  `AcceptInv` adds `ItemProgress`
(behind the loop's index every such backendRef has a service and a route in the
pass's maps) and `Sane`, of the server's objects, the cached ones
and the pass's (`ObjectsSane`, `PassSane`): no condition is ahead of the object's
generation, and a True condition at it is backed.  The first half is needed
because an edit must not turn an old True into one at the new generation.

**`LedgerIsKept == Spec => KeepsLedger`.**  The refinement: `LedgerStarts` maps the
initial state, `LedgerStep` every step, with one lemma per kind of step that the
ledger can see (`LedgerCreate`, `LedgerSave`, `LedgerDeleteServices`,
`LedgerRemoveFinalizer`, `LedgerStatus`, `LedgerRestart`, ...).  `LedgerInv` adds
to the accounts `IdleIsBlank`, `GivenUpBorn` and `Frozen`: the cached records of a
route that is seen to be deleted are the server's, since a save by a pass that
has not seen the mark is refused.  Without `Frozen` a deletion from an older copy
could give up what it does not know to be recorded.

**`FinalizerKeepsItsPromise`**: assuming `SteadyWorld`, `Spec => []FinalizerCleansUp`.
`SteadyWorld` says that Gateways are not deleted, the client does not come and go
and calls to the cloud do not fail (dry run, or no faults); the run `dryrun` is an
instance.  Without it the property is false, as said under the runs.  Writes to the
API server may still fail or lose their answers (in dry run), caches lag and the
process restart.  `CleanInv` adds `StillRecorded`, which needs no hypothesis (a
live service that some copy records is recorded on the server), and `Kept`: what
is recorded or held is not given up while it lives.  `SteadyLoss` shows that the
error path of a pass is the only step left that gives up a live service.

### The provisioning controllers

**`SubscriptionsKept`, `AcceptedNamesItsSubscription`** (`SubscriptionsAccounted`,
`AcceptedNamesSubscription`).  `ConfigInv` consists of the types; `ConfigPass` (what a
pass has established at each call: when it creates, the spec names no
subscription, and when it saves, it has one); `ConfigFaithful` (optimistic
locking); `RecordsBorn`; `Replaces` (a pass that would replace what the server
records has looked that up and missed it, or it is gone); and `ConditionsAtMost`.
`Replaces` is the heart: only with it does a save from the server's version lose
no subscription but by the look-up that failed, which `dropped` counts.
`SubscriptionsKept` holds for both forms of the API's answers: where they are
flat, nothing is ever recorded (`NamesNone`) and `dropped` counts each creation.
`AcceptedNamesItsSubscription` assumes `NestedAnswers` and is false without it.

**`ProvisioningTypesCorrect == Spec => []ProvisioningTypeOK`**, from `ProvisioningInv`,
which joins `ConfigInv`, `ClassTypes`, `GatewayInv` and `QueueTypes`.  A frame lemma
per controller (`ConfigFrame`, `ClassFrame`, `GatewayFrame`) says which of the many
actions touch its state at all.

**`WorldIsKept`**: assuming there are no restarts, `Spec => KeepsWorld`.  `GatewayFaithful`
says that a cached Gateway never shows an annotation or an end that the server
does not have; `WorldStep` concludes that every step is one of `GatewayWorld`.  The
hypothesis is needed: a restart fills several copies at once, which is several
steps there.  **`AnnotationsLast == Spec => [][SeenOnward]_vars`** holds with restarts:
what has been seen of a Gateway goes from pending to ready to gone and never
back.

### The clients

**`MapsAgree == Spec => []ReadsAgree`.**  The mock looks a service up in its map of
services for some methods and in that of routes for others.  The property is
inductive: a service enters and leaves both maps together, and a route is added
under an identifier no service lists (`newID`).

**`MockImplementsCloud == Spec => ImplementsCloud`.**  Every method of the mock is a
step of `SakuraCloud` in dry run or none.  `MockInv` adds to `ReadsAgree` the types
of the maps (`MapsShape`); that what was deleted is remembered by `past` and is in
no map (`PastShape`), without which an identifier could be taken for new twice;
and that settings are stored for identifiers given out only (`SettingsShape`), so
that a new route starts without transforms, as it does in `SakuraCloud`.
**`ClientTypesCorrect == Spec => []ClientTypeOK`** follows from it (with
`EntriesShape`) and from `HTTPInv`.

**`HonestOutcomes`, `NotFoundLasts` and `CreationsAreNamed`.**  For any number of
callers, calls and identifiers.  The first two follow from `HTTPInv`: the types, and
for each call what is known of it at its stage (`Told`): a request not answered had no effect, an
answer below 400 means exactly one, 404 and 409 none, and a thing answered 404 is
not live.  `NotFoundLasts` needs that identifiers are given out once: `EffectTypes` shows
that no effect, of a call or of a request given up, revives what is gone
(`Unborn` only shrinks), and `ToldKept` carries it to the other callers.
`CreationsAreNamed` (the property `CreatedIsNamed`) needs `MadeInv`: what a request
made is no longer unborn and, where the answer has the form that is decoded, is
what the call returns (`Made`); and no two calls made the same (`MadeApart`).

### What is left to TLC

- Liveness: `DeletionCompletes`, `Converges`, `TransformsConverge`,
  `GatewayDeletionCompletes`, `ProvisioningConverges`, `ClassFollowsConfig`.
  Fairness is out of the prover's reach.
- The five violations, which are counterexamples.

Every safety invariant and action property that a passing run checks is also
stated by a theorem; `FinalizerCleansUp`, `KeepsWorld` and
`AcceptedNamesSubscription` under the hypotheses above.

## Not modelled

- The SakuraAuthPolicy controller, a stub whose pass sets Accepted=True at the
  object's generation, writes the status and leaves an error to the retry.  It
  shares no state with the others and enforces nothing.
- The contents of requests and answers other than identifiers, the host and the
  path; flags, probes and leader election in `main.go`.
- In the controllers' models a lost call has its effect at once or never.  A
  request executed after its caller gave up is in `HTTPClient` only: that a late
  update is repaired by the next pass is not checked.
- The subscription of a service: it is given at creation and never updated, so
  that an edited config reaches the Gateways and not the services that exist.
- Two parents of different classes or accounts, whose passes would fight over
  one service's identifier.
- A second parent's conditions: the answer to each parent's Update is decoded into
  the object and overwrites the condition an earlier parent has just set in
  memory.  Once there is a status, the first of two parents keeps its old
  condition through every later pass.  `Converges` is checked with one parent.
- A backendRef that changes its port (the NodePort Service of its name is in the
  way for ever), and backend Services that change their selector after the
  NodePort Service was made: the code never leaves these states.

## Plan

1. Done: the cloud, NodePort manager and HTTPRoute controller, with safety,
   liveness and findings; the three provisioning controllers; the world between
   them; the ledger of services; the two clients.
2. Done: a theorem for every safety invariant, action property and refinement
   that a passing run checks.
3. Next: what follows from the ledger and from `GatewayWorld` for the abstract
   specifications themselves, so that a reader can trust them without the
   controllers; and the two steps of `DeletionCompletes` that are safety (what a
   pass that deletes may meet).
4. Open: requests executed late in the controllers' models; two parents.
