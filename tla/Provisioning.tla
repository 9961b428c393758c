---------------------------- MODULE Provisioning ----------------------------
(***************************************************************************)
(* The three controllers that lead from a SakuraGatewayConfig to a usable   *)
(* Gateway: sakuragatewayconfig_controller.go resolves or creates the       *)
(* subscription, gatewayclass_controller.go accepts the class once its      *)
(* config is accepted, gateway_controller.go copies the subscription into   *)
(* an annotation and makes the verification secret.  There is one config    *)
(* and one class that refers to it (or to nothing); Gateways use the class. *)
(*                                                                          *)
(* Each controller has one worker, and the three run concurrently on        *)
(* informer caches.  They never call each other: a status written by one    *)
(* reaches the next as a watch event, if anything watches it.               *)
(***************************************************************************)
EXTENDS Naturals

CONSTANTS
    Gateways,        \* Gateway objects
    SubscriptionIDs, \* identifiers of subscriptions
    External,        \* those that exist before the controller runs
    ConfigSpecs,     \* specs a user gives the config
    ClassRefs,       \* subset of {"config", "none"}: what the class may refer to
    None,            \* the absent value, and the empty identifier
    NestedAnswers,   \* TRUE: the API nests a subscription as the client decodes it
                     \* (types.go:13-18); FALSE: it answers as in
                     \* docs/sakura-apigw-api-spec.md:68-88, and no identifier is found
    EnvKinds,        \* what the environment does in a run
    MaxFaults,       \* bound: failed calls and crashes
    MaxMoves,        \* bound: changes made by the environment
    CalmMoves        \* bound: TRUE lets it move only when the workers are at rest

\* spec.subscription: an id, or planId and name to create one ("named").
ConfigSpec == [id : SubscriptionIDs \union {None}, named : BOOLEAN, verify : BOOLEAN]

ASSUME ProvisioningAssumption ==
    /\ None \notin SubscriptionIDs \union Gateways
    /\ {"config", "class"} \intersect Gateways = {}
    /\ External \subseteq SubscriptionIDs
    /\ ConfigSpecs \subseteq ConfigSpec
    /\ ClassRefs \subseteq {"config", "none"}
    /\ MaxFaults \in Nat /\ MaxMoves \in Nat /\ CalmMoves \in BOOLEAN
    /\ NestedAnswers \in BOOLEAN

VARIABLES
    subs,        \* subscriptions in the cloud
    config, configCache,      \* SakuraGatewayConfig: API server and informer
    class, classCache,        \* GatewayClass
    gw, gwCache,              \* Gateways
    secret, secretCache,      \* which Gateways have their verification secret
    credentials, \* the credentials secret is complete
    cfgW, classW, gwW,        \* the workers
    queue,       \* keys waiting for their controller
    delayed,     \* keys to be queued again after a delay
    faults, moves,
    dropped      \* ghost: subscriptions created or recorded, then let go

servers == <<config, class, gw, secret>>
caches == <<configCache, classCache, gwCache, secretCache>>
workers == <<cfgW, classW, gwW>>
vars == <<subs, config, configCache, class, classCache, gw, gwCache, secret, secretCache,
          credentials, cfgW, classW, gwW, queue, delayed, faults, moves, dropped>>

Keys == {"config", "class"} \union Gateways
Acceptance == {"none", "True", "False"}

Config == [phase : {"new", "live", "gone"}, gen : Nat, rv : Nat,
           spec : ConfigSpec, sub : SubscriptionIDs \union {None},
           acc : Acceptance, accGen : Nat]
Class == [exists : BOOLEAN, ref : {"config", "none"}, rv : Nat, acc : Acceptance]
Gateway == [phase : {"new", "live", "gone"}, deleting : BOOLEAN, finalizer : BOOLEAN,
            rv : Nat, sub : SubscriptionIDs \union {None}, acc : Acceptance]

ConfigWorker == [pc : {"idle", "verify", "lookup", "create", "status", "failed"},
                 obj : Config, made : SubscriptionIDs \union {None}, missed : BOOLEAN]
ClassWorker == [pc : {"idle", "accept", "refuse"}, obj : Class]
GatewayWorker == [pc : {"idle", "finalizer", "resolve", "annotate", "secret", "status",
                        "reject", "removeFinalizer"},
                  g : Gateways \union {None}, obj : Gateway, ref : {"config", "none"},
                  sub : SubscriptionIDs \union {None}, verify : BOOLEAN]

NoConfig == [phase |-> "new", gen |-> 0, rv |-> 0, sub |-> None, acc |-> "none", accGen |-> 0,
             spec |-> [id |-> None, named |-> FALSE, verify |-> FALSE]]
NoGateway == [phase |-> "new", deleting |-> FALSE, finalizer |-> FALSE, rv |-> 0,
              sub |-> None, acc |-> "none"]
NoClass == [exists |-> FALSE, ref |-> "none", rv |-> 0, acc |-> "none"]

IdleConfig == [pc |-> "idle", obj |-> NoConfig, made |-> None, missed |-> FALSE]
IdleClass == [pc |-> "idle", obj |-> NoClass]
IdleGateway == [pc |-> "idle", g |-> None, obj |-> NoGateway, ref |-> "none", sub |-> None,
                verify |-> FALSE]

\* The user has created everything; the informers tell the controllers in any order.
Init ==
    /\ subs = [s \in SubscriptionIDs |-> IF s \in External THEN "live" ELSE "unborn"]
    /\ \E spec \in ConfigSpecs :
          config = [NoConfig EXCEPT !.phase = "live", !.gen = 1, !.rv = 1, !.spec = spec]
    /\ configCache = NoConfig
    /\ \E ref \in ClassRefs : class = [exists |-> TRUE, ref |-> ref, rv |-> 1, acc |-> "none"]
    /\ classCache = NoClass
    /\ gw = [g \in Gateways |-> [NoGateway EXCEPT !.phase = "live", !.rv = 1]]
    /\ gwCache = [g \in Gateways |-> NoGateway]
    /\ secret = {} /\ secretCache = {}
    /\ credentials = TRUE
    /\ cfgW = IdleConfig /\ classW = IdleClass /\ gwW = IdleGateway
    /\ queue = {} /\ delayed = {}
    /\ faults = 0 /\ moves = 0
    /\ dropped = {}

----------------------------------------------------------------------------
Answered == UNCHANGED faults
Fault == faults < MaxFaults /\ faults' = faults + 1
Later(key) == delayed' = delayed \union {key}

SubLive(s) == s # None /\ subs[s] = "live"

\* Writes under optimistic locking; one that changes nothing keeps the version.
FreshConfig == config.phase = "live" /\ config.rv = cfgW.obj.rv
PutConfigStatus(o) ==
    LET new == [config EXCEPT !.sub = o.sub, !.acc = o.acc, !.accGen = o.accGen]
    IN  config' = IF new = config THEN config ELSE [new EXCEPT !.rv = @ + 1]

FreshClass == class.exists /\ class.rv = classW.obj.rv
PutClassStatus(acc) ==
    class' = IF class.acc = acc THEN class ELSE [class EXCEPT !.acc = acc, !.rv = @ + 1]

FreshGateway == gw[gwW.g].phase = "live" /\ gw[gwW.g].rv = gwW.obj.rv
Bumped(old, new) ==
    IF new = old THEN old
    ELSE [new EXCEPT !.rv = @ + 1,
                     !.phase = IF new.deleting /\ ~new.finalizer THEN "gone" ELSE @]
PutGateway(o) == gw' = [gw EXCEPT ![gwW.g] = o]
GatewayMeta(finalizer, sub) ==
    Bumped(gw[gwW.g], [gw[gwW.g] EXCEPT !.finalizer = finalizer, !.sub = sub])
GatewayStatus(acc) == Bumped(gw[gwW.g], [gw[gwW.g] EXCEPT !.acc = acc])

----------------------------------------------------------------------------
(* SakuraGatewayConfig controller                                            *)

ConfigRest == UNCHANGED <<class, gw, secret, caches, credentials, classW, gwW, moves>>

\* Mutant: a condition of an earlier generation is good enough.
MutantUpToDate(o) == o.sub # None /\ o.acc = "True"

\* The early return: accepted for this generation already.
UpToDate(o) == o.sub # None /\ o.acc = "True" /\ o.accGen >= o.gen

\* Mutants: the recorded subscription goes before the one the spec names, or
\* replaces it; a recorded subscription is not looked up.
MutantIgnoresId(o) == IF o.sub # None THEN "lookup" ELSE "create"
MutantFirstLookup(o) == IF o.sub # None THEN "lookup" ELSE IF o.spec.id # None THEN "verify" ELSE "create"
MutantNoReuse(o) == IF o.spec.id # None THEN "verify" ELSE "create"

\* resolveSubscription: the spec's id, else the recorded one, else a new one.
FirstLookup(o) ==
    IF o.spec.id # None THEN "verify" ELSE IF o.sub # None THEN "lookup" ELSE "create"

ReconcileConfig ==
    /\ cfgW.pc = "idle" /\ "config" \in queue
    /\ queue' = queue \ {"config"}
    /\ LET o == configCache IN
       \/ (o.phase # "live" \/ UpToDate(o)) /\ UNCHANGED cfgW
       \/ /\ o.phase = "live" /\ ~UpToDate(o)
          /\ cfgW' = [IdleConfig EXCEPT !.pc = IF credentials THEN FirstLookup(o) ELSE "failed",
                                        !.obj = o]
    /\ UNCHANGED <<subs, config, delayed, faults, dropped>> /\ ConfigRest

\* The identifier in the decoded answer, which the code takes as it is (:134, :145, :163).
AnsweredID(s) == IF NestedAnswers THEN s ELSE None

Resolved(s) == cfgW' = [cfgW EXCEPT !.obj.sub = AnsweredID(s), !.pc = "status"]
Unresolved == cfgW' = [cfgW EXCEPT !.pc = "failed"]

\* The subscription the spec names has to exist.
VerifySubscription ==
    /\ cfgW.pc = "verify"
    /\ \/ SubLive(cfgW.obj.spec.id) /\ Resolved(cfgW.obj.spec.id) /\ Answered
       \/ ~SubLive(cfgW.obj.spec.id) /\ Unresolved /\ Answered
       \/ Fault /\ Unresolved
    /\ UNCHANGED <<subs, config, queue, delayed, dropped>> /\ ConfigRest

\* Any error, not only 404, leads on to the creation of another subscription.
LookupSubscription ==
    /\ cfgW.pc = "lookup"
    /\ \/ SubLive(cfgW.obj.sub) /\ Resolved(cfgW.obj.sub) /\ Answered
       \/ ~SubLive(cfgW.obj.sub) /\ Answered /\ cfgW' = [cfgW EXCEPT !.pc = "create"]
       \/ Fault /\ cfgW' = [cfgW EXCEPT !.pc = "create", !.missed = TRUE]
    /\ UNCHANGED <<subs, config, queue, delayed, dropped>> /\ ConfigRest

CreateSubscription ==
    /\ cfgW.pc = "create"
    /\ LET fresh == {s \in SubscriptionIDs : subs[s] = "unborn"}
           s == CHOOSE x \in fresh : TRUE
           allowed == cfgW.obj.spec.named /\ fresh # {}
       IN
       \/ /\ allowed /\ Answered
          /\ subs' = [subs EXCEPT ![s] = "live"]
          /\ cfgW' = [cfgW EXCEPT !.obj.sub = AnsweredID(s), !.made = AnsweredID(s), !.pc = "status"]
          /\ dropped' = dropped \union ({s} \ {AnsweredID(s)})
       \/ ~allowed /\ Answered /\ Unresolved /\ UNCHANGED <<subs, dropped>>
       \/ /\ cfgW.obj.spec.named /\ Fault /\ Unresolved
          /\ \/ UNCHANGED <<subs, dropped>>
             \/ allowed /\ subs' = [subs EXCEPT ![s] = "live"] /\ dropped' = dropped \union {s}
    /\ UNCHANGED <<config, queue, delayed>> /\ ConfigRest

Accepted(o, acc) == [o EXCEPT !.acc = acc, !.accGen = o.gen]

\* The recorded subscription gives way to the one the spec names, or to a new
\* one after a failed lookup.
LetGo == IF cfgW.obj.spec.id # None \/ cfgW.missed
         THEN {config.sub} \ {None, cfgW.obj.sub} ELSE {}

\* A subscription made by a pass whose status update fails is recorded nowhere.
SaveConfigStatus ==
    /\ cfgW.pc = "status"
    /\ LET saved == PutConfigStatus(Accepted(cfgW.obj, "True")) IN
       \/ /\ FreshConfig /\ Answered /\ saved /\ UNCHANGED delayed
          /\ dropped' = dropped \union LetGo
       \/ /\ ~FreshConfig /\ Answered /\ UNCHANGED config /\ Later("config")
          /\ dropped' = dropped \union ({cfgW.made} \ {None})
       \/ /\ Fault /\ Later("config")
          /\ \/ UNCHANGED config /\ dropped' = dropped \union ({cfgW.made} \ {None})
             \/ FreshConfig /\ saved /\ dropped' = dropped \union LetGo
    /\ cfgW' = IdleConfig
    /\ UNCHANGED <<subs, queue>> /\ ConfigRest

\* The result of this update is ignored; the error brings the config back.
ReportConfigError ==
    /\ cfgW.pc = "failed"
    /\ \/ FreshConfig /\ Answered /\ PutConfigStatus(Accepted(cfgW.obj, "False"))
       \/ ~FreshConfig /\ Answered /\ UNCHANGED config
       \/ Fault /\ UNCHANGED config
    /\ cfgW' = IdleConfig /\ Later("config")
    /\ UNCHANGED <<subs, queue, dropped>> /\ ConfigRest

----------------------------------------------------------------------------
(* GatewayClass controller                                                   *)

ClassRest == UNCHANGED <<subs, config, gw, secret, caches, credentials, cfgW, gwW, moves, dropped>>

\* Mutant: a config is good enough as soon as it exists.
MutantValidParameters == configCache.phase = "live"

\* validateParametersRef: the cached config has Accepted=True, of any generation.
ValidParameters == configCache.phase = "live" /\ configCache.acc = "True"

ReconcileClass ==
    /\ classW.pc = "idle" /\ "class" \in queue
    /\ queue' = queue \ {"class"}
    /\ \/ ~classCache.exists /\ UNCHANGED classW
       \/ /\ classCache.exists
          /\ classW' = [pc |-> IF classCache.ref = "none" \/ ValidParameters
                               THEN "accept" ELSE "refuse",
                        obj |-> classCache]
    /\ UNCHANGED <<class, delayed, faults>> /\ ClassRest

AcceptClass ==
    /\ classW.pc = "accept"
    /\ \/ FreshClass /\ PutClassStatus("True") /\ Answered /\ UNCHANGED delayed
       \/ ~FreshClass /\ UNCHANGED class /\ Answered /\ Later("class")
       \/ Fault /\ Later("class") /\ (UNCHANGED class \/ (FreshClass /\ PutClassStatus("True")))
    /\ classW' = IdleClass
    /\ UNCHANGED queue /\ ClassRest

\* A failed update is logged and not retried.
RefuseClass ==
    /\ classW.pc = "refuse"
    /\ \/ FreshClass /\ PutClassStatus("False") /\ Answered
       \/ ~FreshClass /\ UNCHANGED class /\ Answered
       \/ Fault /\ UNCHANGED class
    /\ classW' = IdleClass
    /\ UNCHANGED <<queue, delayed>> /\ ClassRest

----------------------------------------------------------------------------
(* Gateway controller                                                        *)

GatewayRest == UNCHANGED <<subs, config, class, caches, credentials, cfgW, classW, moves, dropped>>

\* Without its class a Gateway is an error, whether it is being deleted or not.
ReconcileGateway(g) ==
    /\ gwW.pc = "idle" /\ g \in queue
    /\ queue' = queue \ {g}
    /\ LET o == gwCache[g]
           start(pc) == [IdleGateway EXCEPT !.pc = pc, !.g = g, !.obj = o, !.ref = classCache.ref]
       IN
       \/ o.phase # "live" /\ UNCHANGED <<gwW, delayed>>
       \/ o.phase = "live" /\ ~classCache.exists /\ UNCHANGED gwW /\ Later(g)
       \/ /\ o.phase = "live" /\ classCache.exists /\ UNCHANGED delayed
          /\ \/ o.deleting /\ ~o.finalizer /\ UNCHANGED gwW
             \/ o.deleting /\ o.finalizer /\ gwW' = start("removeFinalizer")
             \/ ~o.deleting /\ gwW' = start(IF o.finalizer THEN "resolve" ELSE "finalizer")
    /\ UNCHANGED <<gw, secret, faults>> /\ GatewayRest

GiveUpGateway == gwW' = IdleGateway /\ Later(gwW.g)

\* An Update: on success the answer replaces the object; on failure the pass ends.
UpdateGateway(new, next) ==
    \/ /\ FreshGateway /\ Answered /\ PutGateway(new)
       /\ gwW' = IF next = "idle" THEN IdleGateway ELSE [gwW EXCEPT !.obj = new, !.pc = next]
       /\ UNCHANGED delayed
    \/ ~FreshGateway /\ Answered /\ UNCHANGED gw /\ GiveUpGateway
    \/ Fault /\ GiveUpGateway /\ (UNCHANGED gw \/ (FreshGateway /\ PutGateway(new)))

AddGatewayFinalizer ==
    /\ gwW.pc = "finalizer"
    /\ UpdateGateway(GatewayMeta(TRUE, gwW.obj.sub), "resolve")
    /\ UNCHANGED <<secret, queue>> /\ GatewayRest

\* The config is read from the cache; only its subscription counts, not its condition.
ResolveConfig ==
    /\ gwW.pc = "resolve"
    /\ \/ /\ gwW.ref = "config" /\ configCache.phase = "live" /\ configCache.sub # None
          /\ gwW' = [gwW EXCEPT !.pc = "annotate", !.sub = configCache.sub,
                                !.verify = configCache.spec.verify]
       \/ /\ gwW.ref = "none" \/ configCache.phase # "live" \/ configCache.sub = None
          /\ gwW' = [gwW EXCEPT !.pc = "reject"]
    /\ UNCHANGED <<gw, secret, queue, delayed, faults>> /\ GatewayRest

AnnotateGateway ==
    /\ gwW.pc = "annotate"
    /\ UpdateGateway(GatewayMeta(TRUE, gwW.sub), IF gwW.verify THEN "secret" ELSE "status")
    /\ UNCHANGED <<secret, queue>> /\ GatewayRest

\* ensureVerificationSecret: a failure, AlreadyExists included, is logged.
EnsureSecret ==
    /\ gwW.pc = "secret"
    /\ \/ gwW.g \in secretCache /\ Answered /\ UNCHANGED secret
       \/ gwW.g \notin secretCache /\ Answered /\ secret' = secret \union {gwW.g}
       \/ /\ gwW.g \notin secretCache /\ Fault
          /\ UNCHANGED secret \/ secret' = secret \union {gwW.g}
    /\ gwW' = [gwW EXCEPT !.pc = "status"]
    /\ UNCHANGED <<gw, queue, delayed>> /\ GatewayRest

AcceptGateway ==
    /\ gwW.pc = "status"
    /\ UpdateGateway(GatewayStatus("True"), "idle")
    /\ UNCHANGED <<secret, queue>> /\ GatewayRest

\* Mutant: a Gateway whose config cannot be resolved loses its annotation.
MutantRejected == Bumped(gw[gwW.g], [gw[gwW.g] EXCEPT !.acc = "False", !.sub = None])

Rejected == GatewayStatus("False")

\* The result of the status update is ignored; the Gateway comes back after 10s.
RejectGateway ==
    /\ gwW.pc = "reject"
    /\ \/ FreshGateway /\ Answered /\ PutGateway(Rejected)
       \/ ~FreshGateway /\ Answered /\ UNCHANGED gw
       \/ Fault /\ UNCHANGED gw
    /\ GiveUpGateway
    /\ UNCHANGED <<secret, queue>> /\ GatewayRest

\* Mutant: the object is saved with the finalizer still on it.
MutantReleased == GatewayMeta(TRUE, gwW.obj.sub)

Released == GatewayMeta(FALSE, gwW.obj.sub)

RemoveGatewayFinalizer ==
    /\ gwW.pc = "removeFinalizer"
    /\ UpdateGateway(Released, "idle")
    /\ UNCHANGED <<secret, queue>> /\ GatewayRest

----------------------------------------------------------------------------
(* Informers and the process.  What a watch event wakes: the config its own  *)
(* controller and, through the cached class, the class controller; the class *)
(* its own and the Gateways; a Gateway and its secret the Gateway.           *)

LiveGateways == {g \in Gateways : gwCache[g].phase = "live"}

SyncConfig ==
    /\ configCache # config
    /\ configCache' = config
    /\ queue' = queue \union {"config"}
                \union (IF classCache.exists /\ classCache.ref = "config" THEN {"class"} ELSE {})
    /\ UNCHANGED <<subs, servers, classCache, gwCache, secretCache, credentials, workers, delayed, faults, moves, dropped>>

SyncClass ==
    /\ classCache # class
    /\ classCache' = class
    /\ queue' = queue \union {"class"} \union LiveGateways
    /\ UNCHANGED <<subs, servers, configCache, gwCache, secretCache, credentials, workers, delayed, faults, moves, dropped>>

SyncGateway(g) ==
    /\ gwCache[g] # gw[g]
    /\ gwCache' = [gwCache EXCEPT ![g] = gw[g]]
    /\ queue' = queue \union {g}
    /\ UNCHANGED <<subs, servers, configCache, classCache, secretCache, credentials, workers, delayed, faults, moves, dropped>>

SyncSecret(g) ==
    /\ (g \in secretCache) # (g \in secret)
    /\ secretCache' = IF g \in secret THEN secretCache \union {g} ELSE secretCache \ {g}
    /\ queue' = queue \union {g}
    /\ UNCHANGED <<subs, servers, configCache, classCache, gwCache, credentials, workers, delayed, faults, moves, dropped>>

\* The delay of a retry outlasts the informers' lag.  A key that comes due while
\* its worker has it waits for the end of the pass anyway.
Timely == configCache = config /\ classCache = class /\ gwCache = gw /\ secretCache = secret

AtRest(key) ==
    IF key = "config" THEN cfgW.pc = "idle"
    ELSE IF key = "class" THEN classW.pc = "idle" ELSE gwW.pc = "idle"

RetryDue(key) ==
    /\ key \in delayed \ queue
    /\ Timely /\ AtRest(key)
    /\ delayed' = delayed \ {key}
    /\ queue' = queue \union {key}
    /\ UNCHANGED <<subs, servers, caches, credentials, workers, faults, moves, dropped>>

InCache == (IF configCache.phase = "live" THEN {"config"} ELSE {})
           \union (IF classCache.exists THEN {"class"} ELSE {}) \union LiveGateways

\* The resync period, ten hours, outlasts what is queued and under way as well.
Quiet == Timely /\ queue = {} /\ cfgW.pc = "idle" /\ classW.pc = "idle" /\ gwW.pc = "idle"

Resync ==
    /\ Quiet
    /\ InCache # {} /\ queue' = InCache
    /\ UNCHANGED <<subs, servers, caches, credentials, workers, delayed, faults, moves, dropped>>

Restart ==
    /\ "restart" \in EnvKinds /\ Fault
    /\ cfgW' = IdleConfig /\ classW' = IdleClass /\ gwW' = IdleGateway
    /\ configCache' = config /\ classCache' = class /\ gwCache' = gw /\ secretCache' = secret
    /\ queue' = InCache' /\ delayed' = {}
    /\ dropped' = dropped \union ({cfgW.made} \ {None})
    /\ UNCHANGED <<subs, servers, credentials, moves>>

----------------------------------------------------------------------------
(* Users, the console and the garbage collector                              *)

Move(kind) ==
    /\ kind \in EnvKinds /\ (CalmMoves => Quiet)
    /\ moves < MaxMoves /\ moves' = moves + 1
ElseUnchanged == UNCHANGED <<caches, workers, queue, delayed, faults>>

\* An edit may leave alone what the model keeps of a spec: its generation rises anyway.
UserEditsConfig ==
    /\ Move("edit") /\ config.phase = "live"
    /\ \E spec \in ConfigSpecs :
          config' = [config EXCEPT !.spec = spec, !.gen = @ + 1, !.rv = @ + 1]
    /\ UNCHANGED <<subs, class, gw, secret, credentials, dropped>> /\ ElseUnchanged

\* The config has no finalizer: its subscription stays in the cloud.
UserDeletesConfig ==
    /\ Move("config") /\ config.phase = "live"
    /\ config' = [config EXCEPT !.phase = "gone"]
    /\ dropped' = dropped \union ({config.sub} \ {None})
    /\ UNCHANGED <<subs, class, gw, secret, credentials>> /\ ElseUnchanged

UserDeletesGateway(g) ==
    /\ Move("gateway") /\ gw[g].phase = "live" /\ ~gw[g].deleting
    /\ gw' = [gw EXCEPT ![g] = Bumped(@, [@ EXCEPT !.deleting = TRUE])]
    /\ UNCHANGED <<subs, config, class, secret, credentials, dropped>> /\ ElseUnchanged

UserDeletesClass ==
    /\ Move("class") /\ class.exists
    /\ class' = [class EXCEPT !.exists = FALSE]
    /\ UNCHANGED <<subs, config, gw, secret, credentials, dropped>> /\ ElseUnchanged

UserDeletesSecret(g) ==
    /\ Move("secret") /\ g \in secret
    /\ secret' = secret \ {g}
    /\ UNCHANGED <<subs, config, class, gw, credentials, dropped>> /\ ElseUnchanged

\* The credentials secret comes and goes; nothing watches it.
CredentialsChange ==
    /\ Move("credentials")
    /\ credentials' = ~credentials
    /\ UNCHANGED <<subs, servers, dropped>> /\ ElseUnchanged

SubscriptionCancelled(s) ==
    /\ Move("console") /\ SubLive(s)
    /\ subs' = [subs EXCEPT ![s] = "gone"]
    /\ UNCHANGED <<servers, credentials, dropped>> /\ ElseUnchanged

GarbageCollect(g) ==
    /\ g \in secret /\ gw[g].phase = "gone"
    /\ secret' = secret \ {g}
    /\ UNCHANGED <<subs, config, class, gw, credentials, moves, dropped>> /\ ElseUnchanged

ConfigStep == VerifySubscription \/ LookupSubscription \/ CreateSubscription
              \/ SaveConfigStatus \/ ReportConfigError
ClassStep == AcceptClass \/ RefuseClass
GatewayStep == AddGatewayFinalizer \/ ResolveConfig \/ AnnotateGateway \/ EnsureSecret
               \/ AcceptGateway \/ RejectGateway \/ RemoveGatewayFinalizer

Next ==
    \/ ReconcileConfig \/ ConfigStep
    \/ ReconcileClass \/ ClassStep
    \/ (\E g \in Gateways : ReconcileGateway(g)) \/ GatewayStep
    \/ SyncConfig \/ SyncClass
    \/ \E g \in Gateways : SyncGateway(g) \/ SyncSecret(g) \/ GarbageCollect(g)
    \/ \E key \in Keys : RetryDue(key)
    \/ Resync \/ Restart
    \/ UserEditsConfig \/ UserDeletesConfig \/ UserDeletesClass
    \/ \E g \in Gateways : UserDeletesGateway(g) \/ UserDeletesSecret(g)
    \/ CredentialsChange
    \/ \E s \in SubscriptionIDs : SubscriptionCancelled(s)

Spec == Init /\ [][Next]_vars

\* Workers run, the Gateway worker serves its queue in order, informers
\* deliver, the delays end, the manager resyncs (every ten hours by default).
Fairness ==
    /\ WF_vars(ReconcileConfig \/ ConfigStep)
    /\ WF_vars(ReconcileClass \/ ClassStep)
    /\ WF_vars(GatewayStep)
    /\ \A g \in Gateways : /\ SF_vars(ReconcileGateway(g))
                           /\ WF_vars(SyncGateway(g)) /\ WF_vars(SyncSecret(g))
    /\ WF_vars(SyncConfig) /\ WF_vars(SyncClass)
    /\ \A key \in Keys : SF_vars(RetryDue(key))
    /\ SF_vars(Resync)

FairSpec == Spec /\ Fairness
=============================================================================
