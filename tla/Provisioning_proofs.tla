------------------------ MODULE Provisioning_proofs ------------------------
(***************************************************************************)
(* Proofs about the three provisioning controllers, for every set of        *)
(* Gateways, subscriptions and config specs and without bounds on faults    *)
(* or moves.                                                                *)
(*                                                                          *)
(* The config controller is the one that spends money.  A subscription is   *)
(* never lost without a failure (SubscriptionsAccounted) because a save     *)
(* goes through only from the server's version of the config: what the pass *)
(* then replaces is what it read, and it has looked that up (Replaces).     *)
(*                                                                          *)
(* The HTTPRoute controller sees of the other two a world that moves as     *)
(* GatewayWorld says (WorldIsKept), because a Gateway's copies lag behind   *)
(* but never run ahead of the server (GatewayFaithful).                     *)
(***************************************************************************)
EXTENDS ProvisioningProperties, TLAPS

----------------------------------------------------------------------------
(* Which steps touch what.                                                   *)

configVars == <<subs, config, configCache, cfgW, dropped>>
classVars == <<class, classCache, classW>>
gatewayVars == <<gw, gwCache, secret, secretCache, gwW>>

\* The state of the config controller.
LEMMA ConfigFrame ==
  ASSUME [Next]_vars
  PROVE  \/ ReconcileConfig \/ VerifySubscription \/ LookupSubscription \/ CreateSubscription
         \/ SaveConfigStatus \/ ReportConfigError \/ SyncConfig \/ Restart
         \/ UserEditsConfig \/ UserDeletesConfig
         \/ \E s \in SubscriptionIDs : SubscriptionCancelled(s)
         \/ UNCHANGED configVars
<1>1. ReconcileClass \/ ClassStep => UNCHANGED configVars
  BY DEF ReconcileClass, ClassStep, AcceptClass, RefuseClass, ClassRest, configVars, caches
<1>2. GatewayStep \/ (\E g \in Gateways : ReconcileGateway(g)) => UNCHANGED configVars
  BY DEF GatewayStep, ReconcileGateway, AddGatewayFinalizer, ResolveConfig, AnnotateGateway,
     EnsureSecret, AcceptGateway, RejectGateway, RemoveGatewayFinalizer, GatewayRest, configVars,
     caches
<1>3. SyncClass \/ (\E g \in Gateways : SyncGateway(g) \/ SyncSecret(g)) => UNCHANGED configVars
  BY DEF SyncClass, SyncGateway, SyncSecret, configVars, servers, workers
<1>4. UserDeletesClass \/ CredentialsChange
      \/ (\E g \in Gateways : GarbageCollect(g) \/ UserDeletesGateway(g) \/ UserDeletesSecret(g))
      => UNCHANGED configVars
  BY DEF UserDeletesClass, CredentialsChange, GarbageCollect, UserDeletesGateway,
     UserDeletesSecret, ElseUnchanged, configVars, servers, workers, caches
<1>5. Resync \/ (\E key \in Keys : RetryDue(key)) \/ UNCHANGED vars => UNCHANGED configVars
  BY DEF Resync, RetryDue, configVars, servers, workers, caches, vars
<1> QED
  BY <1>1, <1>2, <1>3, <1>4, <1>5 DEF Next, ConfigStep

\* That of the class controller.
LEMMA ClassFrame ==
  ASSUME [Next]_vars
  PROVE  \/ ReconcileClass \/ AcceptClass \/ RefuseClass \/ SyncClass \/ Restart
         \/ UserDeletesClass
         \/ UNCHANGED classVars
<1>1. ReconcileConfig \/ ConfigStep => UNCHANGED classVars
  BY DEF ReconcileConfig, ConfigStep, VerifySubscription, LookupSubscription, CreateSubscription,
     SaveConfigStatus, ReportConfigError, ConfigRest, classVars, caches
<1>2. GatewayStep \/ (\E g \in Gateways : ReconcileGateway(g)) => UNCHANGED classVars
  BY DEF GatewayStep, ReconcileGateway, AddGatewayFinalizer, ResolveConfig, AnnotateGateway,
     EnsureSecret, AcceptGateway, RejectGateway, RemoveGatewayFinalizer, GatewayRest, classVars,
     caches
<1>3. SyncConfig \/ (\E g \in Gateways : SyncGateway(g) \/ SyncSecret(g)) => UNCHANGED classVars
  BY DEF SyncConfig, SyncGateway, SyncSecret, classVars, servers, workers
<1>4. UserEditsConfig \/ UserDeletesConfig \/ CredentialsChange
      \/ (\E s \in SubscriptionIDs : SubscriptionCancelled(s))
      \/ (\E g \in Gateways : GarbageCollect(g) \/ UserDeletesGateway(g) \/ UserDeletesSecret(g))
      => UNCHANGED classVars
  BY DEF UserEditsConfig, UserDeletesConfig, CredentialsChange, SubscriptionCancelled,
     GarbageCollect, UserDeletesGateway, UserDeletesSecret, ElseUnchanged, classVars, servers,
     workers, caches
<1>5. Resync \/ (\E key \in Keys : RetryDue(key)) \/ UNCHANGED vars => UNCHANGED classVars
  BY DEF Resync, RetryDue, classVars, servers, workers, caches, vars
<1> QED
  BY <1>1, <1>2, <1>3, <1>4, <1>5 DEF Next, ClassStep

\* That of the Gateway controller.
LEMMA GatewayFrame ==
  ASSUME [Next]_vars
  PROVE  \/ \E g \in Gateways : ReconcileGateway(g) \/ SyncGateway(g) \/ SyncSecret(g)
                                \/ GarbageCollect(g) \/ UserDeletesGateway(g) \/ UserDeletesSecret(g)
         \/ AddGatewayFinalizer \/ ResolveConfig \/ AnnotateGateway \/ EnsureSecret
         \/ AcceptGateway \/ RejectGateway \/ RemoveGatewayFinalizer \/ Restart
         \/ UNCHANGED gatewayVars
<1>1. ReconcileConfig \/ ConfigStep => UNCHANGED gatewayVars
  BY DEF ReconcileConfig, ConfigStep, VerifySubscription, LookupSubscription, CreateSubscription,
     SaveConfigStatus, ReportConfigError, ConfigRest, gatewayVars, caches
<1>2. ReconcileClass \/ ClassStep => UNCHANGED gatewayVars
  BY DEF ReconcileClass, ClassStep, AcceptClass, RefuseClass, ClassRest, gatewayVars, caches
<1>3. SyncConfig \/ SyncClass => UNCHANGED gatewayVars
  BY DEF SyncConfig, SyncClass, gatewayVars, servers, workers
<1>4. UserEditsConfig \/ UserDeletesConfig \/ UserDeletesClass \/ CredentialsChange
      \/ (\E s \in SubscriptionIDs : SubscriptionCancelled(s))
      => UNCHANGED gatewayVars
  BY DEF UserEditsConfig, UserDeletesConfig, UserDeletesClass, CredentialsChange,
     SubscriptionCancelled, ElseUnchanged, gatewayVars, servers, workers, caches
<1>5. Resync \/ (\E key \in Keys : RetryDue(key)) \/ UNCHANGED vars => UNCHANGED gatewayVars
  BY DEF Resync, RetryDue, gatewayVars, servers, workers, caches, vars
<1> QED
  BY <1>1, <1>2, <1>3, <1>4, <1>5 DEF Next, GatewayStep

----------------------------------------------------------------------------
(* The config controller.                                                    *)

ConfigTypes ==
    /\ subs \in [SubscriptionIDs -> {"unborn", "live", "gone"}]
    /\ config \in Config /\ configCache \in Config /\ cfgW \in ConfigWorker
    /\ dropped \subseteq SubscriptionIDs

\* What a pass has established: the subscription it records, if answers name one,
\* is the one the spec names, and it has made none but the one it is about to record.
ConfigPass ==
    /\ cfgW.pc \in {"lookup", "create"} => cfgW.obj.spec.id = None
    /\ cfgW.pc = "status" =>
          /\ cfgW.obj.sub # None <=> NestedAnswers
          /\ NestedAnswers /\ cfgW.obj.spec.id # None => cfgW.obj.sub = cfgW.obj.spec.id
    /\ cfgW.pc # "status" => cfgW.made = None
    /\ cfgW.made # None => cfgW.made = cfgW.obj.sub

\* A copy of the server's version is a copy of the server's config; until it has
\* a subscription of its own a pass has the one it read.
ConfigFaithful ==
    /\ configCache.rv <= config.rv
    /\ configCache.rv = config.rv => /\ configCache.spec = config.spec
                                     /\ configCache.gen = config.gen
                                     /\ configCache.sub = config.sub
    /\ cfgW.pc # "idle" => cfgW.obj.rv <= config.rv
    /\ cfgW.pc # "idle" /\ cfgW.obj.rv = config.rv =>
          /\ cfgW.obj.spec = config.spec /\ cfgW.obj.gen = config.gen
          /\ cfgW.pc # "status" => cfgW.obj.sub = config.sub

\* What is recorded, now or earlier, was created once.
Born(s) == s # None => subs[s] # "unborn"
RecordsBorn == Born(config.sub) /\ Born(configCache.sub) /\ Born(cfgW.obj.sub)

\* A save that goes through replaces a subscription that the spec does not name,
\* that could not be looked up, or that is not there any more.
Replaces ==
    cfgW.obj.rv = config.rv =>
        /\ cfgW.pc = "create" => cfgW.missed \/ ~SubLive(config.sub)
        /\ cfgW.pc = "status" => \/ cfgW.obj.sub = config.sub \/ cfgW.obj.spec.id # None
                                 \/ cfgW.missed \/ ~SubLive(config.sub)

ConditionsAtMost == config.accGen <= config.gen

\* Answers in which the client finds no identifier leave nothing to record.
NamesNone == ~NestedAnswers => config.sub = None

ConfigInv ==
    /\ ConfigTypes /\ ConfigPass /\ ConfigFaithful /\ RecordsBorn /\ Replaces /\ NamesNone
    /\ ConditionsAtMost /\ SubscriptionsAccounted
    /\ NestedAnswers => AcceptedNamesSubscription

\* The worker at rest.
LEMMA IdleConfigFields ==
  /\ IdleConfig \in ConfigWorker /\ NoConfig \in Config
  /\ IdleConfig.pc = "idle" /\ IdleConfig.obj = NoConfig /\ IdleConfig.made = None
  /\ NoConfig.sub = None /\ NoConfig.rv = 0 /\ NoConfig.phase = "new"
<1>1. NoConfig.spec \in ConfigSpec
  BY DEF NoConfig, ConfigSpec
<1>2. NoConfig \in Config
  BY <1>1 DEF NoConfig, Config, Acceptance
<1> QED
  BY <1>2 DEF IdleConfig, ConfigWorker, NoConfig

\* A pass starts from the cache.
LEMMA StartConfigFields ==
  ASSUME ConfigTypes, ReconcileConfig
  PROVE  /\ UNCHANGED <<subs, config, configCache, dropped>> /\ cfgW.pc = "idle"
         /\ \/ UNCHANGED cfgW
            \/ /\ cfgW' \in ConfigWorker
               /\ cfgW'.obj = configCache /\ cfgW'.made = None /\ ~cfgW'.missed
               /\ cfgW'.pc \in {FirstLookup(configCache), "failed"}
<1>1. UNCHANGED <<subs, config, configCache, dropped>> /\ cfgW.pc = "idle"
  BY DEF ReconcileConfig, ConfigRest, caches
<1>2. ASSUME NEW pc \in {FirstLookup(configCache), "failed"},
             cfgW' = [IdleConfig EXCEPT !.pc = pc, !.obj = configCache]
      PROVE  /\ cfgW' \in ConfigWorker
             /\ cfgW'.obj = configCache /\ cfgW'.made = None /\ ~cfgW'.missed
             /\ cfgW'.pc = pc
  BY <1>2 DEF ConfigTypes, IdleConfig, ConfigWorker, FirstLookup
<1> QED
  BY <1>1, <1>2 DEF ReconcileConfig

\* A pass takes a subscription, made by it or not.
LEMMA TakenFields ==
  ASSUME ConfigTypes, NEW s \in SubscriptionIDs \union {None},
         NEW made \in SubscriptionIDs \union {None},
         cfgW' = [cfgW EXCEPT !.obj.sub = s, !.made = made, !.pc = "status"]
  PROVE  /\ cfgW' \in ConfigWorker
         /\ cfgW'.pc = "status" /\ cfgW'.made = made /\ cfgW'.missed = cfgW.missed
         /\ cfgW'.obj.sub = s /\ cfgW'.obj.spec = cfgW.obj.spec
         /\ cfgW'.obj.gen = cfgW.obj.gen /\ cfgW'.obj.rv = cfgW.obj.rv
<1> DEFINE o == [cfgW.obj EXCEPT !.sub = s]
<1>1. cfgW \in ConfigWorker /\ cfgW.obj \in Config
  BY DEF ConfigTypes, ConfigWorker
<1>2. o \in Config /\ o.sub = s /\ o.spec = cfgW.obj.spec /\ o.gen = cfgW.obj.gen
      /\ o.rv = cfgW.obj.rv
  BY <1>1 DEF Config
<1>3. cfgW' = [cfgW EXCEPT !.obj = o, !.made = made, !.pc = "status"]
  BY <1>1 DEF ConfigWorker
<1> HIDE DEF o
<1> QED
  BY <1>1, <1>2, <1>3 DEF ConfigWorker

\* One that was there already.
LEMMA ResolvedFields ==
  ASSUME ConfigTypes, NEW s \in SubscriptionIDs, Resolved(s)
  PROVE  /\ cfgW' \in ConfigWorker
         /\ cfgW'.pc = "status" /\ cfgW'.made = cfgW.made /\ cfgW'.missed = cfgW.missed
         /\ cfgW'.obj.sub = AnsweredID(s) /\ cfgW'.obj.spec = cfgW.obj.spec
         /\ cfgW'.obj.gen = cfgW.obj.gen /\ cfgW'.obj.rv = cfgW.obj.rv
<1>1. cfgW \in ConfigWorker /\ cfgW.made \in SubscriptionIDs \union {None}
  BY DEF ConfigTypes, ConfigWorker
<1>2. cfgW' = [cfgW EXCEPT !.obj.sub = AnsweredID(s), !.made = cfgW.made, !.pc = "status"]
  BY <1>1 DEF Resolved, ConfigWorker
<1>3. AnsweredID(s) \in SubscriptionIDs \union {None}
  BY DEF AnsweredID
<1> QED
  BY <1>1, <1>2, <1>3, TakenFields

\* A pass goes on, or to its error, with what it has.
LEMMA MovedFields ==
  ASSUME ConfigTypes, NEW pc \in {"create", "failed"}, NEW missed \in BOOLEAN,
         cfgW' = [cfgW EXCEPT !.pc = pc, !.missed = missed]
  PROVE  /\ cfgW' \in ConfigWorker /\ cfgW'.pc = pc /\ cfgW'.missed = missed
         /\ cfgW'.made = cfgW.made /\ cfgW'.obj = cfgW.obj
  BY DEF ConfigTypes, ConfigWorker

\* The calls that look up.
LEMMA LookupConfigFields ==
  ASSUME ConfigTypes, VerifySubscription \/ LookupSubscription
  PROVE  /\ UNCHANGED <<subs, config, configCache, dropped>>
         /\ cfgW.pc \in {"verify", "lookup"} /\ cfgW' \in ConfigWorker
         /\ cfgW'.made = cfgW.made
         /\ cfgW'.obj.spec = cfgW.obj.spec /\ cfgW'.obj.gen = cfgW.obj.gen
         /\ cfgW'.obj.rv = cfgW.obj.rv
         /\ \/ /\ cfgW.pc = "verify" /\ cfgW'.pc = "status" /\ cfgW'.missed = cfgW.missed
               /\ cfgW'.obj.sub = AnsweredID(cfgW.obj.spec.id) /\ SubLive(cfgW.obj.spec.id)
            \/ /\ cfgW.pc = "lookup" /\ cfgW'.pc = "status" /\ cfgW'.missed = cfgW.missed
               /\ cfgW'.obj.sub = AnsweredID(cfgW.obj.sub) /\ SubLive(cfgW.obj.sub)
            \/ cfgW.pc = "verify" /\ cfgW'.pc = "failed" /\ cfgW'.obj = cfgW.obj
            \/ /\ cfgW.pc = "lookup" /\ cfgW'.pc = "create" /\ cfgW'.obj = cfgW.obj
               /\ cfgW'.missed \/ ~SubLive(cfgW.obj.sub)
<1>1. /\ cfgW \in ConfigWorker /\ cfgW.obj \in Config /\ cfgW.obj.spec \in ConfigSpec
      /\ cfgW.obj.spec.id \in SubscriptionIDs \union {None}
      /\ cfgW.obj.sub \in SubscriptionIDs \union {None} /\ cfgW.missed \in BOOLEAN
  BY DEF ConfigTypes, ConfigWorker, Config, ConfigSpec
<1>2. UNCHANGED <<subs, config, configCache, dropped>>
  BY DEF VerifySubscription, LookupSubscription, ConfigRest, caches
<1>3. Unresolved => cfgW' = [cfgW EXCEPT !.pc = "failed", !.missed = cfgW.missed]
  BY <1>1 DEF Unresolved, ConfigWorker
<1>4. cfgW' = [cfgW EXCEPT !.pc = "create"]
         => cfgW' = [cfgW EXCEPT !.pc = "create", !.missed = cfgW.missed]
  BY <1>1 DEF ConfigWorker
<1>5. CASE VerifySubscription
  <2>1. cfgW.pc = "verify"
    BY <1>5 DEF VerifySubscription
  <2>2. CASE SubLive(cfgW.obj.spec.id) /\ Resolved(cfgW.obj.spec.id)
    BY <1>1, <1>2, <2>1, <2>2, ResolvedFields DEF SubLive
  <2>3. CASE Unresolved
    BY <1>1, <1>2, <1>3, <2>1, <2>3, MovedFields
  <2> QED
    BY <1>5, <2>2, <2>3 DEF VerifySubscription
<1>6. CASE LookupSubscription
  <2>1. cfgW.pc = "lookup"
    BY <1>6 DEF LookupSubscription
  <2>2. CASE SubLive(cfgW.obj.sub) /\ Resolved(cfgW.obj.sub)
    BY <1>1, <1>2, <2>1, <2>2, ResolvedFields DEF SubLive
  <2>3. CASE ~SubLive(cfgW.obj.sub) /\ cfgW' = [cfgW EXCEPT !.pc = "create"]
    BY <1>1, <1>2, <1>4, <2>1, <2>3, MovedFields
  <2>4. CASE cfgW' = [cfgW EXCEPT !.pc = "create", !.missed = TRUE]
    BY <1>1, <1>2, <2>1, <2>4, MovedFields
  <2> QED
    BY <1>6, <2>2, <2>3, <2>4 DEF LookupSubscription
<1> QED
  BY <1>5, <1>6

\* POST /subscriptions.
LEMMA CreateSubscriptionFields ==
  ASSUME ConfigTypes, CreateSubscription
  PROVE  /\ UNCHANGED <<config, configCache>> /\ cfgW.pc = "create" /\ cfgW' \in ConfigWorker
         /\ cfgW'.missed = cfgW.missed
         /\ cfgW'.obj.spec = cfgW.obj.spec /\ cfgW'.obj.gen = cfgW.obj.gen
         /\ cfgW'.obj.rv = cfgW.obj.rv
         /\ \/ /\ cfgW'.pc = "failed" /\ cfgW'.made = cfgW.made /\ cfgW'.obj = cfgW.obj
               /\ UNCHANGED <<subs, dropped>>
            \/ \E s \in SubscriptionIDs :
                  /\ subs[s] = "unborn" /\ subs' = [subs EXCEPT ![s] = "live"]
                  /\ \/ /\ cfgW'.pc = "failed" /\ cfgW'.made = cfgW.made /\ cfgW'.obj = cfgW.obj
                        /\ dropped' = dropped \union {s}
                     \/ /\ cfgW'.pc = "status" /\ cfgW'.made = AnsweredID(s)
                        /\ cfgW'.obj.sub = AnsweredID(s)
                        /\ dropped' = dropped \union ({s} \ {AnsweredID(s)})
<1> DEFINE fresh == {x \in SubscriptionIDs : subs[x] = "unborn"}
           s == CHOOSE x \in fresh : TRUE
<1>1. cfgW \in ConfigWorker /\ cfgW.missed \in BOOLEAN
  BY DEF ConfigTypes, ConfigWorker
<1>2. UNCHANGED <<config, configCache>> /\ cfgW.pc = "create"
  BY DEF CreateSubscription, ConfigRest, caches
<1>3. Unresolved => /\ cfgW' \in ConfigWorker /\ cfgW'.pc = "failed"
                    /\ cfgW'.made = cfgW.made /\ cfgW'.missed = cfgW.missed
                    /\ cfgW'.obj = cfgW.obj
  <2>1. Unresolved => cfgW' = [cfgW EXCEPT !.pc = "failed", !.missed = cfgW.missed]
    BY <1>1 DEF Unresolved, ConfigWorker
  <2> QED
    BY <1>1, <2>1, MovedFields
<1>4. fresh # {} => s \in SubscriptionIDs /\ subs[s] = "unborn"
  OBVIOUS
<1> DEFINE id == AnsweredID(s)
<1>5. \/ /\ fresh # {} /\ subs' = [subs EXCEPT ![s] = "live"]
         /\ dropped' = dropped \union ({s} \ {id})
         /\ cfgW' = [cfgW EXCEPT !.obj.sub = id, !.made = id, !.pc = "status"]
      \/ Unresolved /\ UNCHANGED <<subs, dropped>>
      \/ /\ Unresolved /\ fresh # {} /\ subs' = [subs EXCEPT ![s] = "live"]
         /\ dropped' = dropped \union {s}
  BY DEF CreateSubscription
<1>6. fresh # {} => id \in SubscriptionIDs \union {None}
  BY <1>4 DEF AnsweredID
<1> HIDE DEF fresh, s
<1>7. CASE /\ fresh # {} /\ subs' = [subs EXCEPT ![s] = "live"]
           /\ dropped' = dropped \union ({s} \ {id})
           /\ cfgW' = [cfgW EXCEPT !.obj.sub = id, !.made = id, !.pc = "status"]
  BY <1>2, <1>4, <1>6, <1>7, TakenFields
<1> QED
  BY <1>2, <1>3, <1>4, <1>5, <1>7

\* A status write changes subscription and condition, and the version with them.
LEMMA PutConfigFields ==
  ASSUME ConfigTypes, NEW o \in Config, NEW acc \in {"True", "False"},
         PutConfigStatus(Accepted(o, acc))
  PROVE  /\ config' \in Config
         /\ config'.sub = o.sub /\ config'.acc = acc /\ config'.accGen = o.gen
         /\ config'.phase = config.phase /\ config'.spec = config.spec
         /\ config'.gen = config.gen
         /\ config' = config \/ config'.rv = config.rv + 1
<1> DEFINE a == Accepted(o, acc)
           new == [config EXCEPT !.sub = a.sub, !.acc = a.acc, !.accGen = a.accGen]
<1>1. config \in Config /\ config.rv \in Nat
  BY DEF ConfigTypes, Config
<1>2. a.sub = o.sub /\ a.acc = acc /\ a.accGen = o.gen
      /\ o.sub \in SubscriptionIDs \union {None} /\ o.gen \in Nat
  BY DEF Accepted, Config
<1>3. /\ new \in Config /\ new.sub = o.sub /\ new.acc = acc /\ new.accGen = o.gen
      /\ new.phase = config.phase /\ new.spec = config.spec /\ new.gen = config.gen
      /\ new.rv = config.rv
  BY <1>1, <1>2 DEF Config, Acceptance
<1>4. config' = IF new = config THEN config ELSE [new EXCEPT !.rv = @ + 1]
  BY DEF PutConfigStatus
<1> HIDE DEF new, a
<1>5. CASE new = config
  BY <1>3, <1>4, <1>5
<1>6. CASE config' = [new EXCEPT !.rv = @ + 1]
  BY <1>1, <1>3, <1>6 DEF Config
<1> QED
  BY <1>4, <1>5, <1>6

\* The end of a pass: the result is saved, or lost.
LEMMA SaveConfigFields ==
  ASSUME ConfigTypes, SaveConfigStatus
  PROVE  /\ UNCHANGED <<subs, configCache>> /\ cfgW.pc = "status" /\ cfgW' = IdleConfig
         /\ \/ UNCHANGED config /\ dropped' = dropped \union ({cfgW.made} \ {None})
            \/ /\ config.phase = "live" /\ config.rv = cfgW.obj.rv
               /\ config' \in Config
               /\ config'.sub = cfgW.obj.sub /\ config'.acc = "True"
               /\ config'.accGen = cfgW.obj.gen
               /\ config'.phase = config.phase /\ config'.spec = config.spec
               /\ config'.gen = config.gen
               /\ config' = config \/ config'.rv = config.rv + 1
               /\ dropped' = dropped \union LetGo
<1>1. UNCHANGED <<subs, configCache>> /\ cfgW.pc = "status" /\ cfgW' = IdleConfig
  BY DEF SaveConfigStatus, ConfigRest, caches
<1>2. cfgW.obj \in Config
  BY DEF ConfigTypes, ConfigWorker
<1>3. \/ UNCHANGED config /\ dropped' = dropped \union ({cfgW.made} \ {None})
      \/ /\ FreshConfig /\ PutConfigStatus(Accepted(cfgW.obj, "True"))
         /\ dropped' = dropped \union LetGo
  BY DEF SaveConfigStatus
<1> QED
  BY <1>1, <1>2, <1>3, PutConfigFields DEF FreshConfig

\* ... or an error is reported.
LEMMA ReportConfigFields ==
  ASSUME ConfigTypes, ReportConfigError
  PROVE  /\ UNCHANGED <<subs, configCache, dropped>> /\ cfgW.pc = "failed" /\ cfgW' = IdleConfig
         /\ \/ UNCHANGED config
            \/ /\ config.phase = "live" /\ config.rv = cfgW.obj.rv
               /\ config' \in Config
               /\ config'.sub = cfgW.obj.sub /\ config'.acc = "False"
               /\ config'.accGen = cfgW.obj.gen
               /\ config'.phase = config.phase /\ config'.spec = config.spec
               /\ config'.gen = config.gen
               /\ config' = config \/ config'.rv = config.rv + 1
<1>1. UNCHANGED <<subs, configCache, dropped>> /\ cfgW.pc = "failed" /\ cfgW' = IdleConfig
  BY DEF ReportConfigError, ConfigRest, caches
<1>2. cfgW.obj \in Config
  BY DEF ConfigTypes, ConfigWorker
<1>3. UNCHANGED config \/ (FreshConfig /\ PutConfigStatus(Accepted(cfgW.obj, "False")))
  BY DEF ReportConfigError
<1> QED
  BY <1>1, <1>2, <1>3, PutConfigFields DEF FreshConfig

\* A user's edit is a new generation.
LEMMA EditConfigFields ==
  ASSUME ConfigTypes, UserEditsConfig
  PROVE  /\ UNCHANGED <<subs, configCache, cfgW, dropped>>
         /\ config' \in Config
         /\ config'.phase = config.phase /\ config'.sub = config.sub /\ config'.acc = config.acc
         /\ config'.accGen = config.accGen
         /\ config'.gen = config.gen + 1 /\ config'.rv = config.rv + 1
<1>1. UNCHANGED <<subs, configCache, cfgW, dropped>>
  BY DEF UserEditsConfig, ElseUnchanged, caches, workers
<1>2. PICK spec \in ConfigSpecs :
         config' = [config EXCEPT !.spec = spec, !.gen = @ + 1, !.rv = @ + 1]
  BY DEF UserEditsConfig
<1>3. spec \in ConfigSpec /\ config \in Config
  BY ProvisioningAssumption DEF ConfigTypes
<1>4. config.gen + 1 \in Nat /\ config.rv + 1 \in Nat
  BY <1>3 DEF Config
<1> HIDE DEF ConfigTypes
<1>5. config' \in Config
  BY <1>2, <1>3, <1>4 DEF Config
<1> QED
  BY <1>1, <1>2, <1>3, <1>5 DEF Config

\* A deletion takes the record with it.
LEMMA DeleteConfigFields ==
  ASSUME ConfigTypes, UserDeletesConfig
  PROVE  /\ UNCHANGED <<subs, configCache, cfgW>>
         /\ config' \in Config
         /\ config'.phase = "gone" /\ config'.sub = config.sub /\ config'.spec = config.spec
         /\ config'.accGen = config.accGen
         /\ config'.gen = config.gen /\ config'.rv = config.rv
         /\ dropped' = dropped \union ({config.sub} \ {None})
  BY DEF UserDeletesConfig, ElseUnchanged, caches, workers, ConfigTypes, Config

\* What of the state of the subscriptions no step but a creation changes.
OnlyEnds == \A s \in SubscriptionIDs : subs'[s] # subs[s] => subs[s] = "live" /\ subs'[s] = "gone"

\* A cancellation in the console.
LEMMA CancelFields ==
  ASSUME ConfigTypes, NEW x \in SubscriptionIDs, SubscriptionCancelled(x)
  PROVE  /\ UNCHANGED <<config, configCache, cfgW, dropped>>
         /\ subs' \in [SubscriptionIDs -> {"unborn", "live", "gone"}] /\ OnlyEnds
  BY DEF SubscriptionCancelled, SubLive, servers, ElseUnchanged, caches, workers, ConfigTypes,
     OnlyEnds

\* Types.
LEMMA ConfigTypesKept ==
  ASSUME ConfigTypes, [Next]_vars
  PROVE  ConfigTypes'
<1>1. cfgW.made \in SubscriptionIDs \union {None} /\ config.sub \in SubscriptionIDs \union {None}
  BY DEF ConfigTypes, ConfigWorker, Config
<1>2. LetGo \subseteq SubscriptionIDs
  BY <1>1 DEF LetGo
<1>3. CASE ReconcileConfig
  BY <1>3, StartConfigFields DEF ConfigTypes
<1>4. CASE VerifySubscription \/ LookupSubscription
  BY <1>4, LookupConfigFields DEF ConfigTypes
<1>5. CASE CreateSubscription
  <2>1. UNCHANGED <<config, configCache>> /\ cfgW' \in ConfigWorker
    BY <1>5, CreateSubscriptionFields
  <2>2. /\ subs' \in [SubscriptionIDs -> {"unborn", "live", "gone"}]
        /\ dropped' \subseteq SubscriptionIDs
    BY <1>5, CreateSubscriptionFields DEF ConfigTypes
  <2> QED
    BY <2>1, <2>2 DEF ConfigTypes
<1>6. CASE SaveConfigStatus
  BY <1>1, <1>2, <1>6, SaveConfigFields, IdleConfigFields DEF ConfigTypes
<1>7. CASE ReportConfigError
  BY <1>7, ReportConfigFields, IdleConfigFields DEF ConfigTypes
<1>8. CASE SyncConfig
  BY <1>8 DEF SyncConfig, servers, workers, ConfigTypes
<1>9. CASE Restart
  BY <1>1, <1>9, IdleConfigFields DEF Restart, servers, ConfigTypes
<1>10. CASE UserEditsConfig
  BY <1>10, EditConfigFields DEF ConfigTypes
<1>11. CASE UserDeletesConfig
  BY <1>1, <1>11, DeleteConfigFields DEF ConfigTypes
<1>12. ASSUME NEW s \in SubscriptionIDs, SubscriptionCancelled(s)
       PROVE  ConfigTypes'
  BY <1>12, CancelFields DEF ConfigTypes
<1>13. CASE UNCHANGED configVars
  BY <1>13 DEF configVars, ConfigTypes
<1> QED
  BY <1>3, <1>4, <1>5, <1>6, <1>7, <1>8, <1>9, <1>10, <1>11, <1>12, <1>13, ConfigFrame

\* What a pass has established.
LEMMA ConfigPassKept ==
  ASSUME ConfigTypes, ConfigPass, [Next]_vars
  PROVE  ConfigPass'
<1>1. CASE UNCHANGED cfgW
  BY <1>1 DEF ConfigPass
<1>2. cfgW' = IdleConfig => ConfigPass'
  BY IdleConfigFields DEF ConfigPass
<1>3. CASE ReconcileConfig
  BY <1>1, <1>3, StartConfigFields DEF ConfigPass, FirstLookup
<1>4. CASE VerifySubscription \/ LookupSubscription
  <2>1. cfgW.made = None
    BY <1>4, LookupConfigFields DEF ConfigPass
  <2> QED
    BY <1>4, <2>1, LookupConfigFields DEF ConfigPass, SubLive, AnsweredID
<1>5. CASE CreateSubscription
  <2>1. cfgW.made = None /\ cfgW.obj.spec.id = None
    BY <1>5, CreateSubscriptionFields DEF ConfigPass
  <2> QED
    BY <1>5, <2>1, CreateSubscriptionFields, ProvisioningAssumption DEF ConfigPass, AnsweredID
<1>6. CASE SaveConfigStatus \/ ReportConfigError \/ Restart
  BY <1>2, <1>6, SaveConfigFields, ReportConfigFields DEF Restart
<1>7. CASE \/ SyncConfig \/ UserEditsConfig \/ UserDeletesConfig \/ UNCHANGED configVars
           \/ \E s \in SubscriptionIDs : SubscriptionCancelled(s)
  BY <1>1, <1>7, EditConfigFields, DeleteConfigFields, CancelFields
     DEF SyncConfig, workers, configVars
<1> QED
  BY <1>3, <1>4, <1>5, <1>6, <1>7, ConfigFrame

\* The copies of the config.
LEMMA ConfigFaithfulKept ==
  ASSUME ConfigTypes, ConfigFaithful, [Next]_vars
  PROVE  ConfigFaithful'
<1>1. /\ config.rv \in Nat /\ configCache.rv \in Nat /\ cfgW.obj.rv \in Nat
      /\ IdleConfig.pc = "idle"
  BY IdleConfigFields DEF ConfigTypes, Config, ConfigWorker
<1>2. CASE ReconcileConfig
  <2>1. UNCHANGED <<config, configCache>> /\ cfgW.pc = "idle"
    BY <1>2, StartConfigFields
  <2>2. cfgW' = cfgW \/ (cfgW'.obj = configCache /\ cfgW'.pc # "status")
    BY <1>2, StartConfigFields DEF FirstLookup
  <2> QED
    BY <2>1, <2>2 DEF ConfigFaithful
<1>3. CASE VerifySubscription \/ LookupSubscription
  BY <1>3, LookupConfigFields DEF ConfigFaithful
<1>4. CASE CreateSubscription
  BY <1>4, CreateSubscriptionFields DEF ConfigFaithful
<1>5. CASE SaveConfigStatus \/ ReportConfigError
  <2>1. configCache' = configCache /\ cfgW'.pc = "idle"
    BY <1>1, <1>5, SaveConfigFields, ReportConfigFields
  <2>2. config' = config \/ config'.rv = config.rv + 1
    BY <1>5, SaveConfigFields, ReportConfigFields
  <2> QED
    BY <1>1, <2>1, <2>2 DEF ConfigFaithful
<1>6. CASE SyncConfig
  BY <1>1, <1>6 DEF SyncConfig, servers, workers, ConfigFaithful
<1>7. CASE Restart
  BY <1>1, <1>7 DEF Restart, servers, ConfigFaithful
<1>8. CASE UserEditsConfig
  BY <1>1, <1>8, EditConfigFields DEF ConfigFaithful
<1>9. CASE UserDeletesConfig
  BY <1>9, DeleteConfigFields DEF ConfigFaithful
<1>10. CASE UNCHANGED configVars \/ \E s \in SubscriptionIDs : SubscriptionCancelled(s)
  BY <1>10, CancelFields DEF configVars, ConfigFaithful
<1> QED
  BY <1>2, <1>3, <1>4, <1>5, <1>6, <1>7, <1>8, <1>9, <1>10, ConfigFrame

\* A subscription is created once: what was created stays so.
LEMMA BornStable ==
  ASSUME ConfigTypes, [Next]_vars, NEW x \in SubscriptionIDs \union {None}, Born(x)
  PROVE  Born(x)'
<1>1. CASE CreateSubscription
  BY <1>1, CreateSubscriptionFields DEF Born, ConfigTypes
<1>2. CASE \E s \in SubscriptionIDs : SubscriptionCancelled(s)
  BY <1>2, CancelFields DEF OnlyEnds, Born
<1>3. subs' = subs => Born(x)'
  BY DEF Born
<1>4. \/ ReconcileConfig \/ VerifySubscription \/ LookupSubscription \/ SaveConfigStatus
      \/ ReportConfigError \/ SyncConfig \/ Restart \/ UserEditsConfig \/ UserDeletesConfig
      \/ UNCHANGED configVars
      => subs' = subs
  BY StartConfigFields, LookupConfigFields, SaveConfigFields, ReportConfigFields,
     EditConfigFields, DeleteConfigFields DEF SyncConfig, Restart, configVars
<1> QED
  BY <1>1, <1>2, <1>3, <1>4, ConfigFrame

\* What is recorded was created.
LEMMA RecordsBornKept ==
  ASSUME ConfigTypes, ConfigPass, RecordsBorn, [Next]_vars
  PROVE  RecordsBorn'
<1>1. /\ config.sub \in SubscriptionIDs \union {None}
      /\ configCache.sub \in SubscriptionIDs \union {None}
      /\ cfgW.obj.sub \in SubscriptionIDs \union {None}
      /\ cfgW.obj.spec.id \in SubscriptionIDs \union {None}
  BY DEF ConfigTypes, Config, ConfigSpec, ConfigWorker
<1>2. Born(config.sub) /\ Born(configCache.sub) /\ Born(cfgW.obj.sub)
  BY DEF RecordsBorn
<1>3. /\ \A x \in SubscriptionIDs \union {None} : Born(x) => (x # None => subs'[x] # "unborn")
      /\ \A x : SubLive(x) => Born(x)
  BY BornStable DEF Born, SubLive
<1> DEFINE copied(x) == x \in {config.sub, configCache.sub, cfgW.obj.sub, None}
           made(x) == x # None => subs'[x] # "unborn"
<1>4. \A x : copied(x) => made(x)
  BY <1>1, <1>2, <1>3
<1>5. made(config'.sub) /\ made(configCache'.sub) /\ made(cfgW'.obj.sub)
  <2>1. CASE ReconcileConfig
    BY <1>4, <2>1, StartConfigFields
  <2>2. CASE VerifySubscription \/ LookupSubscription
    BY <1>1, <1>3, <1>4, <2>2, LookupConfigFields DEF AnsweredID
  <2>3. CASE CreateSubscription
    <3>1. UNCHANGED <<config, configCache>>
      BY <2>3, CreateSubscriptionFields
    <3>2. made(cfgW'.obj.sub)
      BY <1>4, <2>3, CreateSubscriptionFields DEF ConfigTypes, AnsweredID
    <3> QED
      BY <1>4, <3>1, <3>2
  <2>4. CASE SaveConfigStatus \/ ReportConfigError
    BY <1>4, <2>4, SaveConfigFields, ReportConfigFields, IdleConfigFields
  <2>5. CASE SyncConfig
    BY <1>4, <2>5 DEF SyncConfig, servers, workers
  <2>6. CASE Restart
    BY <1>4, <2>6, IdleConfigFields DEF Restart, servers
  <2>7. CASE UserEditsConfig \/ UserDeletesConfig
    BY <1>4, <2>7, EditConfigFields, DeleteConfigFields
  <2>8. CASE UNCHANGED configVars \/ \E s \in SubscriptionIDs : SubscriptionCancelled(s)
    BY <1>4, <2>8, CancelFields DEF configVars
  <2> QED
    BY <2>1, <2>2, <2>3, <2>4, <2>5, <2>6, <2>7, <2>8, ConfigFrame
<1> QED
  BY <1>5 DEF RecordsBorn, Born

\* What a save replaces.
LEMMA ReplacesKept ==
  ASSUME ConfigTypes, ConfigPass, ConfigFaithful, RecordsBorn, Replaces, NamesNone, [Next]_vars
  PROVE  Replaces'
<1>1. /\ config.rv \in Nat /\ cfgW.obj.rv \in Nat
      /\ config.sub \in SubscriptionIDs \union {None}
      /\ subs \in [SubscriptionIDs -> {"unborn", "live", "gone"}]
  BY DEF ConfigTypes, Config, ConfigWorker
<1>2. cfgW' = IdleConfig => Replaces'
  BY IdleConfigFields DEF Replaces
<1>3. CASE ReconcileConfig
  <2>1. UNCHANGED <<subs, config>>
    BY <1>3, StartConfigFields
  <2>2. \/ cfgW' = cfgW
        \/ cfgW'.obj = configCache /\ cfgW'.pc \in {FirstLookup(configCache), "failed"}
    BY <1>3, StartConfigFields
  <2>3. CASE cfgW' = cfgW
    BY <2>1, <2>3 DEF Replaces, SubLive
  <2>4. CASE cfgW'.obj = configCache /\ cfgW'.pc \in {FirstLookup(configCache), "failed"}
    <3>1. cfgW'.pc # "status" /\ (cfgW'.pc = "create" => configCache.sub = None)
      BY <2>4 DEF FirstLookup
    <3> QED
      BY <2>1, <2>4, <3>1 DEF ConfigFaithful, Replaces, SubLive
  <2> QED
    BY <2>2, <2>3, <2>4
<1>4. CASE VerifySubscription \/ LookupSubscription
  <2>1. /\ UNCHANGED <<subs, config>> /\ cfgW'.obj.rv = cfgW.obj.rv
        /\ cfgW'.obj.spec = cfgW.obj.spec
    BY <1>4, LookupConfigFields
  <2>2. CASE cfgW.pc = "verify"
    <3>1. cfgW'.pc = "failed" \/ (cfgW'.pc = "status" /\ SubLive(cfgW.obj.spec.id))
      BY <1>4, <2>2, LookupConfigFields
    <3> QED
      BY <2>1, <3>1 DEF Replaces, SubLive
  <2>3. CASE cfgW.pc = "lookup" /\ cfgW'.pc = "status"
    <3>1. cfgW'.obj.sub = AnsweredID(cfgW.obj.sub) /\ SubLive(cfgW.obj.sub)
      BY <1>4, <2>3, LookupConfigFields
    <3>2. cfgW.obj.rv = config.rv => cfgW.obj.sub = config.sub /\ NestedAnswers
      BY <2>3, <3>1 DEF ConfigFaithful, NamesNone, SubLive
    <3> QED
      BY <2>1, <2>3, <3>1, <3>2 DEF Replaces, AnsweredID
  <2>4. CASE cfgW.pc = "lookup" /\ cfgW'.pc = "create"
    <3>1. cfgW'.missed \/ ~SubLive(cfgW.obj.sub)
      BY <1>4, <2>4, LookupConfigFields
    <3> QED
      BY <2>1, <2>4, <3>1 DEF ConfigFaithful, Replaces, SubLive
  <2> QED
    BY <1>4, <2>2, <2>3, <2>4, LookupConfigFields
<1>5. CASE CreateSubscription
  <2>1. UNCHANGED config /\ cfgW.pc = "create" /\ cfgW'.missed = cfgW.missed
        /\ cfgW'.obj.rv = cfgW.obj.rv /\ cfgW'.pc # "create"
    BY <1>5, CreateSubscriptionFields
  <2>2. ~SubLive(config.sub) => ~(config.sub # None /\ subs'[config.sub] = "live")
    BY <1>1, <1>5, CreateSubscriptionFields DEF RecordsBorn, Born, SubLive
  <2> QED
    BY <2>1, <2>2 DEF Replaces, SubLive
<1>6. CASE SaveConfigStatus \/ ReportConfigError \/ Restart
  BY <1>2, <1>6, SaveConfigFields, ReportConfigFields DEF Restart
<1>7. CASE UserEditsConfig
  BY <1>1, <1>7, EditConfigFields DEF ConfigFaithful, Replaces
<1>8. CASE UserDeletesConfig
  BY <1>8, DeleteConfigFields DEF Replaces, SubLive
<1>9. CASE \E s \in SubscriptionIDs : SubscriptionCancelled(s)
  BY <1>1, <1>9, CancelFields DEF OnlyEnds, Replaces, SubLive
<1>10. CASE SyncConfig \/ UNCHANGED configVars
  BY <1>10 DEF SyncConfig, servers, workers, configVars, Replaces, SubLive
<1> QED
  BY <1>3, <1>4, <1>5, <1>6, <1>7, <1>8, <1>9, <1>10, ConfigFrame

\* The condition's generation is one the config has had.
LEMMA ConditionsAtMostKept ==
  ASSUME ConfigTypes, ConfigFaithful, ConditionsAtMost, [Next]_vars
  PROVE  ConditionsAtMost'
<1>1. config.gen \in Nat /\ config.accGen \in Nat
  BY DEF ConfigTypes, Config
<1>2. CASE SaveConfigStatus \/ ReportConfigError
  <2>1. cfgW.pc # "idle"
    BY <1>2, SaveConfigFields, ReportConfigFields
  <2>2. \/ config' = config
        \/ /\ config.rv = cfgW.obj.rv /\ config'.accGen = cfgW.obj.gen
           /\ config'.gen = config.gen
    BY <1>2, SaveConfigFields, ReportConfigFields
  <2>3. CASE config' = config
    BY <2>3 DEF ConditionsAtMost
  <2>4. CASE /\ config.rv = cfgW.obj.rv /\ config'.accGen = cfgW.obj.gen
             /\ config'.gen = config.gen
    <3>1. config'.accGen = config'.gen /\ config'.gen \in Nat
      BY <1>1, <2>1, <2>4 DEF ConfigFaithful
    <3> QED
      BY <3>1 DEF ConditionsAtMost
  <2> QED
    BY <2>2, <2>3, <2>4
<1>3. CASE UserEditsConfig
  BY <1>1, <1>3, EditConfigFields DEF ConditionsAtMost
<1>4. CASE UserDeletesConfig
  BY <1>4, DeleteConfigFields DEF ConditionsAtMost
<1>5. config' = config => ConditionsAtMost'
  BY DEF ConditionsAtMost
<1>6. \/ ReconcileConfig \/ VerifySubscription \/ LookupSubscription \/ CreateSubscription
      \/ SyncConfig \/ Restart \/ UNCHANGED configVars
      \/ \E s \in SubscriptionIDs : SubscriptionCancelled(s)
      => config' = config
  BY StartConfigFields, LookupConfigFields, CreateSubscriptionFields, CancelFields
     DEF SyncConfig, Restart, servers, configVars
<1> QED
  BY <1>2, <1>3, <1>4, <1>5, <1>6, ConfigFrame

\* No step loses a subscription: a save lets go of what it replaces, a pass that
\* ends without its save of what it made.
LEMMA SubscriptionsAccountedKept ==
  ASSUME ConfigTypes, ConfigPass, ConfigFaithful, Replaces, SubscriptionsAccounted, [Next]_vars
  PROVE  SubscriptionsAccounted'
<1> SUFFICES ASSUME NEW s \in SubscriptionIDs \ External,
                    subs'[s] = "live", s \notin dropped'
             PROVE  (config'.phase = "live" /\ config'.sub = s) \/ cfgW'.made = s
  BY DEF SubscriptionsAccounted
<1>1. s # None
  BY ProvisioningAssumption
<1>2. ASSUME subs[s] = "live", s \notin dropped
      PROVE  (config.phase = "live" /\ config.sub = s) \/ cfgW.made = s
  BY <1>2 DEF SubscriptionsAccounted
<1>3. CASE ReconcileConfig
  BY <1>1, <1>2, <1>3, StartConfigFields DEF ConfigPass
<1>4. CASE VerifySubscription \/ LookupSubscription
  BY <1>2, <1>4, LookupConfigFields
<1>5. CASE CreateSubscription
  <2>1. UNCHANGED config /\ cfgW.made = None
    BY <1>5, CreateSubscriptionFields DEF ConfigPass
  <2>2. (subs[s] = "live" /\ s \notin dropped) \/ cfgW'.made = s
    BY <1>5, CreateSubscriptionFields DEF ConfigTypes, AnsweredID
  <2> QED
    BY <1>1, <1>2, <2>1, <2>2
<1>6. CASE SaveConfigStatus
  <2>1. UNCHANGED subs /\ cfgW.pc = "status"
    BY <1>6, SaveConfigFields
  <2>2. CASE UNCHANGED config /\ dropped' = dropped \union ({cfgW.made} \ {None})
    BY <1>1, <1>2, <2>1, <2>2
  <2>3. CASE /\ config.phase = "live" /\ config.rv = cfgW.obj.rv
             /\ config'.sub = cfgW.obj.sub /\ config'.phase = config.phase
             /\ dropped' = dropped \union LetGo
    <3>1. CASE cfgW.made = s
      BY <1>1, <2>1, <2>3, <3>1 DEF ConfigPass
    <3>2. CASE config.sub = s
      <4>1. SubLive(s)
        BY <1>1, <2>1 DEF SubLive
      <4>2. cfgW.obj.sub = s \/ s \in LetGo
        BY <1>1, <2>1, <2>3, <3>2, <4>1 DEF Replaces, LetGo
      <4> QED
        BY <2>3, <4>2
    <3> QED
      BY <1>2, <2>1, <2>3, <3>1, <3>2
  <2> QED
    BY <1>6, <2>2, <2>3, SaveConfigFields
<1>7. CASE ReportConfigError
  <2>1. UNCHANGED <<subs, dropped>> /\ cfgW.made = None /\ cfgW.pc = "failed"
    BY <1>7, ReportConfigFields DEF ConfigPass
  <2>2. config'.phase = config.phase /\ config'.sub = config.sub
    BY <1>7, <2>1, ReportConfigFields DEF ConfigFaithful
  <2> QED
    BY <1>1, <1>2, <2>1, <2>2
<1>8. CASE Restart
  BY <1>1, <1>2, <1>8 DEF Restart, servers
<1>9. CASE UserEditsConfig
  BY <1>2, <1>9, EditConfigFields
<1>10. CASE UserDeletesConfig
  BY <1>1, <1>2, <1>10, DeleteConfigFields
<1>11. CASE \E x \in SubscriptionIDs : SubscriptionCancelled(x)
  BY <1>2, <1>11, CancelFields DEF OnlyEnds
<1>12. CASE SyncConfig \/ UNCHANGED configVars
  BY <1>2, <1>12 DEF SyncConfig, servers, workers, configVars
<1> QED
  BY <1>3, <1>4, <1>5, <1>6, <1>7, <1>8, <1>9, <1>10, <1>11, <1>12, ConfigFrame

\* A condition is written on the version it was decided on, or is out of date.
LEMMA AcceptedNamesKept ==
  ASSUME NestedAnswers, ConfigTypes, ConfigPass, ConfigFaithful, ConditionsAtMost, AcceptedNamesSubscription,
         [Next]_vars
  PROVE  AcceptedNamesSubscription'
<1>1. config' = config => AcceptedNamesSubscription'
  BY DEF AcceptedNamesSubscription
<1>2. CASE SaveConfigStatus
  <2>1. CASE /\ config.rv = cfgW.obj.rv
             /\ config'.sub = cfgW.obj.sub /\ config'.spec = config.spec
    <3>1. cfgW.pc = "status" /\ cfgW.obj.spec = config.spec
      BY <1>2, <2>1, SaveConfigFields DEF ConfigFaithful
    <3> QED
      BY <2>1, <3>1 DEF ConfigPass, AcceptedNamesSubscription
  <2> QED
    BY <1>1, <1>2, <2>1, SaveConfigFields
<1>3. CASE ReportConfigError
  BY <1>1, <1>3, ReportConfigFields DEF AcceptedNamesSubscription
<1>4. CASE UserEditsConfig
  <2>1. config.gen \in Nat /\ config.accGen \in Nat
    BY DEF ConfigTypes, Config
  <2> QED
    BY <1>4, <2>1, EditConfigFields DEF ConditionsAtMost, AcceptedNamesSubscription
<1>5. CASE UserDeletesConfig
  BY <1>5, DeleteConfigFields DEF AcceptedNamesSubscription
<1>6. \/ ReconcileConfig \/ VerifySubscription \/ LookupSubscription \/ CreateSubscription
      \/ SyncConfig \/ Restart \/ UNCHANGED configVars
      \/ \E s \in SubscriptionIDs : SubscriptionCancelled(s)
      => config' = config
  BY StartConfigFields, LookupConfigFields, CreateSubscriptionFields, CancelFields
     DEF SyncConfig, Restart, servers, configVars
<1> QED
  BY <1>1, <1>2, <1>3, <1>4, <1>5, <1>6, ConfigFrame

\* Only a save records a subscription.
LEMMA NamesNoneKept ==
  ASSUME ConfigTypes, ConfigPass, ConfigFaithful, NamesNone, [Next]_vars
  PROVE  NamesNone'
<1>1. config'.sub = config.sub => NamesNone'
  BY DEF NamesNone
<1>2. CASE SaveConfigStatus
  BY <1>1, <1>2, SaveConfigFields DEF ConfigPass, NamesNone
<1>3. CASE ReportConfigError
  BY <1>1, <1>3, ReportConfigFields DEF ConfigFaithful
<1>4. CASE UserEditsConfig \/ UserDeletesConfig
  BY <1>1, <1>4, EditConfigFields, DeleteConfigFields
<1>5. \/ ReconcileConfig \/ VerifySubscription \/ LookupSubscription \/ CreateSubscription
      \/ SyncConfig \/ Restart \/ UNCHANGED configVars
      \/ \E s \in SubscriptionIDs : SubscriptionCancelled(s)
      => config' = config
  BY StartConfigFields, LookupConfigFields, CreateSubscriptionFields, CancelFields
     DEF SyncConfig, Restart, servers, configVars
<1> QED
  BY <1>1, <1>2, <1>3, <1>4, <1>5, ConfigFrame

\* At the start nothing is recorded.
LEMMA ConfigInit ==
  ASSUME Init
  PROVE  ConfigInv
<1>1. PICK spec \in ConfigSpecs :
         config = [NoConfig EXCEPT !.phase = "live", !.gen = 1, !.rv = 1, !.spec = spec]
  BY DEF Init
<1>2. spec \in ConfigSpec /\ External \subseteq SubscriptionIDs
  BY ProvisioningAssumption
<1>3. /\ config \in Config /\ config.phase = "live" /\ config.gen = 1 /\ config.rv = 1
      /\ config.sub = None /\ config.acc = "none" /\ config.accGen = 0
  BY <1>1, <1>2 DEF NoConfig, Config, Acceptance
<1>4. configCache = NoConfig /\ cfgW = IdleConfig /\ dropped = {}
  BY DEF Init
<1>5. subs = [s \in SubscriptionIDs |-> IF s \in External THEN "live" ELSE "unborn"]
  BY DEF Init
<1>6. ConfigTypes
  BY <1>3, <1>4, <1>5, IdleConfigFields DEF ConfigTypes
<1>7. ConfigPass /\ ConfigFaithful /\ RecordsBorn /\ Replaces
  BY <1>3, <1>4, IdleConfigFields DEF ConfigPass, ConfigFaithful, RecordsBorn, Born, Replaces
<1>8. ConditionsAtMost /\ NamesNone /\ AcceptedNamesSubscription
  BY <1>3 DEF ConditionsAtMost, NamesNone, AcceptedNamesSubscription
<1>9. SubscriptionsAccounted
  BY <1>5 DEF SubscriptionsAccounted
<1> QED
  BY <1>6, <1>7, <1>8, <1>9 DEF ConfigInv

\* The inductive invariant of the config controller.
LEMMA ConfigInductive == Spec => []ConfigInv
<1>1. Init => ConfigInv
  BY ConfigInit
<1>2. ConfigInv /\ [Next]_vars => ConfigInv'
  <2> SUFFICES ASSUME ConfigInv, [Next]_vars
               PROVE  ConfigInv'
    OBVIOUS
  <2>1. /\ ConfigTypes /\ ConfigPass /\ ConfigFaithful /\ RecordsBorn /\ Replaces /\ NamesNone
        /\ ConditionsAtMost /\ SubscriptionsAccounted
        /\ NestedAnswers => AcceptedNamesSubscription
    BY DEF ConfigInv
  <2>2. ConfigTypes' /\ ConfigPass' /\ ConfigFaithful' /\ RecordsBorn'
    BY <2>1, ConfigTypesKept, ConfigPassKept, ConfigFaithfulKept, RecordsBornKept
  <2>3. Replaces' /\ ConditionsAtMost' /\ NamesNone'
    BY <2>1, ReplacesKept, ConditionsAtMostKept, NamesNoneKept
  <2>4. SubscriptionsAccounted' /\ (NestedAnswers => AcceptedNamesSubscription')
    BY <2>1, SubscriptionsAccountedKept, AcceptedNamesKept
  <2> QED
    BY <2>2, <2>3, <2>4 DEF ConfigInv
<1> QED
  BY <1>1, <1>2, PTL DEF Spec

\* No subscription the controller made is lost without a failed call, a lost save,
\* an answer in which the client finds no identifier or a user's deletion, and it is never replaced behind the back of one that is
\* recorded and there (sakuragatewayconfig_controller.go:137-163).
THEOREM SubscriptionsKept == Spec => []SubscriptionsAccounted
<1>1. ConfigInv => SubscriptionsAccounted
  BY DEF ConfigInv
<1> QED
  BY <1>1, ConfigInductive, PTL

\* Accepted at its generation means: with the subscription this generation of the
\* spec asks for, however old the copy the pass began with
\* (sakuragatewayconfig_controller.go:42, :125-135), if the API nests its answers as
\* the client decodes them (types.go:13-18).  With the flat answers of
\* docs/sakura-apigw-api-spec.md:68-88 a config is accepted without a subscription.
THEOREM AcceptedNamesItsSubscription ==
  ASSUME NestedAnswers
  PROVE  Spec => []AcceptedNamesSubscription
<1>1. ConfigInv => AcceptedNamesSubscription
  BY DEF ConfigInv
<1> QED
  BY <1>1, ConfigInductive, PTL

----------------------------------------------------------------------------
(* The class controller: types only.                                         *)

ClassTypes == class \in Class /\ classCache \in Class /\ classW \in ClassWorker

\* Types.
LEMMA ClassTypesKept ==
  ASSUME ClassTypes, [Next]_vars
  PROVE  ClassTypes'
<1>1. NoClass \in Class /\ IdleClass \in ClassWorker
  BY DEF NoClass, Class, Acceptance, IdleClass, ClassWorker
<1>2. ASSUME NEW acc \in {"True", "False"}, PutClassStatus(acc)
      PROVE  class' \in Class
  <2>1. class \in Class /\ acc \in Acceptance
    BY DEF ClassTypes, Acceptance
  <2>2. class.rv + 1 \in Nat
    BY <2>1 DEF Class
  <2>3. class' = IF class.acc = acc THEN class ELSE [class EXCEPT !.acc = acc, !.rv = class.rv + 1]
    BY <1>2 DEF PutClassStatus
  <2>4. CASE class' = [class EXCEPT !.acc = acc, !.rv = class.rv + 1]
    BY <2>1, <2>2, <2>4 DEF Class
  <2> QED
    BY <2>1, <2>3, <2>4
<1>3. CASE ReconcileClass
  <2>1. UNCHANGED <<class, classCache>>
    BY <1>3 DEF ReconcileClass, ClassRest, caches
  <2>2. classW' \in ClassWorker
    BY <1>3 DEF ReconcileClass, ClassTypes, ClassWorker
  <2> QED
    BY <2>1, <2>2 DEF ClassTypes
<1>4. CASE AcceptClass \/ RefuseClass
  <2>1. UNCHANGED classCache /\ classW' = IdleClass
    BY <1>4 DEF AcceptClass, RefuseClass, ClassRest, caches
  <2>2. UNCHANGED class \/ PutClassStatus("True") \/ PutClassStatus("False")
    BY <1>4 DEF AcceptClass, RefuseClass
  <2> QED
    BY <1>1, <1>2, <2>1, <2>2 DEF ClassTypes
<1>5. CASE SyncClass
  BY <1>5 DEF SyncClass, servers, workers, ClassTypes
<1>6. CASE Restart
  BY <1>1, <1>6 DEF Restart, servers, ClassTypes
<1>7. CASE UserDeletesClass
  BY <1>7 DEF UserDeletesClass, ElseUnchanged, caches, workers, ClassTypes, Class
<1>8. CASE UNCHANGED classVars
  BY <1>8 DEF classVars, ClassTypes
<1> QED
  BY <1>3, <1>4, <1>5, <1>6, <1>7, <1>8, ClassFrame

----------------------------------------------------------------------------
(* The Gateway controller.                                                   *)

GatewayTypes ==
    /\ gw \in [Gateways -> Gateway] /\ gwCache \in [Gateways -> Gateway]
    /\ secret \subseteq Gateways /\ secretCache \subseteq Gateways
    /\ gwW \in GatewayWorker
    /\ gwW.pc # "idle" => gwW.g \in Gateways
    /\ gwW.pc \in {"annotate", "secret", "status"} => gwW.sub # None

\* Copies of a Gateway are older or the same, and what they have seen is final:
\* its end, and that it has an annotation.
GatewayFaithful ==
    /\ \A g \in Gateways :
          /\ gw[g].phase # "new"
          /\ gwCache[g].rv <= gw[g].rv
          /\ gwCache[g].rv = gw[g].rv => gwCache[g].sub = gw[g].sub
          /\ gwCache[g].phase = "gone" => gw[g].phase = "gone"
          /\ gwCache[g].sub # None => gw[g].sub # None
    /\ gwW.pc # "idle" =>
          /\ gwW.obj.rv <= gw[gwW.g].rv
          /\ gwW.obj.rv = gw[gwW.g].rv => gwW.obj.sub = gw[gwW.g].sub

GatewayInv == GatewayTypes /\ GatewayFaithful

\* A Gateway after a write.
Written(g, o) ==
    /\ o \in Gateway /\ o.phase # "new"
    /\ o = gw[g] \/ o.rv = gw[g].rv + 1
    /\ gw[g].sub # None => o.sub # None

\* What a step does to the Gateways: those that are gone stay as they are.
GatewaysMove ==
    /\ gw' \in [Gateways -> Gateway]
    /\ \A g \in Gateways : \/ gw'[g] = gw[g]
                           \/ /\ gw[g].phase = "live" /\ gw'[g].phase # "new"
                              /\ gw'[g].rv = gw[g].rv + 1
                              /\ gw[g].sub # None => gw'[g].sub # None

\* The worker at rest.
LEMMA IdleGatewayFields ==
  /\ IdleGateway \in GatewayWorker /\ NoGateway \in Gateway
  /\ IdleGateway.pc = "idle" /\ IdleGateway.obj = NoGateway
  /\ NoGateway.sub = None /\ NoGateway.rv = 0 /\ NoGateway.phase = "new"
<1>1. NoGateway \in Gateway
  BY DEF NoGateway, Gateway, Acceptance
<1> QED
  BY <1>1 DEF IdleGateway, GatewayWorker, NoGateway

\* A write that changes something is a new version, and may be the last one.
LEMMA BumpedFields ==
  ASSUME NEW old \in Gateway, old.phase = "live",
         NEW new \in Gateway, new.rv = old.rv, new.phase = old.phase
  PROVE  /\ Bumped(old, new) \in Gateway /\ Bumped(old, new).sub = new.sub
         /\ Bumped(old, new).phase # "new"
         /\ Bumped(old, new) = old \/ Bumped(old, new).rv = old.rv + 1
<1> DEFINE phase == IF new.deleting /\ ~new.finalizer THEN "gone" ELSE new.phase
           rv == new.rv + 1
           b == [new EXCEPT !.rv = rv, !.phase = phase]
<1>1. rv \in Nat /\ rv = old.rv + 1 /\ phase \in {"live", "gone"}
  BY DEF Gateway
<1>2. Bumped(old, new) = IF new = old THEN old ELSE b
  BY DEF Bumped
<1> HIDE DEF phase, rv
<1>3. b \in Gateway /\ b.sub = new.sub /\ b.phase = phase /\ b.rv = rv
  BY <1>1 DEF Gateway
<1> HIDE DEF b
<1> QED
  BY <1>1, <1>2, <1>3

\* The writes of the controller and of users.
LEMMA GatewayWrites ==
  ASSUME GatewayTypes, NEW g \in Gateways, gw[g].phase = "live"
  PROVE  /\ \A finalizer \in BOOLEAN, sub \in SubscriptionIDs \union {None} :
               (gw[g].sub # None => sub # None)
                  => Written(g, Bumped(gw[g], [gw[g] EXCEPT !.finalizer = finalizer, !.sub = sub]))
         /\ \A acc \in Acceptance : Written(g, Bumped(gw[g], [gw[g] EXCEPT !.acc = acc]))
         /\ Written(g, Bumped(gw[g], [gw[g] EXCEPT !.deleting = TRUE]))
<1> DEFINE old == gw[g]
<1>1. old \in Gateway /\ old.phase = "live"
  BY DEF GatewayTypes
<1> HIDE DEF old
<1>2. ASSUME NEW finalizer \in BOOLEAN, NEW sub \in SubscriptionIDs \union {None},
             old.sub # None => sub # None
      PROVE  Written(g, Bumped(old, [old EXCEPT !.finalizer = finalizer, !.sub = sub]))
  <2> DEFINE new == [old EXCEPT !.finalizer = finalizer, !.sub = sub]
  <2>1. new \in Gateway /\ new.rv = old.rv /\ new.phase = old.phase /\ new.sub = sub
    BY <1>1 DEF Gateway
  <2> HIDE DEF new
  <2>2. Written(g, Bumped(old, new))
    BY <1>1, <1>2, <2>1, BumpedFields DEF Written, old
  <2> QED
    BY <2>2 DEF new
<1>3. ASSUME NEW acc \in Acceptance
      PROVE  Written(g, Bumped(old, [old EXCEPT !.acc = acc]))
  <2> DEFINE new == [old EXCEPT !.acc = acc]
  <2>1. new \in Gateway /\ new.rv = old.rv /\ new.phase = old.phase /\ new.sub = old.sub
    BY <1>1 DEF Gateway
  <2> HIDE DEF new
  <2>2. Written(g, Bumped(old, new))
    BY <1>1, <2>1, BumpedFields DEF Written, old
  <2> QED
    BY <2>2 DEF new
<1>4. Written(g, Bumped(old, [old EXCEPT !.deleting = TRUE]))
  <2> DEFINE new == [old EXCEPT !.deleting = TRUE]
  <2>1. new \in Gateway /\ new.rv = old.rv /\ new.phase = old.phase /\ new.sub = old.sub
    BY <1>1 DEF Gateway
  <2> HIDE DEF new
  <2>2. Written(g, Bumped(old, new))
    BY <1>1, <2>1, BumpedFields DEF Written, old
  <2> QED
    BY <2>2 DEF new
<1> QED
  BY <1>2, <1>3, <1>4 DEF old

\* One written Gateway is a move of the Gateways.
LEMMA WrittenMoves ==
  ASSUME GatewayTypes, NEW g \in Gateways, gw[g].phase = "live", NEW o, Written(g, o),
         gw' = [gw EXCEPT ![g] = o]
  PROVE  GatewaysMove /\ gw'[g] = o
BY DEF GatewayTypes, Written, GatewaysMove

\* What a step does to the Gateway worker: it keeps what it read, or what it has
\* now is the cached copy or what it has just written.
WorkerMoves ==
    /\ gwW' \in GatewayWorker
    /\ gwW'.pc # "idle" =>
          /\ gwW'.g \in Gateways
          /\ gwW'.pc \in {"annotate", "secret", "status"} => gwW'.sub # None
          /\ \/ gwW.pc # "idle" /\ gwW'.g = gwW.g /\ gwW'.obj = gwW.obj
             \/ gwW'.obj = gwCache[gwW'.g] /\ gw' = gw
             \/ gwW'.obj = gw'[gwW'.g]

\* What a step does to the informer's copies.
CopiesMove ==
    /\ gwCache' \in [Gateways -> Gateway]
    /\ secret' \subseteq Gateways /\ secretCache' \subseteq Gateways
    /\ \A g \in Gateways : gwCache'[g] = gwCache[g] \/ gwCache'[g] = gw'[g]

\* A pass that ends.
LEMMA PassEnds ==
  ASSUME gwW' = IdleGateway
  PROVE  WorkerMoves
BY IdleGatewayFields DEF WorkerMoves

\* A pass that is not concerned.
LEMMA PassStays ==
  ASSUME GatewayTypes, gwW' = gwW
  PROVE  WorkerMoves
BY DEF GatewayTypes, WorkerMoves

\* Gateways that are not concerned.
LEMMA GatewaysStay ==
  ASSUME GatewayTypes, gw' = gw
  PROVE  GatewaysMove
BY DEF GatewayTypes, GatewaysMove

\* An Update and what follows.
LEMMA UpdateMoves ==
  ASSUME GatewayTypes, gwW.pc # "idle",
         NEW o, FreshGateway => Written(gwW.g, o),
         NEW next \in {"idle", "resolve", "secret", "status"},
         next \in {"secret", "status"} => gwW.sub # None,
         UpdateGateway(o, next)
  PROVE  GatewaysMove /\ WorkerMoves
<1>1. gwW.g \in Gateways /\ gwW \in GatewayWorker
  BY DEF GatewayTypes
<1>2. ASSUME FreshGateway, PutGateway(o)
      PROVE  GatewaysMove /\ gw'[gwW.g] = o /\ o \in Gateway
  <2>1. gw[gwW.g].phase = "live" /\ Written(gwW.g, o) /\ gw' = [gw EXCEPT ![gwW.g] = o]
    BY <1>2 DEF FreshGateway, PutGateway
  <2> QED
    BY <1>1, <2>1, WrittenMoves DEF Written
<1>3. CASE /\ FreshGateway /\ PutGateway(o)
           /\ gwW' = IF next = "idle" THEN IdleGateway ELSE [gwW EXCEPT !.obj = o, !.pc = next]
  <2>1. GatewaysMove /\ gw'[gwW.g] = o /\ o \in Gateway
    BY <1>2, <1>3
  <2>2. CASE next = "idle"
    BY <1>3, <2>1, <2>2, PassEnds
  <2>3. CASE next # "idle"
    <3>1. /\ gwW' \in GatewayWorker /\ gwW'.g = gwW.g /\ gwW'.obj = o /\ gwW'.pc = next
          /\ gwW'.sub = gwW.sub
      BY <1>1, <1>3, <2>1, <2>3 DEF GatewayWorker
    <3> QED
      BY <1>1, <2>1, <3>1 DEF WorkerMoves
  <2> QED
    BY <2>2, <2>3
<1>4. CASE GiveUpGateway /\ (UNCHANGED gw \/ (FreshGateway /\ PutGateway(o)))
  <2>1. WorkerMoves
    BY <1>4, PassEnds DEF GiveUpGateway
  <2> QED
    BY <1>2, <1>4, <2>1, GatewaysStay
<1> QED
  BY <1>3, <1>4 DEF UpdateGateway

\* The object that is saved has the annotation the Gateway has.
LEMMA FreshSub ==
  ASSUME GatewayInv, gwW.pc # "idle", FreshGateway
  PROVE  /\ gwW.g \in Gateways /\ gw[gwW.g].phase = "live"
         /\ gwW.obj.sub \in SubscriptionIDs \union {None}
         /\ gwW.obj.sub = gw[gwW.g].sub
<1>1. gwW.g \in Gateways /\ gwW.obj \in Gateway
  BY DEF GatewayInv, GatewayTypes, GatewayWorker
<1> QED
  BY <1>1 DEF GatewayInv, GatewayFaithful, FreshGateway, Gateway

\* The steps of a pass.
LEMMA GatewayStepMoves ==
  ASSUME ConfigTypes, GatewayInv, GatewayStep
  PROVE  /\ GatewaysMove /\ WorkerMoves
         /\ UNCHANGED <<gwCache, secretCache>> /\ secret' \subseteq Gateways
<1>1. GatewayTypes
  BY DEF GatewayInv
<1>2. gwW \in GatewayWorker /\ gwW.sub \in SubscriptionIDs \union {None}
  BY <1>1 DEF GatewayTypes, GatewayWorker
<1>3. UNCHANGED <<gwCache, secretCache>>
  BY DEF GatewayStep, AddGatewayFinalizer, ResolveConfig, AnnotateGateway, EnsureSecret,
     AcceptGateway, RejectGateway, RemoveGatewayFinalizer, GatewayRest, caches
<1>4. secret' \subseteq Gateways
  <2>1. CASE EnsureSecret
    BY <1>1, <2>1 DEF EnsureSecret, GatewayTypes
  <2>2. ~EnsureSecret => secret' = secret
    BY DEF GatewayStep, AddGatewayFinalizer, ResolveConfig, AnnotateGateway, AcceptGateway,
       RejectGateway, RemoveGatewayFinalizer
  <2> QED
    BY <1>1, <2>1, <2>2 DEF GatewayTypes
<1>5. CASE AddGatewayFinalizer
  <2>1. gwW.pc # "idle" /\ UpdateGateway(GatewayMeta(TRUE, gwW.obj.sub), "resolve")
    BY <1>5 DEF AddGatewayFinalizer
  <2>2. FreshGateway => Written(gwW.g, GatewayMeta(TRUE, gwW.obj.sub))
    BY <1>1, <2>1, FreshSub, GatewayWrites DEF GatewayMeta
  <2>3. GatewaysMove /\ WorkerMoves
    BY <1>1, <2>1, <2>2, UpdateMoves
  <2> QED
    BY <1>3, <1>4, <2>3
<1>6. CASE RemoveGatewayFinalizer
  <2>1. gwW.pc # "idle" /\ UpdateGateway(Released, "idle")
    BY <1>6 DEF RemoveGatewayFinalizer
  <2>2. FreshGateway => Written(gwW.g, Released)
    BY <1>1, <2>1, FreshSub, GatewayWrites DEF GatewayMeta, Released
  <2>3. GatewaysMove /\ WorkerMoves
    BY <1>1, <2>1, <2>2, UpdateMoves
  <2> QED
    BY <1>3, <1>4, <2>3
<1>7. CASE AnnotateGateway
  <2>1. /\ gwW.pc = "annotate"
        /\ UpdateGateway(GatewayMeta(TRUE, gwW.sub), IF gwW.verify THEN "secret" ELSE "status")
    BY <1>7 DEF AnnotateGateway
  <2>2. gwW.sub # None
    BY <1>1, <2>1 DEF GatewayTypes
  <2>3. FreshGateway => Written(gwW.g, GatewayMeta(TRUE, gwW.sub))
    BY <1>1, <1>2, <2>1, <2>2, FreshSub, GatewayWrites DEF GatewayMeta
  <2>4. GatewaysMove /\ WorkerMoves
    BY <1>1, <2>1, <2>2, <2>3, UpdateMoves
  <2> QED
    BY <1>3, <1>4, <2>4
<1>8. CASE AcceptGateway
  <2>1. gwW.pc # "idle" /\ UpdateGateway(GatewayStatus("True"), "idle")
    BY <1>8 DEF AcceptGateway
  <2>2. FreshGateway => Written(gwW.g, GatewayStatus("True"))
    BY <1>1, <2>1, FreshSub, GatewayWrites DEF GatewayStatus, Acceptance
  <2>3. GatewaysMove /\ WorkerMoves
    BY <1>1, <2>1, <2>2, UpdateMoves
  <2> QED
    BY <1>3, <1>4, <2>3
<1>9. CASE RejectGateway
  <2>1. WorkerMoves
    BY <1>9, PassEnds DEF RejectGateway, GiveUpGateway
  <2>2. gwW.pc # "idle" /\ (UNCHANGED gw \/ (FreshGateway /\ PutGateway(Rejected)))
    BY <1>9 DEF RejectGateway
  <2>3. ASSUME FreshGateway, PutGateway(Rejected)
        PROVE  GatewaysMove
    <3>1. gwW.g \in Gateways /\ gw[gwW.g].phase = "live"
      BY <2>2, <2>3, FreshSub
    <3>2. Written(gwW.g, Rejected)
      BY <1>1, <3>1, GatewayWrites DEF Rejected, GatewayStatus, Acceptance
    <3> QED
      BY <1>1, <2>3, <3>1, <3>2, WrittenMoves DEF PutGateway
  <2> QED
    BY <1>1, <1>3, <1>4, <2>1, <2>2, <2>3, GatewaysStay
<1>10. CASE ResolveConfig
  <2>1. gw' = gw /\ gwW.pc = "resolve" /\ gwW.g \in Gateways
    BY <1>1, <1>10 DEF ResolveConfig, GatewayTypes
  <2>2. \/ /\ configCache.sub # None
           /\ gwW' = [gwW EXCEPT !.pc = "annotate", !.sub = configCache.sub,
                                 !.verify = configCache.spec.verify]
        \/ gwW' = [gwW EXCEPT !.pc = "reject"]
    BY <1>10 DEF ResolveConfig
  <2>3. /\ configCache.sub \in SubscriptionIDs \union {None}
        /\ configCache.spec.verify \in BOOLEAN
    BY DEF ConfigTypes, Config, ConfigSpec
  <2>4. /\ gwW' \in GatewayWorker /\ gwW'.g = gwW.g /\ gwW'.obj = gwW.obj
        /\ \/ gwW'.pc = "annotate" /\ gwW'.sub # None
           \/ gwW'.pc = "reject"
    BY <1>2, <2>2, <2>3 DEF GatewayWorker
  <2>5. WorkerMoves
    BY <2>1, <2>4 DEF WorkerMoves
  <2> QED
    BY <1>1, <1>3, <1>4, <2>1, <2>5, GatewaysStay
<1>11. CASE EnsureSecret
  <2>1. gw' = gw /\ gwW.pc = "secret" /\ gwW.g \in Gateways /\ gwW.sub # None
    BY <1>1, <1>11 DEF EnsureSecret, GatewayTypes
  <2>2. gwW' \in GatewayWorker /\ gwW'.g = gwW.g /\ gwW'.obj = gwW.obj /\ gwW'.sub = gwW.sub
    BY <1>2, <1>11 DEF EnsureSecret, GatewayWorker
  <2>3. WorkerMoves
    BY <2>1, <2>2 DEF WorkerMoves
  <2> QED
    BY <1>1, <1>3, <1>4, <2>1, <2>3, GatewaysStay
<1> QED
  BY <1>5, <1>6, <1>7, <1>8, <1>9, <1>10, <1>11 DEF GatewayStep

\* A pass starts from the cache.
LEMMA ReconcileGatewayMoves ==
  ASSUME ClassTypes, GatewayTypes, NEW g \in Gateways, ReconcileGateway(g)
  PROVE  GatewaysMove /\ WorkerMoves /\ UNCHANGED <<gwCache, secret, secretCache>>
<1>1. gw' = gw /\ UNCHANGED <<gwCache, secret, secretCache>>
  BY DEF ReconcileGateway, GatewayRest, caches
<1>2. gwCache[g] \in Gateway /\ classCache.ref \in {"config", "none"}
  BY DEF GatewayTypes, ClassTypes, Class
<1>3. ASSUME NEW pc \in {"removeFinalizer", "resolve", "finalizer"},
             gwW' = [IdleGateway EXCEPT !.pc = pc, !.g = g, !.obj = gwCache[g],
                                        !.ref = classCache.ref]
      PROVE  WorkerMoves
  <2>1. IdleGateway \in GatewayWorker
    BY IdleGatewayFields
  <2>2. /\ gwW' \in GatewayWorker /\ gwW'.pc = pc /\ gwW'.g = g /\ gwW'.obj = gwCache[g]
    BY <1>2, <1>3, <2>1 DEF GatewayWorker
  <2> QED
    BY <1>1, <2>2 DEF WorkerMoves
<1>4. UNCHANGED gwW \/ \E pc \in {"removeFinalizer", "resolve", "finalizer"} :
         gwW' = [IdleGateway EXCEPT !.pc = pc, !.g = g, !.obj = gwCache[g],
                                    !.ref = classCache.ref]
  BY DEF ReconcileGateway
<1> QED
  BY <1>1, <1>3, <1>4, GatewaysStay, PassStays

\* Every step: the Gateways, their copies and the worker.
LEMMA GatewaySteps ==
  ASSUME ConfigTypes, ClassTypes, GatewayInv, [Next]_vars
  PROVE  GatewaysMove /\ WorkerMoves /\ CopiesMove
<1>1. GatewayTypes
  BY DEF GatewayInv
<1>2. UNCHANGED <<gwCache, secretCache>> /\ secret' \subseteq Gateways => CopiesMove
  BY <1>1 DEF GatewayTypes, CopiesMove
<1>3. UNCHANGED <<gw, gwW>> => GatewaysMove /\ WorkerMoves
  BY <1>1, GatewaysStay, PassStays
<1>4. CASE \/ AddGatewayFinalizer \/ ResolveConfig \/ AnnotateGateway \/ EnsureSecret
           \/ AcceptGateway \/ RejectGateway \/ RemoveGatewayFinalizer
  BY <1>2, <1>4, GatewayStepMoves DEF GatewayStep
<1>5. ASSUME NEW g \in Gateways, ReconcileGateway(g)
      PROVE  GatewaysMove /\ WorkerMoves /\ CopiesMove
  BY <1>1, <1>2, <1>5, ReconcileGatewayMoves DEF GatewayTypes
<1>6. ASSUME NEW g \in Gateways, SyncGateway(g)
      PROVE  GatewaysMove /\ WorkerMoves /\ CopiesMove
  <2>1. UNCHANGED <<gw, gwW, secret, secretCache>> /\ gwCache' = [gwCache EXCEPT ![g] = gw[g]]
    BY <1>6 DEF SyncGateway, servers, workers
  <2>2. CopiesMove
    BY <1>1, <2>1 DEF GatewayTypes, CopiesMove
  <2> QED
    BY <1>3, <2>1, <2>2
<1>7. ASSUME NEW g \in Gateways, SyncSecret(g)
      PROVE  GatewaysMove /\ WorkerMoves /\ CopiesMove
  <2>1. UNCHANGED <<gw, gwW, secret, gwCache>> /\ secretCache' \subseteq Gateways
    BY <1>1, <1>7 DEF SyncSecret, servers, workers, GatewayTypes
  <2>2. CopiesMove
    BY <1>1, <2>1 DEF GatewayTypes, CopiesMove
  <2> QED
    BY <1>3, <2>1, <2>2
<1>8. ASSUME NEW g \in Gateways, GarbageCollect(g) \/ UserDeletesSecret(g)
      PROVE  GatewaysMove /\ WorkerMoves /\ CopiesMove
  <2>1. UNCHANGED <<gw, gwW, gwCache, secretCache>> /\ secret' \subseteq Gateways
    BY <1>1, <1>8
       DEF GarbageCollect, UserDeletesSecret, ElseUnchanged, caches, workers, GatewayTypes
  <2> QED
    BY <1>2, <1>3, <2>1
<1>9. ASSUME NEW g \in Gateways, UserDeletesGateway(g)
      PROVE  GatewaysMove /\ WorkerMoves /\ CopiesMove
  <2>1. UNCHANGED <<gwW, gwCache, secret, secretCache>> /\ gw[g].phase = "live"
    BY <1>9 DEF UserDeletesGateway, ElseUnchanged, caches, workers
  <2>2. gw' = [gw EXCEPT ![g] = Bumped(gw[g], [gw[g] EXCEPT !.deleting = TRUE])]
    BY <1>9 DEF UserDeletesGateway
  <2>3. GatewaysMove
    BY <1>1, <2>1, <2>2, GatewayWrites, WrittenMoves
  <2> QED
    BY <1>1, <1>2, <2>1, <2>3, PassStays DEF GatewayTypes
<1>10. CASE Restart
  <2>1. /\ UNCHANGED <<gw, secret>> /\ gwW' = IdleGateway /\ gwCache' = gw
        /\ secretCache' = secret
    BY <1>10 DEF Restart, servers
  <2>2. CopiesMove
    BY <1>1, <2>1 DEF GatewayTypes, CopiesMove
  <2> QED
    BY <1>1, <2>1, <2>2, GatewaysStay, PassEnds
<1>11. CASE UNCHANGED gatewayVars
  BY <1>1, <1>2, <1>3, <1>11 DEF gatewayVars, GatewayTypes
<1> QED
  BY <1>4, <1>5, <1>6, <1>7, <1>8, <1>9, <1>10, <1>11, GatewayFrame

\* Copies stay copies of what was.
LEMMA GatewayInvKept ==
  ASSUME ConfigTypes, ClassTypes, GatewayInv, [Next]_vars
  PROVE  GatewayInv'
<1>1. GatewaysMove /\ WorkerMoves /\ CopiesMove /\ GatewayTypes /\ GatewayFaithful
  BY GatewaySteps DEF GatewayInv
<1>2. GatewayTypes'
  BY <1>1 DEF GatewaysMove, WorkerMoves, CopiesMove, GatewayTypes
<1>3. \A g \in Gateways : gw[g] \in Gateway /\ gwCache[g] \in Gateway /\ gw'[g] \in Gateway
  BY <1>1, <1>2 DEF GatewayTypes
<1>4. \A g \in Gateways : gw[g].rv \in Nat /\ gwCache[g].rv \in Nat /\ gw'[g].rv \in Nat
  BY <1>3 DEF Gateway
<1>5. ASSUME NEW g \in Gateways
      PROVE  /\ gw'[g].phase # "new"
             /\ gwCache'[g].rv <= gw'[g].rv
             /\ gwCache'[g].rv = gw'[g].rv => gwCache'[g].sub = gw'[g].sub
             /\ gwCache'[g].phase = "gone" => gw'[g].phase = "gone"
             /\ gwCache'[g].sub # None => gw'[g].sub # None
  <2>1. gw'[g].phase # "new"
    BY <1>1, <1>5 DEF GatewaysMove, GatewayFaithful
  <2>2. CASE gwCache'[g] = gw'[g]
    BY <1>4, <2>1, <2>2
  <2>3. CASE gwCache'[g] = gwCache[g]
    BY <1>1, <1>4, <2>1, <2>3 DEF GatewaysMove, GatewayFaithful
  <2> QED
    BY <1>1, <2>2, <2>3 DEF CopiesMove
<1>6. ASSUME gwW'.pc # "idle"
      PROVE  /\ gwW'.obj.rv <= gw'[gwW'.g].rv
             /\ gwW'.obj.rv = gw'[gwW'.g].rv => gwW'.obj.sub = gw'[gwW'.g].sub
  <2>1. gwW'.g \in Gateways
    BY <1>1, <1>6 DEF WorkerMoves
  <2>2. CASE gwW.pc # "idle" /\ gwW'.g = gwW.g /\ gwW'.obj = gwW.obj
    <3>1. gwW.obj.rv \in Nat
      BY <1>1 DEF GatewayTypes, GatewayWorker, Gateway
    <3> QED
      BY <1>1, <1>4, <2>1, <2>2, <3>1 DEF GatewaysMove, GatewayFaithful
  <2>3. CASE gwW'.obj = gwCache[gwW'.g] /\ gw' = gw
    BY <1>1, <2>1, <2>3 DEF GatewayFaithful
  <2>4. CASE gwW'.obj = gw'[gwW'.g]
    BY <1>4, <2>1, <2>4
  <2> QED
    BY <1>1, <1>6, <2>2, <2>3, <2>4 DEF WorkerMoves
<1>7. GatewayFaithful'
  BY <1>5, <1>6 DEF GatewayFaithful
<1> QED
  BY <1>2, <1>7 DEF GatewayInv

----------------------------------------------------------------------------
(* Queues and counters, and all types.                                       *)

QueueTypes ==
    /\ credentials \in BOOLEAN
    /\ queue \subseteq Keys /\ delayed \subseteq Keys
    /\ faults \in Nat /\ moves \in Nat

\* What steps do to them.
QueuesMove ==
    /\ queue' \subseteq Keys /\ delayed' \subseteq Keys
    /\ faults' \in {faults, faults + 1} /\ moves' \in {moves, moves + 1}
    /\ credentials' \in {credentials, ~credentials}

\* Only keys are queued.
LEMMA QueueSteps ==
  ASSUME QueueTypes, GatewayTypes, [Next]_vars
  PROVE  QueuesMove
<1>1. queue \subseteq Keys /\ delayed \subseteq Keys
  BY DEF QueueTypes
<1>2. "config" \in Keys /\ "class" \in Keys /\ Gateways \subseteq Keys
  BY DEF Keys
<1>3. CASE ReconcileConfig \/ ConfigStep
  BY <1>1, <1>2, <1>3
     DEF ReconcileConfig, ConfigStep, VerifySubscription, LookupSubscription,
     CreateSubscription, SaveConfigStatus, ReportConfigError, ConfigRest, Answered, Fault, Later,
     QueuesMove
<1>4. CASE ReconcileClass \/ ClassStep
  BY <1>1, <1>2, <1>4
     DEF ReconcileClass, ClassStep, AcceptClass, RefuseClass, ClassRest, Answered, Fault, Later,
     QueuesMove
<1>5. CASE \E g \in Gateways : ReconcileGateway(g)
  BY <1>1, <1>2, <1>5 DEF ReconcileGateway, GatewayRest, Later, QueuesMove
<1>6. CASE GatewayStep
  <2>1. gwW.pc # "idle"
    BY <1>6 DEF GatewayStep, AddGatewayFinalizer, ResolveConfig, AnnotateGateway, EnsureSecret,
       AcceptGateway, RejectGateway, RemoveGatewayFinalizer
  <2>2. gwW.g \in Keys
    BY <1>2, <2>1 DEF GatewayTypes
  <2>3. UNCHANGED <<queue, moves, credentials>>
    BY <1>6 DEF GatewayStep, AddGatewayFinalizer, ResolveConfig, AnnotateGateway, EnsureSecret,
       AcceptGateway, RejectGateway, RemoveGatewayFinalizer, GatewayRest
  <2>4. delayed' \in {delayed, delayed \union {gwW.g}} /\ faults' \in {faults, faults + 1}
    BY <1>6 DEF GatewayStep, AddGatewayFinalizer, ResolveConfig, AnnotateGateway, EnsureSecret,
       AcceptGateway, RejectGateway, RemoveGatewayFinalizer, UpdateGateway, GiveUpGateway,
       Answered, Fault, Later
  <2> QED
    BY <1>1, <2>2, <2>3, <2>4 DEF QueuesMove
<1>7. LiveGateways \subseteq Keys /\ InCache \subseteq Keys /\ InCache' \subseteq Keys
  BY <1>2 DEF LiveGateways, InCache
<1>8. CASE SyncConfig \/ SyncClass \/ \E g \in Gateways : SyncGateway(g) \/ SyncSecret(g)
  BY <1>1, <1>2, <1>7, <1>8 DEF SyncConfig, SyncClass, SyncGateway, SyncSecret, QueuesMove
<1>9. CASE Resync \/ Restart \/ \E key \in Keys : RetryDue(key)
  BY <1>1, <1>7, <1>9 DEF Resync, Restart, RetryDue, Fault, QueuesMove
<1>10. CASE \/ UserEditsConfig \/ UserDeletesConfig \/ UserDeletesClass
            \/ \E g \in Gateways : UserDeletesGateway(g) \/ UserDeletesSecret(g)
            \/ \E s \in SubscriptionIDs : SubscriptionCancelled(s)
            \/ CredentialsChange \/ \E g \in Gateways : GarbageCollect(g)
  BY <1>1, <1>10
     DEF UserEditsConfig, UserDeletesConfig, UserDeletesClass, UserDeletesGateway,
     UserDeletesSecret, CredentialsChange, SubscriptionCancelled, GarbageCollect, ElseUnchanged,
     Move, QueuesMove
<1>11. CASE UNCHANGED vars
  BY <1>1, <1>11 DEF vars, QueuesMove
<1> QED
  BY <1>3, <1>4, <1>5, <1>6, <1>8, <1>9, <1>10, <1>11 DEF Next

\* The inductive invariant of the three controllers.
ProvisioningInv == ConfigInv /\ ClassTypes /\ GatewayInv /\ QueueTypes

\* At the start.
LEMMA ProvisioningInit ==
  ASSUME Init
  PROVE  ProvisioningInv
<1>1. ConfigInv
  BY ConfigInit
<1>2. ClassTypes
  <2>1. PICK ref \in ClassRefs : class = [exists |-> TRUE, ref |-> ref, rv |-> 1, acc |-> "none"]
    BY DEF Init
  <2>2. ref \in {"config", "none"} /\ classCache = NoClass /\ classW = IdleClass
    BY ProvisioningAssumption DEF Init
  <2> QED
    BY <2>1, <2>2 DEF ClassTypes, Class, Acceptance, NoClass, IdleClass, ClassWorker
<1>3. GatewayInv
  <2> DEFINE o == [NoGateway EXCEPT !.phase = "live", !.rv = 1]
  <2>1. o \in Gateway /\ o.phase = "live" /\ o.rv = 1
    BY DEF NoGateway, Gateway, Acceptance
  <2>2. gw = [g \in Gateways |-> o] /\ gwCache = [g \in Gateways |-> NoGateway]
    BY DEF Init
  <2>3. secret = {} /\ secretCache = {} /\ gwW = IdleGateway
    BY DEF Init
  <2> HIDE DEF o
  <2> QED
    BY <2>1, <2>2, <2>3, IdleGatewayFields DEF GatewayInv, GatewayTypes, GatewayFaithful
<1>4. QueueTypes
  BY DEF Init, QueueTypes
<1> QED
  BY <1>1, <1>2, <1>3, <1>4 DEF ProvisioningInv

\* It is inductive.
LEMMA ProvisioningInductive == Spec => []ProvisioningInv
<1>1. Init => ProvisioningInv
  BY ProvisioningInit
<1>2. ClassTypes /\ [Next]_vars => ClassTypes'
  BY ClassTypesKept
<1>3. ConfigInv /\ ClassTypes /\ GatewayInv /\ [Next]_vars => GatewayInv'
  BY GatewayInvKept DEF ConfigInv
<1>4. QueueTypes /\ GatewayInv /\ [Next]_vars => QueueTypes'
  <2> SUFFICES ASSUME QueueTypes, GatewayInv, [Next]_vars
               PROVE  QueueTypes'
    OBVIOUS
  <2>1. QueuesMove
    BY QueueSteps DEF GatewayInv
  <2>2. credentials' \in BOOLEAN
    <3>1. credentials' = credentials \/ credentials' = ~credentials
      BY <2>1, Zenon DEF QueuesMove
    <3>2. credentials = TRUE \/ credentials = FALSE
      BY DEF QueueTypes
    <3> QED
      BY <3>1, <3>2, Zenon
  <2>3. faults' \in Nat /\ moves' \in Nat
    BY <2>1 DEF QueuesMove, QueueTypes
  <2> QED
    BY <2>1, <2>2, <2>3 DEF QueuesMove, QueueTypes
<1> QED
  BY <1>1, <1>2, <1>3, <1>4, ConfigInductive, PTL DEF Spec, ProvisioningInv

\* Every worker has, at each call, what the call needs: the config's status names
\* a subscription, a Gateway is annotated with one (ensureSubscription,
\* gateway_controller.go:75-120).
THEOREM ProvisioningTypesCorrect == Spec => []ProvisioningTypeOK
<1>1. ProvisioningInv => ProvisioningTypeOK
  BY DEF ProvisioningInv, ConfigInv, ConfigTypes, ConfigPass, ClassTypes, GatewayInv,
     GatewayTypes, QueueTypes, ProvisioningTypeOK
<1> QED
  BY <1>1, ProvisioningInductive, PTL

----------------------------------------------------------------------------
(* The world of the HTTPRoute controller.                                    *)

\* What it sees of a Gateway moves one way only.
Onward(seen) ==
    {seen} \union (IF seen = "pending" THEN {"ready", "gone"}
                    ELSE IF seen = "ready" THEN {"gone"} ELSE {})
SeenOnward == \A g \in Gateways : SeenGateway(g)' \in Onward(SeenGateway(g))

\* What is seen is one of three things.
LEMMA SeenCases ==
  ASSUME GatewayTypes, NEW g \in Gateways
  PROVE  /\ SeenGateway(g) \in {"pending", "ready", "gone"}
         /\ SeenGateway(g) = "gone" <=> gwCache[g].phase = "gone"
         /\ SeenGateway(g) = "ready" <=> gwCache[g].phase = "live" /\ gwCache[g].sub # None
<1>1. gwCache[g].phase \in {"new", "live", "gone"}
  BY DEF GatewayTypes, Gateway
<1> QED
  BY <1>1 DEF SeenGateway

\* Nobody can see a Gateway come back, or lose its annotation.
LEMMA SeenOnwardStep ==
  ASSUME ConfigTypes, ClassTypes, GatewayInv, [Next]_vars
  PROVE  SeenOnward
<1> SUFFICES ASSUME NEW g \in Gateways
             PROVE  SeenGateway(g)' \in Onward(SeenGateway(g))
  BY DEF SeenOnward
<1>1. GatewayTypes /\ GatewayFaithful /\ GatewaysMove /\ CopiesMove /\ GatewayTypes'
  BY GatewaySteps, GatewayInvKept DEF GatewayInv
<1>2. /\ SeenGateway(g) \in {"pending", "ready", "gone"}
      /\ SeenGateway(g) = "gone" <=> gwCache[g].phase = "gone"
      /\ SeenGateway(g) = "ready" <=> gwCache[g].phase = "live" /\ gwCache[g].sub # None
  BY <1>1, SeenCases
<1>3. /\ SeenGateway(g)' \in {"pending", "ready", "gone"}
      /\ SeenGateway(g)' = "gone" <=> gwCache'[g].phase = "gone"
      /\ SeenGateway(g)' = "ready" <=> gwCache'[g].phase = "live" /\ gwCache'[g].sub # None
  <2>1. gwCache'[g].phase \in {"new", "live", "gone"}
    BY <1>1 DEF GatewayTypes, Gateway
  <2> QED
    BY <2>1 DEF SeenGateway
<1>4. /\ gwCache[g].phase = "gone" => gwCache'[g].phase = "gone"
      /\ gwCache[g].phase = "live" /\ gwCache[g].sub # None /\ gwCache'[g].phase # "gone"
            => gwCache'[g].phase = "live" /\ gwCache'[g].sub # None
  <2>1. CASE gwCache'[g] = gwCache[g]
    BY <2>1
  <2>2. CASE gwCache'[g] = gw'[g]
    <3>1. gw'[g].phase \in {"live", "gone"}
      BY <1>1 DEF GatewayTypes, Gateway, GatewaysMove, GatewayFaithful
    <3> QED
      BY <1>1, <2>2, <3>1 DEF GatewaysMove, GatewayFaithful
  <2> QED
    BY <1>1, <2>1, <2>2 DEF CopiesMove
<1> QED
  BY <1>2, <1>3, <1>4 DEF Onward

\* What the HTTPRoute controller sees, by name.
seen == [g \in Gateways |-> SeenGateway(g)]
seenSecret == [g \in Gateways |-> g \in secretCache /\ SeenGateway(g) # "gone"]
seenClient == /\ classCache.exists /\ classCache.ref = "config"
              /\ configCache.phase = "live" /\ credentials

\* The world's variables are these.
LEMMA WorldIs ==
  /\ World!Init <=> /\ seen = [g \in Gateways |-> "pending"]
                    /\ seenSecret = [g \in Gateways |-> FALSE]
                    /\ seenClient \in BOOLEAN
  /\ UNCHANGED World!worldVars <=> UNCHANGED <<seen, seenSecret, seenClient>>
  /\ \A g \in Gateways :
       /\ World!Annotated(g) <=> /\ seen[g] = "pending"
                                 /\ seen' = [seen EXCEPT ![g] = "ready"]
                                 /\ UNCHANGED <<seenSecret, seenClient>>
       /\ World!SecretChanges(g) <=> /\ seen[g] # "gone"
                                     /\ seenSecret' = [seenSecret EXCEPT ![g] = ~seenSecret[g]]
                                     /\ UNCHANGED <<seen, seenClient>>
       /\ World!Deleted(g) <=> /\ seen[g] # "gone"
                               /\ seen' = [seen EXCEPT ![g] = "gone"]
                               /\ seenSecret' = [seenSecret EXCEPT ![g] = FALSE]
                               /\ UNCHANGED seenClient
  /\ World!ClientChanges <=> seenClient' = ~seenClient /\ UNCHANGED <<seen, seenSecret>>
BY DEF World!Init, World!worldVars, World!Annotated, World!SecretChanges, World!Deleted,
   World!ClientChanges, seen, seenSecret, seenClient

\* Only the informers, one event at a time, or a restart change the copies.
LEMMA CopiesFrame ==
  ASSUME [Next]_vars
  PROVE  \/ Restart
         \/ \E g \in Gateways : SyncGateway(g) \/ SyncSecret(g)
         \/ UNCHANGED <<gwCache, secretCache>>
<1>1. ASSUME NEW g \in Gateways, ReconcileGateway(g) \/ GarbageCollect(g)
                                 \/ UserDeletesGateway(g) \/ UserDeletesSecret(g)
      PROVE  UNCHANGED <<gwCache, secretCache>>
  BY <1>1 DEF ReconcileGateway, GatewayRest, GarbageCollect, UserDeletesGateway,
     UserDeletesSecret, ElseUnchanged, caches
<1>2. \/ AddGatewayFinalizer \/ ResolveConfig \/ AnnotateGateway \/ EnsureSecret
      \/ AcceptGateway \/ RejectGateway \/ RemoveGatewayFinalizer \/ UNCHANGED gatewayVars
      => UNCHANGED <<gwCache, secretCache>>
  BY DEF AddGatewayFinalizer, ResolveConfig, AnnotateGateway, EnsureSecret, AcceptGateway,
     RejectGateway, RemoveGatewayFinalizer, GatewayRest, caches, gatewayVars
<1> QED
  BY <1>1, <1>2, GatewayFrame

\* The view of one Gateway changes with its copy only.
LEMMA SeenSame ==
  ASSUME NEW g \in Gateways, gwCache'[g] = gwCache[g]
  PROVE  SeenGateway(g)' = SeenGateway(g)
BY DEF SeenGateway

\* Each step is one of the world's, or nobody can see it.
LEMMA WorldStep ==
  ASSUME ConfigTypes, ClassTypes, GatewayInv, [Next]_vars, ~Restart
  PROVE  World!Next
<1>1. GatewayTypes /\ SeenOnward
  BY SeenOnwardStep DEF GatewayInv
<1>2. CASE UNCHANGED <<gwCache, secretCache>>
  <2>1. \A g \in Gateways : SeenGateway(g)' = SeenGateway(g)
    BY <1>2, SeenSame
  <2>2. seen' = seen
    BY <2>1 DEF seen
  <2>3. seenSecret' = seenSecret
    BY <1>2, <2>1 DEF seenSecret
  <2>4. seenClient' = seenClient \/ seenClient' = ~seenClient
    BY Zenon DEF seenClient
  <2>5. CASE seenClient' = seenClient
    BY <2>2, <2>3, <2>5, WorldIs DEF World!Next
  <2>6. CASE seenClient' = ~seenClient
    BY <2>2, <2>3, <2>6, WorldIs DEF World!Next
  <2> QED
    BY <2>4, <2>5, <2>6
<1>3. ASSUME NEW g \in Gateways, SyncGateway(g)
      PROVE  World!Next
  <2>1. /\ gwCache' = [gwCache EXCEPT ![g] = gw[g]]
        /\ UNCHANGED <<configCache, classCache, secretCache, credentials>>
    BY <1>3 DEF SyncGateway, servers, workers
  <2>2. \A h \in Gateways \ {g} : SeenGateway(h)' = SeenGateway(h)
    BY <1>1, <2>1, SeenSame DEF GatewayTypes
  <2>3. seenClient' = seenClient
    BY <2>1 DEF seenClient
  <2>4. SeenGateway(g)' \in Onward(SeenGateway(g))
    BY <1>1 DEF SeenOnward
  <2>5. CASE SeenGateway(g)' = SeenGateway(g)
    <3>1. \A h \in Gateways : SeenGateway(h)' = SeenGateway(h)
      BY <2>2, <2>5
    <3>2. seen' = seen
      BY <3>1 DEF seen
    <3>3. seenSecret' = seenSecret
      BY <2>1, <3>1 DEF seenSecret
    <3> QED
      BY <2>3, <3>2, <3>3, WorldIs DEF World!Next
  <2>6. CASE SeenGateway(g) = "pending" /\ SeenGateway(g)' = "ready"
    <3>1. seen[g] = "pending" /\ seen' = [seen EXCEPT ![g] = "ready"]
      BY <2>2, <2>6 DEF seen
    <3>2. \A h \in Gateways : (SeenGateway(h)' # "gone") <=> (SeenGateway(h) # "gone")
      BY <2>2, <2>6
    <3>3. \A h \in Gateways : (h \in secretCache' /\ SeenGateway(h)' # "gone")
                              = (h \in secretCache /\ SeenGateway(h) # "gone")
      BY <2>1, <3>2
    <3>4. seenSecret' = seenSecret
      BY <3>3 DEF seenSecret
    <3>5. World!Annotated(g)
      BY <2>3, <3>1, <3>4, WorldIs
    <3> QED
      BY <3>5 DEF World!Next
  <2>7. CASE SeenGateway(g) # "gone" /\ SeenGateway(g)' = "gone"
    <3>1. seen[g] # "gone" /\ seen' = [seen EXCEPT ![g] = "gone"]
      BY <2>2, <2>7 DEF seen
    <3>2. seenSecret' = [seenSecret EXCEPT ![g] = FALSE]
      <4>1. ~(g \in secretCache' /\ SeenGateway(g)' # "gone")
        BY <2>7
      <4>2. \A h \in Gateways \ {g} : (h \in secretCache' /\ SeenGateway(h)' # "gone")
                                      = (h \in secretCache /\ SeenGateway(h) # "gone")
        BY <2>1, <2>2
      <4> QED
        BY <4>1, <4>2 DEF seenSecret
    <3>3. World!Deleted(g)
      BY <2>3, <3>1, <3>2, WorldIs
    <3> QED
      BY <3>3 DEF World!Next
  <2> QED
    BY <2>4, <2>5, <2>6, <2>7 DEF Onward
<1>4. ASSUME NEW g \in Gateways, SyncSecret(g)
      PROVE  World!Next
  <2>1. /\ secretCache' = IF g \in secret THEN secretCache \union {g} ELSE secretCache \ {g}
        /\ (g \in secretCache) # (g \in secret)
        /\ UNCHANGED <<configCache, classCache, gwCache, credentials>>
    BY <1>4 DEF SyncSecret, servers, workers
  <2>2. \A h \in Gateways : SeenGateway(h)' = SeenGateway(h)
    BY <2>1, SeenSame
  <2>3. seen' = seen /\ seenClient' = seenClient
    BY <2>1, <2>2 DEF seen, seenClient
  <2>4. \A h \in Gateways \ {g} : h \in secretCache' <=> h \in secretCache
    BY <2>1
  <2>5. g \in secretCache' <=> g \notin secretCache
    BY <2>1
  <2>6. CASE SeenGateway(g) = "gone"
    <3>1. \A h \in Gateways : (h \in secretCache' /\ SeenGateway(h)' # "gone")
                              = (h \in secretCache /\ SeenGateway(h) # "gone")
      BY <2>2, <2>4, <2>6
    <3>2. seenSecret' = seenSecret
      BY <3>1 DEF seenSecret
    <3> QED
      BY <2>3, <3>2, WorldIs DEF World!Next
  <2>7. CASE SeenGateway(g) # "gone"
    <3>1. seen[g] # "gone"
      BY <2>7 DEF seen
    <3>2. seenSecret' = [seenSecret EXCEPT ![g] = ~seenSecret[g]]
      <4>1. (g \in secretCache' /\ SeenGateway(g)' # "gone")
            = ~(g \in secretCache /\ SeenGateway(g) # "gone")
        BY <2>2, <2>5, <2>7
      <4>2. \A h \in Gateways \ {g} : (h \in secretCache' /\ SeenGateway(h)' # "gone")
                                      = (h \in secretCache /\ SeenGateway(h) # "gone")
        BY <2>2, <2>4
      <4> QED
        BY <4>1, <4>2 DEF seenSecret
    <3>3. World!SecretChanges(g)
      BY <2>3, <3>1, <3>2, WorldIs
    <3> QED
      BY <3>3 DEF World!Next
  <2> QED
    BY <2>6, <2>7
<1> QED
  BY <1>2, <1>3, <1>4, CopiesFrame

\* What the HTTPRoute controller has seen of a Gateway stands through crashes and
\* restarts of the process too: an annotation is not taken back, the end is the
\* end (gateway_controller.go:75-90).
THEOREM AnnotationsLast == Spec => [][SeenOnward]_vars
<1>1. ProvisioningInv /\ [Next]_vars => SeenOnward
  BY SeenOnwardStep DEF ProvisioningInv, ConfigInv
<1> QED
  BY <1>1, ProvisioningInductive, PTL DEF Spec

\* In a process that is not restarted the three controllers take no step that the
\* HTTPRoute controller could see but those of its world, one Gateway at a time
\* (gateway_controller.go:75-120).  At a restart its caches are filled anew: see
\* AnnotationsLast for what it may find then.
THEOREM WorldIsKept ==
  ASSUME "restart" \notin EnvKinds
  PROVE  Spec => KeepsWorld
<1>1. Init => World!Init
  <2> SUFFICES ASSUME Init
               PROVE  World!Init
    OBVIOUS
  <2>1. gwCache = [g \in Gateways |-> NoGateway] /\ classCache = NoClass /\ secretCache = {}
    BY DEF Init
  <2>2. seen = [g \in Gateways |-> "pending"]
    BY <2>1 DEF seen, SeenGateway, NoGateway
  <2>3. seenSecret = [g \in Gateways |-> FALSE]
    BY <2>1 DEF seenSecret
  <2>4. seenClient \in BOOLEAN
    BY <2>1 DEF seenClient, NoClass
  <2> QED
    BY <2>2, <2>3, <2>4, WorldIs
<1>2. ~Restart
  BY DEF Restart
<1>3. ProvisioningInv /\ [Next]_vars => World!Next
  BY <1>2, WorldStep DEF ProvisioningInv, ConfigInv
<1> QED
  BY <1>1, <1>3, ProvisioningInductive, PTL DEF Spec, KeepsWorld, World!Spec
=============================================================================
