----------------------- MODULE ProvisioningProperties -----------------------
(***************************************************************************)
(* What the three provisioning controllers have to get right together.      *)
(***************************************************************************)
EXTENDS Provisioning

\* Types of the state the three controllers share, and what a worker has
\* established by the time it makes a call.
ProvisioningTypeOK ==
    /\ subs \in [SubscriptionIDs -> {"unborn", "live", "gone"}]
    /\ config \in Config /\ configCache \in Config
    /\ class \in Class /\ classCache \in Class
    /\ gw \in [Gateways -> Gateway] /\ gwCache \in [Gateways -> Gateway]
    /\ secret \subseteq Gateways /\ secretCache \subseteq Gateways
    /\ credentials \in BOOLEAN
    /\ cfgW \in ConfigWorker /\ classW \in ClassWorker /\ gwW \in GatewayWorker
    /\ cfgW.pc = "create" => cfgW.obj.spec.id = None
    /\ cfgW.pc = "status" => (cfgW.obj.sub # None <=> NestedAnswers)
    /\ gwW.pc # "idle" => gwW.g \in Gateways
    /\ gwW.pc \in {"annotate", "secret", "status"} => gwW.sub # None
    /\ queue \subseteq Keys /\ delayed \subseteq Keys
    /\ faults \in Nat /\ moves \in Nat
    /\ dropped \subseteq SubscriptionIDs

\* A paid subscription the controller made is the one the config records or is
\* in the hands of the pass that made it; the others were let go by a failed
\* call, a lost save, an answer without identifier or a user (sakuragatewayconfig_controller.go:137-163).
SubscriptionsAccounted ==
    \A s \in SubscriptionIDs \ External :
        subs[s] = "live" /\ s \notin dropped =>
            (config.phase = "live" /\ config.sub = s) \/ cfgW.made = s

\* A config accepted at its generation records a subscription, and when its
\* spec names one it is that one, whatever was recorded before (:42, :125-135).
AcceptedNamesSubscription ==
    config.phase = "live" /\ config.acc = "True" /\ config.accGen = config.gen =>
        /\ config.sub # None
        /\ config.spec.id # None => config.sub = config.spec.id

\* What the HTTPRoute controller, in the same process and on the same caches,
\* sees of all this: it resolves a client from class, config and credentials
\* (httproute_controller.go:427) and the rest from the Gateway and its secret.
SeenGateway(g) ==
    IF gwCache[g].phase = "gone" THEN "gone"
    ELSE IF gwCache[g].phase = "live" /\ gwCache[g].sub # None THEN "ready" ELSE "pending"

World == INSTANCE GatewayWorld WITH
    gw <- [g \in Gateways |-> SeenGateway(g)],
    secret <- [g \in Gateways |-> g \in secretCache /\ SeenGateway(g) # "gone"],
    clientOK <- /\ classCache.exists /\ classCache.ref = "config"
                /\ configCache.phase = "live" /\ credentials

\* The three controllers give the HTTPRoute controller the world it is modelled
\* with: an annotation is there for the Gateway's life, whatever becomes of the
\* config and its subscription (gateway_controller.go:75-90).
KeepsWorld == World!Spec

\* Every Gateway's life ends when its user deletes it, unless its class went
\* first: then the finalizer stays for ever (gateway_controller.go:53, :63).
GatewayDeletionCompletes ==
    \A g \in Gateways : gw[g].deleting ~> (gw[g].phase = "gone" \/ ~class.exists)

\* Something to converge to: the config names a subscription that exists, or
\* has one, or may still create one; credentials and the class are in place.
CanProvision ==
    /\ config.phase = "live" /\ credentials
    /\ class.exists /\ class.ref = "config"
    /\ IF config.spec.id # None THEN SubLive(config.spec.id)
       ELSE config.spec.named /\ \E s \in SubscriptionIDs : subs[s] = "unborn"

\* Whatever the user and the console did before, the three controllers agree: the config is
\* accepted, so is the class, and each Gateway is accepted with the config's
\* subscription and a verification secret, although no event leads from an
\* edited config to its Gateways.
ProvisioningConverges ==
    (<>[]CanProvision) =>
        <>[](/\ config.acc = "True" /\ config.accGen = config.gen
             /\ class.acc = "True"
             /\ \A g \in Gateways :
                   gw[g].phase = "live" /\ ~gw[g].deleting =>
                      /\ gw[g].acc = "True" /\ gw[g].finalizer
                      /\ gw[g].sub = config.sub
                      /\ config.spec.verify => g \in secret)

\* The class does not stay accepted when its config is refused or deleted.
ClassFollowsConfig ==
    (<>[](class.exists /\ class.ref = "config" /\ (config.phase = "gone" \/ config.acc = "False")))
        => <>[](class.acc = "False")

----------------------------------------------------------------------------
\* sakuragatewayconfig_controller.go:137: a subscription that was created is reused,
\* so there are never two.
ReusesSubscription ==
    \A s, t \in SubscriptionIDs \ External : subs[s] = "live" /\ subs[t] = "live" => s = t

\* sakuragatewayconfig_controller.go:147: a new subscription is created because
\* the recorded one was deleted externally.  Any failed lookup will do, though.
ReplacesOnlyDeleted ==
    [][config.sub # None /\ config'.sub # config.sub /\ config.spec.id = None
          => ~SubLive(config.sub)]_vars
=============================================================================
