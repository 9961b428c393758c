------------------------ MODULE HTTPRouteProperties ------------------------
(***************************************************************************)
(* What the HTTPRoute controller has to get right.  The hazards behind the  *)
(* properties are listed, with their lines, in PROJECT.json.                *)
(***************************************************************************)
EXTENDS HTTPRouteReconciler

\* Types, and the ranges that keep a pass inside its route's spec and parents
\* (the loops at httproute_controller.go:64 and :125).
TypeOK ==
    /\ CloudTypeOK
    /\ NodePortTypeOK
    /\ hr \in [Routes -> HTTPRoute]
    /\ hrCache \in [Routes -> HTTPRoute]
    /\ World!WorldTypeOK
    /\ w \in Worker
    /\ w.pc # "idle" => w.route \in Routes /\ w.parent \in DOMAIN ParentRefs[w.route]
    /\ w.pc \in ItemPCs \union {"deleteNodePorts"} => w.item \in DOMAIN w.obj.spec
    /\ queue \subseteq Routes /\ delayed \subseteq Routes
    /\ faults \in Nat /\ moves \in Nat
    /\ abandoned \subseteq ServiceIDs

----------------------------------------------------------------------------
(* Bookkeeping of cloud identifiers                                          *)

\* A recorded identifier was made for the place it is recorded at: a service
\* for this route and backend, a route for this rule on a service of them.
RecordsOwn(r, svcIDs, rtIDs) ==
    /\ \A b \in Backends : svcIDs[b] # None =>
          services[svcIDs[b]].owner = <<r, b>> /\ services[svcIDs[b]].state # "unborn"
    /\ \A k \in Backends \X RuleIdx : rtIDs[k] # None =>
          /\ routes[rtIDs[k]].name = <<r, k[2]>>
          /\ routes[rtIDs[k]].service # None
          /\ services[routes[rtIDs[k]].service].owner = <<r, k[1]>>

\* Annotations, their cached copies and the maps in memory never name another
\* route's or another backend's resources, through any interleaving of edits,
\* stale reads, lost answers and restarts (annotations at :119-179).
IdentifiersAreOwn ==
    /\ \A r \in Routes : RecordsOwn(r, hr[r].svcIDs, hr[r].rtIDs)
                         /\ RecordsOwn(r, hrCache[r].svcIDs, hrCache[r].rtIDs)
    /\ w.pc # "idle" => RecordsOwn(w.route, w.obj.svcIDs, w.obj.rtIDs)
                        /\ RecordsOwn(w.route, w.sids, w.rids)

\* A live service belongs to a route that still has the finalizer, and is
\* either recorded in its annotations or held by the pass that made it; the
\* only others are those a failed or clientless pass gave up (abandoned).
\* Successful passes and deletions leak nothing (:148-179, :376-410).
Accounted ==
    \A s \in ServiceIDs : services[s].state = "live" /\ s \notin abandoned =>
        LET r == services[s].owner[1] IN
        /\ hr[r].phase = "live" /\ hr[r].finalizer
        /\ s \in Tracked(r) \/ (w.route = r /\ s \in InHand)

\* A deletion reaches the services of the deleted route and of no other, though
\* routes share backends and their NodePort Services (:389-394).
DeletesOwnServicesOnly ==
    [][\A s \in ServiceIDs :
          services[s].state = "live" /\ services'[s].state = "deleted"
             => hr[services[s].owner[1]].deleting]_vars

\* A recorded service is replaced only when the cloud no longer has it:
\* no pass from a stale copy overwrites the annotation of a newer one (:177, :193-213).
NoLiveServiceForgotten ==
    [][\A r \in Routes, b \in Backends :
          LET s == hr[r].svcIDs[b] IN
          s # None /\ hr'[r].svcIDs[b] # s => ~Exists(s)]_vars

\* Accepted=True at the route's generation: every backendRef of the current spec
\* to a core Service has a recorded service and a recorded route made for its rule,
\* also when the spec is edited between the save of the annotations and the status
\* (:71, :75 after :172-179).  The code accepts the others without a record (:127).
AcceptedIsBackedByRecords ==
    \A r \in Routes, g \in Gateways :
        hr[r].phase = "live" /\ hr[r].status[g] = [acc |-> "True", gen |-> hr[r].gen] =>
            \A i \in ServiceRefs(hr[r].spec) :
                LET it == hr[r].spec[i] IN
                /\ hr[r].svcIDs[it.backend] # None
                /\ hr[r].rtIDs[<<it.backend, it.rule>>] # None

\* Equal versions are equal objects: what optimistic locking relies on when a
\* pass writes an object it read from the cache several calls ago.
VersionsAreFaithful ==
    /\ \A r \in Routes : /\ hrCache[r].rv <= hr[r].rv
                         /\ hrCache[r].rv = hr[r].rv => hrCache[r].spec = hr[r].spec
                                                        /\ hrCache[r].svcIDs = hr[r].svcIDs
    /\ w.pc # "idle" => /\ w.obj.rv <= hr[w.route].rv
                        /\ w.obj.rv = hr[w.route].rv =>
                              /\ w.obj.spec = hr[w.route].spec
                              /\ w.obj.gen = hr[w.route].gen
                              /\ w.obj.finalizer = hr[w.route].finalizer
                              /\ w.obj.svcIDs = hr[w.route].svcIDs

\* Where a service stands in the ledger: annotations, memory and cloud in one.
Standing(s) ==
    IF services[s].state = "unborn" THEN "unborn"
    ELSE IF services[s].state # "live" THEN "ended"
    ELSE IF s \in abandoned THEN "lost"
    ELSE IF s \in Tracked(services[s].owner[1]) THEN "recorded" ELSE "held"

Ledger == INSTANCE ServiceLedger WITH
    account <- [s \in ServiceIDs |-> Standing(s)],
    key <- [s \in ServiceIDs |-> services[s].owner],
    life <- [r \in Routes |-> IF hr[r].phase = "gone" THEN "gone"
                              ELSE IF hr[r].deleting THEN "closing" ELSE "open"],
    pass <- w.route

\* The controller keeps the ledger: what a pass makes is recorded all at once or
\* lost with the pass, a place never has two recorded live services, and only a
\* deletion of their own route ends recorded ones (:119-179, :365-416).
KeepsLedger == Ledger!Spec

----------------------------------------------------------------------------
(* Progress                                                                  *)

\* A deleted HTTPRoute goes away, whatever failed on the way (:365-416).
DeletionCompletes == \A r \in Routes : hr[r].deleting ~> hr[r].phase = "gone"

\* What a pass needs: Gateways provisioned, a client, backends with no other tool's
\* Service in the way, a node, something left of the plan's quota, and no two rules
\* with one path on one backend (the second is refused with 409 and finds no route
\* of its name).
Healthy(r) ==
    /\ hr[r].phase = "live" /\ ~hr[r].deleting
    /\ clientOK /\ nodeIP # None
    /\ FreshServices # {} /\ FreshRoutes # {}
    /\ \A i \in DOMAIN ParentRefs[r] : gw[ParentRefs[r][i]] = "ready"
    /\ \A i \in ServiceRefs(hr[r].spec) :
          LET b == hr[r].spec[i].backend
          IN  backendSvc[b] # None /\ (np[b].exists => np[b].managed)
    /\ \A i, j \in ServiceRefs(hr[r].spec) :
          hr[r].spec[i].backend = hr[r].spec[j].backend /\ hr[r].spec[i].path = hr[r].spec[j].path
             => i = j

\* The cloud serves the route: the service of each backendRef to a core Service is
\* live and forwards to the NodePort Service, and its recorded route is on it.
Programmed(r) ==
    \A i \in ServiceRefs(hr[r].spec) :
        LET it == hr[r].spec[i]
            s == hr[r].svcIDs[it.backend]
            t == hr[r].rtIDs[<<it.backend, it.rule>>]
        IN  /\ s # None /\ Exists(s) /\ t # None /\ t \in RoutesOn(s)
            /\ np[it.backend].exists
            /\ services[s].host = [ip |-> nodeIP, port |-> np[it.backend].nodePort]

\* After failures, restarts, deletions in the console and changes of node, a
\* route whose world stays healthy is in the end programmed and accepted.
Converges ==
    \A r \in Routes :
        (<>[]Healthy(r)) =>
            <>[](/\ Programmed(r)
                 /\ \A i \in DOMAIN ParentRefs[r] :
                       hr[r].status[ParentRefs[r][i]] = [acc |-> "True", gen |-> hr[r].gen])

\* The header transforms of a recorded route are those of its rule, with the
\* verification header of a Gateway that has a secret.
Transformed(r) ==
    \A i \in ServiceRefs(hr[r].spec) :
        LET it == hr[r].spec[i]
            t == hr[r].rtIDs[<<it.backend, it.rule>>]
            parent == ParentRefs[r][Len(ParentRefs[r])]
        IN  /\ t # None
            /\ routes[t].reqT = [header |-> IF secret[parent] THEN parent ELSE None,
                                 filter |-> it.req]
            /\ it.resp # None => routes[t].respT = it.resp

\* A transform that failed, and was only logged, or a verification secret that
\* came, went or changed after the route was accepted, is made good in the end,
\* though no event leads from either to the route (:164, :280-363).
TransformsConverge == \A r \in Routes : (<>[]Healthy(r)) => <>[]Transformed(r)

----------------------------------------------------------------------------
(* What the documents and comments promise and the code does not keep; each  *)
(* is refuted by a run of its own and listed under "findings".               *)

\* docs/crd-design.md:743: one backendRef is one Sakura Service.
OneServicePerBackendRef ==
    \A s, t \in ServiceIDs :
        services[s].state = "live" /\ services[t].state = "live"
        /\ services[s].owner = services[t].owner => s = t

\* nodeport.go:139: a NodePort Service is deleted only by the route that owns it;
\* neither another route's nor another tool's that took the name after the label
\* was looked at (:140, :144).
DeletesOwnNodePortOnly ==
    [][\A b \in Backends :
          DeleteNodePorts /\ np[b].exists /\ ~np'[b].exists => np[b].owner = w.route]_vars

\* docs/presentation-api-gateway-controller.md:376: the finalizer cleans up; a
\* route that is gone has left none of the services its annotations recorded.
FinalizerCleansUp ==
    \A r \in Routes, b \in Backends : hr[r].phase = "gone" => ~Exists(hr[r].svcIDs[b])

\* docs/crd-design.md:767-769: a rule's path and response filter are those of
\* its Sakura route, once the route is accepted and no pass is under way.
RouteMatchesRule ==
    \A r \in Routes, g \in Gateways :
        w.pc = "idle" /\ hr[r].phase = "live"
        /\ hr[r].status[g] = [acc |-> "True", gen |-> hr[r].gen]
        => \A i \in ServiceRefs(hr[r].spec) :
              LET it == hr[r].spec[i]
                  t == hr[r].rtIDs[<<it.backend, it.rule>>]
              IN  t # None => routes[t].path = it.path /\ routes[t].respT = it.resp
=============================================================================
