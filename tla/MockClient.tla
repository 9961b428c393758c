----------------------------- MODULE MockClient -----------------------------
(***************************************************************************)
(* The client of dry run (internal/sakura/mock.go): Go maps in memory, each *)
(* method under one mutex and therefore one action.  A Go map is a function *)
(* whose domain is its keys.  SakuraCloud, which the models of the          *)
(* controllers use, is what the mock is shown to implement.                 *)
(*                                                                          *)
(* A caller names what it was given, even if that is gone by now, or an     *)
(* identifier of an earlier process, which this one never gave out          *)
(* (Foreign).                                                               *)
(***************************************************************************)
EXTENDS Naturals, Functions

CONSTANTS
    Routes, Backends, Gateways, RuleIdx, Paths, Filters, IPs, NodePorts,
    ServiceIDs, RouteIDs, None,   \* as in SakuraCloud
    EntryIDs,                     \* identifiers newID can give to the rest
    Names,                        \* names of the rest
    Foreign                       \* an identifier an earlier process gave out

ASSUME MockAssumption == Foreign \notin ServiceIDs \union RouteIDs \union EntryIDs

VARIABLES
    mServices,      \* id -> [name, host]
    mRoutes,        \* service id -> route id -> [name, path]
    reqTransforms,  \* <<service id, route id>> -> transform
    resTransforms,  \* <<service id, route id>> -> filter
    routeAuths,     \* <<service id, route id>> -> name of the group allowed
    entries,        \* section -> id -> name
    past            \* ghost: what was deleted, as SakuraCloud keeps it

mockVars == <<mServices, mRoutes, reqTransforms, resTransforms, routeAuths, entries, past>>
transformVars == <<reqTransforms, resTransforms, routeAuths>>

\* Maps from an identifier to no more than a name.
Sections == {"subscriptions", "users", "groups", "oidcs", "domains", "certificates"}

Empty == <<>>

NewMockClient ==
    /\ mServices = Empty /\ mRoutes = Empty
    /\ reqTransforms = Empty /\ resTransforms = Empty /\ routeAuths = Empty
    /\ entries = [section \in Sections |-> Empty]
    /\ past = [services |-> Empty, routes |-> Empty, entries |-> {}]

\* map[id] = value, and delete(map, id), of Go.
Assign(map, id, value) ==
    [k \in DOMAIN map \union {id} |-> IF k = id THEN value ELSE map[k]]
Delete(map, id) == Restrict(map, DOMAIN map \ {id})

----------------------------------------------------------------------------
(* What a read finds. *)

ServiceFound(s) == s \in DOMAIN mServices
RoutesListed(s) == IF s \in DOMAIN mRoutes THEN DOMAIN mRoutes[s] ELSE {}
RouteFound(s, t) == s \in DOMAIN mRoutes /\ t \in DOMAIN mRoutes[s]

RequestTransformOf(s, t) ==
    IF <<s, t>> \in DOMAIN reqTransforms THEN reqTransforms[<<s, t>>]
    ELSE [header |-> None, filter |-> None]
ResponseTransformOf(s, t) ==
    IF <<s, t>> \in DOMAIN resTransforms THEN resTransforms[<<s, t>>] ELSE None

LiveRoutes == UNION {DOMAIN mRoutes[s] : s \in DOMAIN mRoutes}

----------------------------------------------------------------------------
(* SakuraCloud's view of the maps and of what was deleted from them. *)

ServiceView(s) == [state |-> "live", owner |-> mServices[s].name, host |-> mServices[s].host]

RouteView(t) ==
    LET s == CHOOSE s \in DOMAIN mRoutes : t \in DOMAIN mRoutes[s]
    IN  [state |-> "live", service |-> s, name |-> mRoutes[s][t].name, path |-> mRoutes[s][t].path,
         reqT |-> RequestTransformOf(s, t), respT |-> ResponseTransformOf(s, t)]

CloudServices == [s \in ServiceIDs |->
    IF s \in DOMAIN mServices THEN ServiceView(s)
    ELSE IF s \in DOMAIN past.services THEN past.services[s]
    ELSE [state |-> "unborn", owner |-> <<None, None>>, host |-> [ip |-> None, port |-> 0]]]

CloudRoutes == [t \in RouteIDs |->
    IF t \in LiveRoutes THEN RouteView(t)
    ELSE IF t \in DOMAIN past.routes THEN past.routes[t]
    ELSE [state |-> "unborn", service |-> None, name |-> <<None, 0>>, path |-> None,
          reqT |-> [header |-> None, filter |-> None], respT |-> None]]

Cloud == INSTANCE SakuraCloud WITH services <- CloudServices, routes <- CloudRoutes, DryRun <- TRUE

KnownServices == DOMAIN mServices \union DOMAIN past.services \union {Foreign}
KnownRoutes == LiveRoutes \union DOMAIN past.routes \union {Foreign}

\* newID never gives an identifier twice.
NewServiceIDs == ServiceIDs \ KnownServices
NewRouteIDs == RouteIDs \ KnownRoutes

Bury(ss, ts) ==
    past' = [past EXCEPT
        !.services = [s \in ss \union DOMAIN @ |->
            IF s \in ss THEN [ServiceView(s) EXCEPT !.state = "deleted"] ELSE past.services[s]],
        !.routes = [t \in ts \union DOMAIN @ |->
            IF t \in ts THEN [RouteView(t) EXCEPT !.state = "deleted"] ELSE past.routes[t]]]

----------------------------------------------------------------------------
(* Services and routes *)

MCreateService(s, name, host) ==
    /\ s \in NewServiceIDs
    /\ mServices' = Assign(mServices, s, [name |-> name, host |-> host])
    /\ mRoutes' = Assign(mRoutes, s, Empty)
    /\ UNCHANGED <<transformVars, entries, past>>

\* An empty host and a missing port leave what is there; the rest of the
\* request is treated alike.
MUpdateService(s, ip, port) ==
    /\ ServiceFound(s)
    /\ mServices' = [mServices EXCEPT ![s].host =
          [ip |-> IF ip = None THEN @.ip ELSE ip,
           port |-> IF port = None THEN @.port ELSE port]]
    /\ UNCHANGED <<mRoutes, transformVars, entries, past>>

MutantDeleteService(s) ==
    /\ mServices' = Delete(mServices, s)
    /\ Bury({s} \intersect DOMAIN mServices, RoutesListed(s))
    /\ UNCHANGED <<mRoutes, transformVars, entries>>

\* Deleting what is not there is no error.
MDeleteService(s) ==
    /\ mServices' = Delete(mServices, s)
    /\ mRoutes' = Delete(mRoutes, s)
    /\ Bury({s} \intersect DOMAIN mServices, RoutesListed(s))
    /\ UNCHANGED <<transformVars, entries>>

\* Whatever its path is: the mock knows no conflict.
MCreateRoute(t, s, name, path) ==
    /\ t \in NewRouteIDs
    /\ ServiceFound(s)
    /\ LET ofService == IF s \in DOMAIN mRoutes THEN mRoutes[s] ELSE Empty
       IN  mRoutes' = Assign(mRoutes, s, Assign(ofService, t, [name |-> name, path |-> path]))
    /\ UNCHANGED <<mServices, transformVars, entries, past>>

\* The path is the field of the request the properties know of.
MUpdateRoute(s, t, path) ==
    /\ RouteFound(s, t)
    /\ mRoutes' = [mRoutes EXCEPT ![s][t].path = IF path = None THEN @ ELSE path]
    /\ UNCHANGED <<mServices, transformVars, entries, past>>

MDeleteRoute(s, t) ==
    /\ mRoutes' = IF s \in DOMAIN mRoutes
                  THEN [mRoutes EXCEPT ![s] = Delete(@, t)] ELSE mRoutes
    /\ Bury({}, IF RouteFound(s, t) THEN {t} ELSE {})
    /\ UNCHANGED <<mServices, transformVars, entries>>

MutantSetRequestTransform(s, t, transform) ==
    /\ reqTransforms' = [p \in DOMAIN reqTransforms \union {<<s, t>>} |->
          IF p[1] = s THEN transform ELSE reqTransforms[p]]
    /\ UNCHANGED <<mServices, mRoutes, resTransforms, routeAuths, entries, past>>

\* The three settings of a route are kept beside it, under both identifiers and
\* unchecked: they may be set for a pair that is no route, and outlive a route.
MSetRequestTransform(s, t, transform) ==
    /\ reqTransforms' = Assign(reqTransforms, <<s, t>>, transform)
    /\ UNCHANGED <<mServices, mRoutes, resTransforms, routeAuths, entries, past>>

MSetResponseTransform(s, t, f) ==
    /\ resTransforms' = Assign(resTransforms, <<s, t>>, f)
    /\ UNCHANGED <<mServices, mRoutes, reqTransforms, routeAuths, entries, past>>

MSetRouteAuthorization(s, t, name) ==
    /\ routeAuths' = Assign(routeAuths, <<s, t>>, name)
    /\ UNCHANGED <<mServices, mRoutes, reqTransforms, resTransforms, entries, past>>

----------------------------------------------------------------------------
(* The rest: subscriptions, and what no controller calls *)

NewEntryIDs == EntryIDs \ (past.entries \union UNION {DOMAIN entries[x] : x \in Sections})

Put(section, id, name) ==
    /\ entries' = [entries EXCEPT ![section] = Assign(@, id, name)]
    /\ UNCHANGED <<mServices, mRoutes, transformVars, past>>

CreateEntry(section) == \E id \in NewEntryIDs, name \in Names : Put(section, id, name)
UpdateEntry(section) == \E id \in DOMAIN entries[section], name \in Names : Put(section, id, name)

DeleteEntry(section) == \E id \in DOMAIN entries[section] :
    /\ entries' = [entries EXCEPT ![section] = Delete(@, id)]
    /\ past' = [past EXCEPT !.entries = @ \union {id}]
    /\ UNCHANGED <<mServices, mRoutes, transformVars>>

Subscriptions == CreateEntry("subscriptions") \/ UpdateEntry("subscriptions") \/ DeleteEntry("subscriptions")
\* The authentication and the groups of a user are taken and forgotten.
Users == CreateEntry("users") \/ DeleteEntry("users")
Groups == CreateEntry("groups") \/ DeleteEntry("groups")
OIDCs == CreateEntry("oidcs") \/ DeleteEntry("oidcs")
\* The name stands for the certificate, the one field an update may change.
Domains == CreateEntry("domains") \/ UpdateEntry("domains") \/ DeleteEntry("domains")
\* An update of a certificate checks that it is there and changes nothing.
Certificates == CreateEntry("certificates") \/ DeleteEntry("certificates")

----------------------------------------------------------------------------
ServiceCalls == \E s \in KnownServices :
    \/ MDeleteService(s)
    \/ \E ip \in IPs \union {None}, port \in NodePorts \union {None} : MUpdateService(s, ip, port)

RouteCalls == \E s \in KnownServices :
    \/ \E t \in NewRouteIDs, name \in Routes \X RuleIdx, path \in Paths : MCreateRoute(t, s, name, path)
    \/ \E t \in KnownRoutes :
          \/ MDeleteRoute(s, t)
          \/ \E path \in Paths \union {None} : MUpdateRoute(s, t, path)

SettingCalls == \E s \in KnownServices, t \in KnownRoutes :
    \/ \E transform \in Cloud!RequestTransform : MSetRequestTransform(s, t, transform)
    \/ \E f \in Filters \union {None} : MSetResponseTransform(s, t, f)
    \/ \E name \in Names : MSetRouteAuthorization(s, t, name)

MockNext ==
    \/ \E s \in NewServiceIDs, name \in Routes \X Backends, host \in [ip : IPs, port : NodePorts] :
          MCreateService(s, name, host)
    \/ ServiceCalls \/ RouteCalls \/ SettingCalls
    \/ Subscriptions \/ Users \/ Groups \/ OIDCs \/ Domains \/ Certificates

----------------------------------------------------------------------------
(* Properties *)

\* Every method of the mock does to the services, routes and transforms what
\* SakuraCloud, the cloud the controllers are checked against, says it does in
\* dry run; deletions keep nothing alive and nothing comes back.
ImplementsCloud == Cloud!CloudSpec

\* The reads go by different maps and agree: mock.go looks a service up in the
\* map of services for GetService and CreateRoute and in the map of routes for
\* GetRoute, ListRoutes and DeleteRoute.  A service is found in one exactly if it
\* is in the other, no route is listed under two, and none without its service.
ReadsAgree ==
    /\ DOMAIN mRoutes = DOMAIN mServices
    /\ \A s1, s2 \in DOMAIN mRoutes : s1 # s2 => RoutesListed(s1) \intersect RoutesListed(s2) = {}

MockTypeOK ==
    /\ mServices \in UNION {[S -> [name : Routes \X Backends, host : [ip : IPs, port : NodePorts]]] :
                             S \in SUBSET ServiceIDs}
    /\ DOMAIN mRoutes \subseteq ServiceIDs /\ LiveRoutes \subseteq RouteIDs
    /\ DOMAIN mServices \intersect DOMAIN past.services = {}
    /\ LiveRoutes \intersect DOMAIN past.routes = {}
    /\ \A map \in {reqTransforms, resTransforms, routeAuths} :
          DOMAIN map \subseteq (ServiceIDs \union {Foreign}) \X (RouteIDs \union {Foreign})
    /\ DOMAIN entries = Sections /\ \A x \in Sections : DOMAIN entries[x] \subseteq EntryIDs
=============================================================================
