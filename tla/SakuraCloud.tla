---------------------------- MODULE SakuraCloud ----------------------------
(***************************************************************************)
(* The Sakura API Gateway as the controllers see it: services, the routes   *)
(* on them and the header transforms of a route.  Taken from the mock       *)
(* (internal/sakura/mock.go), which is the code's own statement of what     *)
(* each call does, and from the error statuses of client.go that the        *)
(* controllers tell apart.  DryRun selects the mock: it never refuses a     *)
(* duplicate route, and it lives in the controller's process.               *)
(*                                                                          *)
(* The actions here are effects of one call on the cloud; which controller  *)
(* step makes the call, and what it does with the answer, is stated by the  *)
(* modules that EXTEND this one.                                            *)
(***************************************************************************)
EXTENDS Naturals

CONSTANTS
    Routes,      \* HTTPRoute objects (namespace/name)
    Backends,    \* names of backend Services
    Gateways,    \* Gateway objects; also stands for the secret of a Gateway
    RuleIdx,     \* indices of rules in an HTTPRoute
    Paths,       \* URL paths of rules
    Filters,     \* header filters of rules
    IPs,         \* addresses of nodes
    NodePorts,   \* node ports the cluster can allocate
    ServiceIDs,  \* identifiers the cloud can give to services
    RouteIDs,    \* identifiers the cloud can give to routes
    None,        \* the absent value
    DryRun       \* TRUE: the in-process mock; FALSE: the real API

ASSUME CloudAssumption ==
    /\ None \notin ServiceIDs \union RouteIDs \union Routes
    /\ NodePorts \subseteq Nat \ {0}
    /\ DryRun \in BOOLEAN

VARIABLES
    services,    \* [ServiceIDs -> Service]
    routes       \* [RouteIDs -> Route]

cloudVars == <<services, routes>>

\* Where a service forwards to: Host and Port of sakura.Service.
Upstream == [ip : IPs \union {None}, port : Nat]

\* Request transform of a route: whose verification header it adds, which filter.
RequestTransform == [header : Gateways \union {None}, filter : Filters \union {None}]

\* "removed" is a deletion no controller made, "deleted" one a controller made.
Service == [state : {"unborn", "live", "deleted", "removed"},
            owner : (Routes \X Backends) \union {<<None, None>>},
            host  : Upstream]

Route == [state   : {"unborn", "live", "deleted"},
          service : ServiceIDs \union {None},
          name    : (Routes \X RuleIdx) \union {<<None, 0>>},
          path    : Paths \union {None},
          reqT    : RequestTransform,
          respT   : Filters \union {None}]

NoUpstream == [ip |-> None, port |-> 0]
NoTransform == [header |-> None, filter |-> None]

CloudTypeOK ==
    /\ services \in [ServiceIDs -> Service]
    /\ routes \in [RouteIDs -> Route]

CloudInit ==
    /\ services = [s \in ServiceIDs |->
          [state |-> "unborn", owner |-> <<None, None>>, host |-> NoUpstream]]
    /\ routes = [t \in RouteIDs |->
          [state |-> "unborn", service |-> None, name |-> <<None, 0>>, path |-> None,
           reqT |-> NoTransform, respT |-> None]]

----------------------------------------------------------------------------
\* GetService answers with the service, or 404.
Exists(s) == s \in ServiceIDs /\ services[s].state = "live"

\* Identifiers not handed out yet; an empty set bounds how much a run creates.
FreshServices == {s \in ServiceIDs : services[s].state = "unborn"}
FreshRoutes == {t \in RouteIDs : routes[t].state = "unborn"}

RoutesOn(s) == {t \in RouteIDs : routes[t].state = "live" /\ routes[t].service = s}

\* The real API answers 409 to a path the service already routes; the mock never does.
Conflict(s, path) == ~DryRun /\ \E t \in RoutesOn(s) : routes[t].path = path

\* The service keeps the name it was created with; the owner stands for it.
CreateService(s, owner, host) ==
    /\ s \in FreshServices
    /\ services' = [services EXCEPT ![s] = [state |-> "live", owner |-> owner, host |-> host]]
    /\ UNCHANGED routes

UpdateService(s, host) ==
    /\ Exists(s)
    /\ services' = [services EXCEPT ![s].host = host]
    /\ UNCHANGED routes

\* Services in ss are gone, and with them every route on them.
EndServices(ss, how) ==
    /\ services' = [s \in ServiceIDs |->
          IF s \in ss /\ Exists(s) THEN [services[s] EXCEPT !.state = how] ELSE services[s]]
    /\ routes' = [t \in RouteIDs |->
          IF routes[t].state = "live" /\ routes[t].service \in ss
          THEN [routes[t] EXCEPT !.state = "deleted"] ELSE routes[t]]

DeleteService(s) == EndServices({s}, "deleted")

CreateRoute(t, s, name, path) ==
    /\ t \in FreshRoutes
    /\ Exists(s)
    /\ ~Conflict(s, path)
    /\ routes' = [routes EXCEPT ![t] =
          [state |-> "live", service |-> s, name |-> name, path |-> path,
           reqT |-> NoTransform, respT |-> None]]
    /\ UNCHANGED services

\* A pair whose route is not on the service is a 404 to the real API, nothing to the mock.
DeleteRoute(s, t) ==
    /\ routes' = IF t \in RoutesOn(s) THEN [routes EXCEPT ![t].state = "deleted"] ELSE routes
    /\ UNCHANGED services

\* A transform is PUT whole.  One of a route that is gone is never read again.
SetRequestTransform(s, t, transform) ==
    /\ routes' = IF t \in RoutesOn(s) THEN [routes EXCEPT ![t].reqT = transform] ELSE routes
    /\ UNCHANGED services

SetResponseTransform(s, t, transform) ==
    /\ routes' = IF t \in RoutesOn(s) THEN [routes EXCEPT ![t].respT = transform] ELSE routes
    /\ UNCHANGED services

\* No controller calls it: a rule's new path gets a new route.
UpdateRoute(t, path) ==
    /\ routes[t].state = "live"
    /\ routes' = [routes EXCEPT ![t].path = path]
    /\ UNCHANGED services

----------------------------------------------------------------------------
\* Everything a client can do to the cloud, and what nobody can see.
CloudNext ==
    \/ UNCHANGED cloudVars
    \/ \E s \in ServiceIDs :
          \/ DeleteService(s)
          \/ \E host \in [ip : IPs \union {None}, port : NodePorts \union {0}] :
                \/ UpdateService(s, host)
                \/ \E owner \in Routes \X Backends : CreateService(s, owner, host)
          \/ \E t \in RouteIDs :
                \/ DeleteRoute(s, t)
                \/ \E name \in Routes \X RuleIdx, path \in Paths : CreateRoute(t, s, name, path)
                \/ \E transform \in RequestTransform : SetRequestTransform(s, t, transform)
                \/ \E f \in Filters \union {None} : SetResponseTransform(s, t, f)
    \/ \E t \in RouteIDs, path \in Paths : UpdateRoute(t, path)

CloudSpec == CloudInit /\ [][CloudNext]_cloudVars
=============================================================================
