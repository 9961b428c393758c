SPECIFICATION Spec
CONSTANTS
    Routes = {r1}
    Backends = {b1}
    Gateways = {}
    RuleIdx = {0}
    Paths = {pathA, pathB}
    Filters = {f1}
    IPs = {ip1}
    NodePorts = {30000}
    ServiceIDs = {s1, s2}
    RouteIDs = {t1, t2}
    None = None
    EntryIDs = {e1}
    Names = {n1}
    Foreign = Foreign
    Callers = {c1, c2}
    Things = {x1, x2}
    NoThing = NoThing
    Kinds = {"routes", "subscriptions", "users"}
    NestedKinds = {"routes", "users"}
    MaxCalls = 3
    MaxMockCalls = 5
INVARIANTS ClientTypeOK ReadsAgree OutcomeIsHonest NotFoundIsForGood CreatedIsNamed
PROPERTIES ImplementsCloud
CHECK_DEADLOCK FALSE
