SPECIFICATION Spec
ACTION_CONSTRAINT EditThenDelete
CONSTANTS
    None = None
    r1 = r1  r2 = r2  b1 = b1  b2 = b2  g1 = g1  g2 = g2
    pathA = pathA  pathB = pathB  f1 = f1  ip1 = ip1  ip2 = ip2
    sel1 = sel1  sel2 = sel2
    Routes = {r1}
    Backends = {b1, b2}
    Gateways = {g1}
    RuleIdx = {0, 1}
    Paths = {pathA, pathB}
    Filters = {f1}
    IPs = {ip1}
    NodePorts = {1, 2}
    Ports = {80}
    Selectors = {sel1}
    ServiceIDs = {s1, s2}
    RouteIDs = {t1, t2, t3}
    DryRun = TRUE
    Specs <- MovingSpecs
    ParentRefs <- TwoListeners
    Wakes <- WakesAll
    EnvKinds = {"edit", "delete", "restart"}
    MaxFaults = 1
    MaxMoves = 2
    PromptCache = FALSE
INVARIANTS IdentifiersAreOwn FinalizerCleansUp
CHECK_DEADLOCK FALSE
