SPECIFICATION FairSpec
ACTION_CONSTRAINT FewEvents
CONSTANTS
    None = None
    r1 = r1  r2 = r2  b1 = b1  b2 = b2  g1 = g1  g2 = g2
    pathA = pathA  pathB = pathB  f1 = f1  ip1 = ip1  ip2 = ip2
    sel1 = sel1  sel2 = sel2
    Routes = {r1}
    Backends = {b1}
    Gateways = {g1}
    RuleIdx = {0, 1}
    Paths = {pathA, pathB}
    Filters = {f1}
    IPs = {ip1, ip2}
    NodePorts = {1, 2}
    Ports = {80}
    Selectors = {sel1}
    ServiceIDs = {s1, s2, s3}
    RouteIDs = {t1, t2, t3}
    DryRun = FALSE
    Specs <- ClashingSpecs
    ParentRefs <- OneParent
    Wakes <- WakesNone
    EnvKinds = {"foreign", "restart", "edit", "delete", "gateway", "secret", "client", "node", "console", "resync", "backend"}
    MaxFaults = 1
    MaxMoves = 2
    PromptCache = TRUE
PROPERTIES KeepsLedger DeletionCompletes Converges TransformsConverge
CHECK_DEADLOCK FALSE
