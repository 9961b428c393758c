SPECIFICATION Spec
CONSTANTS
    None = None
    ext = ext  sub1 = sub1  sub2 = sub2  sub3 = sub3
    Gateways = {g1}
    SubscriptionIDs = {ext, sub1, sub2, sub3}
    External = {ext}
    ConfigSpecs <- TwoSpecs
    ClassRefs = {"config"}
    NestedAnswers = FALSE
    EnvKinds = {}
    MaxFaults = 0
    MaxMoves = 0
    CalmMoves = FALSE
INVARIANT ReusesSubscription
CHECK_DEADLOCK FALSE
