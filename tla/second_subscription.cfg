SPECIFICATION Spec
CONSTANTS
    None = None
    ext = ext  sub1 = sub1  sub2 = sub2  sub3 = sub3
    Gateways = {g1}
    SubscriptionIDs = {ext, sub1, sub2, sub3}
    External = {ext}
    ConfigSpecs <- TwoSpecs
    ClassRefs = {"config"}
    NestedAnswers = TRUE
    EnvKinds = {"edit"}
    MaxFaults = 1
    MaxMoves = 1
    CalmMoves = FALSE
PROPERTIES ReplacesOnlyDeleted
CHECK_DEADLOCK FALSE
