SPECIFICATION FairSpec
ACTION_CONSTRAINT FewEvents
CONSTANTS
    None = None
    ext = ext  sub1 = sub1  sub2 = sub2  sub3 = sub3
    Gateways = {g1}
    SubscriptionIDs = {ext, sub1, sub2, sub3}
    External = {ext}
    ConfigSpecs <- TwoSpecs
    ClassRefs = {"config", "none"}
    NestedAnswers = TRUE
    EnvKinds = {"secret", "edit", "config", "gateway", "class", "credentials", "console"}
    MaxFaults = 1
    MaxMoves = 2
    CalmMoves = TRUE
PROPERTIES KeepsWorld GatewayDeletionCompletes ProvisioningConverges ClassFollowsConfig
CHECK_DEADLOCK FALSE
