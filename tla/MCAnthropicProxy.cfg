SPECIFICATION FairSpec
CONSTANTS
    Req = {r1, r2}
    Configs <- AllConfigs
    UpstreamStatus <- Statuses
    MaxStoreErrors = 1
INVARIANTS SpendingIsAuthorized RefusalsSpendNothing UsageIsReal
           SuccessIsAccounted DiagnosticsAreOneOutcome DiagnosticsConsistent IndInv
PROPERTIES EveryCallEnds ImplementsMetering
