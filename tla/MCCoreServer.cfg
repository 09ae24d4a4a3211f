SPECIFICATION FairSpec
CONSTANTS
    Req = {r1, r2}
    Configs <- ReadyConfigs
    UpstreamStatus <- Statuses
    MaxStoreErrors = 1
INVARIANTS IndInv CleanExitIsComplete StoreOutlivesRequests
PROPERTIES ImplementsProxy SignalStops
