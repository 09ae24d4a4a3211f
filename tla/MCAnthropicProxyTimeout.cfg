SPECIFICATION Spec
CONSTANTS
    Req = {r1}
    Configs <- ReadyConfigs
    UpstreamStatus <- Statuses
    MaxStoreErrors = 0
INVARIANTS TimeoutIsGatewayTimeout
