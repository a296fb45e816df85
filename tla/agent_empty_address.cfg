SPECIFICATION FairSpec
CONSTANTS
    IPs = {ip1, ip2}
    Ephemeral = Ephemeral
    NoIP = NoIP
    Key = Key
    NoKey = NoKey
    Configs <- SupportedConfigs
    OtherTaints = {t1}
    RetryAttempts = 1
    FaultKinds = {"crash"}
    MaxFaults = 1
PROPERTY EveryNodeGetsReady
