SPECIFICATION Spec
CONSTANTS
    IPs = {ip1, ip2}
    Ephemeral = Ephemeral
    NoIP = NoIP
    Key = Key
    NoKey = NoKey
    Configs <- AllConfigs
    OtherTaints = {t1}
    RetryAttempts = 1
    FaultKinds = {"term"}
    MaxFaults = 1
PROPERTY ReleasedOnTermination
