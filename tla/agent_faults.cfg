SPECIFICATION FairSpec
CONSTANTS
    IPs = {ip1, ip2}
    Ephemeral = Ephemeral
    NoIP = NoIP
    Key = Key
    NoKey = NoKey
    Configs <- AllConfigs
    OtherTaints = {t1}
    RetryAttempts = 1
    FaultKinds = {"crash", "term", "error", "wait"}
    MaxFaults = 3
INVARIANTS TypeOK CleanExitReleases
PROPERTIES TaintGoesLast AddressKept NodeGetsReady
