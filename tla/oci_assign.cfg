SPECIFICATION FairSpec
CONSTANTS
    Nodes = {n1, n2}
    Pool = {ip1, ip2}
    Foreign = {f1}
    Ephemeral = Ephemeral
    Unlisted = Unlisted
    NoIP = NoIP
    FaultKinds = {"error", "lost", "crash"}
    MaxFaults = 3
INVARIANTS TypeOK AssignedIsAttached
PROPERTIES ImplementsStaticIPs EveryNodeServed LockReleased
