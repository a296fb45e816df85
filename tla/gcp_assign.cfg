SPECIFICATION FairSpec
CONSTANTS
    Nodes = {n1, n2}
    IPs = {ip1, ip2}
    Ephemeral = Ephemeral
    NoIP = NoIP
    Shared = {ip1}
    MaxRetries = 2
    FaultKinds = {"error", "lost", "op", "wait", "cancel", "expire", "crash"}
    Faulty = {n1}
    MaxFaults = 2
INVARIANTS TypeOK AssignedIsAttached ReleasedIsEphemeral NeverWithoutAddress
PROPERTIES ImplementsStaticIPs EveryNodeServed LockReleased
