SPECIFICATION FairSpec
CONSTANTS
    Nodes = {n1, n2, n3}
    Public = {n1, n2}
    Pool = {ip1, ip2}
    SubnetIP = SubnetIP
    NoIP = NoIP
    FaultKinds = {"error", "lost", "gone", "expire", "crash"}
    MaxFaults = 2
INVARIANTS TypeOK AssignedIsAttached
PROPERTIES ImplementsStaticIPs EveryNodeServed LockReleased
