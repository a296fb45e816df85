SPECIFICATION Spec
CONSTANTS
    Agents = {a1, a2, a3}
    NoHolder = NoHolder
    LeaseDuration = 4
    Steps = 2
    MaxDelay = 1
    FaultKinds = {}
    MaxFaults = 0
SYMMETRY AgentSymmetry
INVARIANT MutualExclusion
PROPERTIES ImplementsClusterLock UnlockKeepsOthersLease
