SPECIFICATION Spec
CONSTANTS
    Agents = {a1, a2}
    NoHolder = NoHolder
    LeaseDuration = 1
    Steps = 2
    MaxDelay = 0
    FaultKinds = {}
    MaxFaults = 0
INVARIANT LockWaitsUntilAcquired
