SPECIFICATION FairSpec
CONSTANTS
    Agents = {a1, a2}
    NoHolder = NoHolder
    LeaseDuration = 1
    Steps = 2
    MaxDelay = 2
    FaultKinds = {"crash", "term", "error"}
    MaxFaults = 1
INVARIANTS TypeOK RenewerInsideCriticalSection
PROPERTIES LeaseWrittenByHolder WaitersGetThrough
