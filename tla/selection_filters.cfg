SPECIFICATION FairSpec
CONSTANTS
    k1 = k1
    k2 = k2
    N = 3
    PageSize = 2
    Kinds <- MCKinds
    AllocationId <- MCAllocationId
    Filters <- MCFilters
    Invalid = Invalid
    MaxFilters = 2
    SortKey = k1
INVARIANT AllFiltersApply
CHECK_DEADLOCK FALSE
