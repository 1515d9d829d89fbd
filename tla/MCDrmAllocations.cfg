\* Every entry point but createPaddedAllocation and the 32-bit host-pointer
\* one, with malloc and userptr failures, on a limited range; lockResource
\* and unlockResource of every allocation.
CONSTANTS
    PageSize = 4
    AddrBits = 6
    RegBits = 8
    HeapStandard <- MCHeapStandard
    HeapExternal <- MCHeapExternal
    LimitedRange = TRUE
    CpuBase = 64
    Sizes = {3, 6}
    Alignments = {0, 8}
    HostPtrs = {8, 11}
    ImageSizes = {8}
    Paddings = {12}
    AllocIds = {1, 2, 3}
    MaxHandles = 3
    Faults <- MCAllFaults
    Ops = {"alignment", "svm", "hostptr", "bit32", "image", "lock"}
    MmapAddrs = {100, 104}
    NoAlloc = NoAlloc
SPECIFICATION Spec
INVARIANTS
    TypeOK
    RangeAccounting
    BackingAccounting
    BoMapsData
    AllocationInsideReservation
