\* createPaddedAllocation of an unaligned host-pointer allocation.
CONSTANTS
    PageSize = 4
    AddrBits = 6
    RegBits = 8
    HeapStandard <- MCHeapStandard
    HeapExternal <- MCHeapExternal
    LimitedRange = TRUE
    CpuBase = 64
    Sizes = {3, 6}
    Alignments = {0, 8}
    HostPtrs = {8, 11}
    ImageSizes = {8}
    Paddings = {12}
    AllocIds = {1, 2, 3}
    MaxHandles = 3
    Faults = {}
    Ops = {"hostptr", "padded"}
    MmapAddrs = {}
    NoAlloc = NoAlloc
SPECIFICATION Spec
INVARIANTS
    BoMapsData
