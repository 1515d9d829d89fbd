\* An allocation opened from an NT handle whose resource query fails.
CONSTANTS
    AdapterLists <- MCAdapterLists
    InfPaths = {"legacy"}
    Contexts = {}
    NumSlots = 2
    MinAddress = 1
    WddmAllocs = {w1}
    AllocFaults = {"queryNt"}
    GpuVas = {}
    VaHolders = {}
SPECIFICATION Spec
INVARIANTS
    AllocationHandlesValid
