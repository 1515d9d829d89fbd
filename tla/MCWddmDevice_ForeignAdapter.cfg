\* Every enumeration of up to two adapters: which adapter init opens.
CONSTANTS
    AdapterLists <- MCAdapterLists
    InfPaths = {"dch_d", "dch_i", "legacy"}
    Contexts = {c1, c2}
    NumSlots = 4
    MinAddress = 3
    WddmAllocs = {}
    AllocFaults = {}
    GpuVas = {}
    VaHolders = {}
SPECIFICATION Spec
INVARIANTS
    OpensOnlyIntelAdapter
