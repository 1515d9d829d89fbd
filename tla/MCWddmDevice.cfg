\* init failing at every step, both contexts, reservations racing another thread,
\* allocations made while kernel calls fail, and two callers reserving and
\* freeing the one GPU range (40, whose canonical form 232 differs from it).
CONSTANTS
    AdapterLists <- MCAdapterLists
    InfPaths = {"dch_d", "dch_i", "legacy"}
    Contexts = {c1, c2}
    NumSlots = 4
    MinAddress = 3
    WddmAllocs = {w1, w2}
    AllocFaults = {"createAllocation", "queryShared"}
    GpuVas = {40}
    VaHolders = {h1, h2}
SPECIFICATION Spec
INVARIANTS
    TypeOK
    AdapterMatchesDriver
    NothingLeftOpen
    ReserveLeavesOnlyResult
    AllocationHandlesValid
    VaHeldExactly
PROPERTIES
    ReserveTerminates
