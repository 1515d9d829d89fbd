\* WDDM createAllocationsAndMapGpuVa when a mapping fails.
CONSTANTS
    f1 = f1
    f2 = f2
    f3 = f3
    f4 = f4
    a1 = a1
    a2 = a2
    a3 = a3
    d1 = d1
    Keys = {f1, f2, f3, f4}
    Allocs = {a1, a2, a3}
    DriverAllocs = {d1}
    Requests <- MCRequests
    DriverKey <- MCDriverKey
    Backends = {"wddm"}
    ValidateHostPtrMemory = FALSE
    Faults = {"map"}
    MaxObjects = 2
SPECIFICATION Spec
INVARIANT KernelObjectsAccounted
