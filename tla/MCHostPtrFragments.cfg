\* Host-pointer allocations on either backend: DRM with pin EFAULT, sharing a
\* registered allocation; WDDM with createAllocation failures and pending mappings.
CONSTANTS
    f1 = f1
    f2 = f2
    f3 = f3
    f4 = f4
    a1 = a1
    a2 = a2
    a3 = a3
    d1 = d1
    Keys = {f1, f2, f3, f4}
    Allocs = {a1, a2, a3}
    DriverAllocs = {d1}
    Requests <- MCRequests
    DriverKey <- MCDriverKey
    Backends = {"drm", "wddm"}
    ValidateHostPtrMemory = TRUE
    Faults = {"create"}
    MaxObjects = 2
SPECIFICATION Spec
INVARIANTS TypeOK KernelObjectsAccounted RefCountIsClaims
