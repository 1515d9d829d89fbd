CONSTANTS
    Threads = {t1, t2}
    f1 = f1
    f2 = f2
    f3 = f3
    d1 = d1
    d2 = d2
    Fds <- MCFds
    DmaBufs <- MCDmaBufs
    DmaBufOf <- MCDmaBufOf
    BoIds = {1, 2}
    Handles = {1, 2}
    Vas = {v1}
    AllocIds = {1, 2, 3}
    LimitedRange = TRUE
    NoThread = NoThread
    NoBo = NoBo
    NoFd = NoFd
    NullVa = NullVa
    NoAlloc = NoAlloc
    NoJob = NoJob
    NoObject = NoObject
    Userptr = Userptr
    NoMap = NoMap
    CpuPtr = CpuPtr
    Maps = {m1, m2}
SPECIFICATION Spec
INVARIANT LockedPtrMapped
