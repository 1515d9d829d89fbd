--------------------------- MODULE DrmBufferObjects ---------------------------
(***************************************************************************)
(* The buffer-object lifecycle of the Linux (DRM) memory manager,         *)
(* src/runtime/os_interface/linux/drm_memory_manager.cpp:                 *)
(*   - import of a shared dma-buf fd (createGraphicsAllocationFromShared- *)
(*     Handle) with the sharingBufferObjects registry and its mutex;      *)
(*   - driver-allocated userptr buffers (allocateGraphicsMemoryWith-      *)
(*     Alignment);                                                         *)
(*   - freeGraphicsMemoryImpl and the step-by-step unreference of a       *)
(*     buffer object, run by several application threads at once;        *)
(*   - lockResourceImpl and unlockResourceImpl, which map a BO for the    *)
(*     CPU and record the mapping in the BO.                              *)
(* The kernel keeps one GEM handle per dma-buf per DRM fd: PRIME_FD_TO_   *)
(* HANDLE returns the open handle when there is one, and one GEM_CLOSE    *)
(* closes the handle for every holder.                                    *)
(***************************************************************************)
EXTENDS Naturals, FiniteSets, FiniteSetsExt

CONSTANTS
    Threads,       \* application threads calling into the memory manager
    Fds,           \* dma-buf file descriptors handed to the manager
    DmaBufs,       \* the external buffers those fds refer to
    DmaBufOf,      \* DmaBufOf[fd]: the buffer fd refers to
    BoIds,         \* identities of BufferObject instances (bound on live BOs)
    Handles,       \* GEM handle numbers of the DRM fd, 1..MaxHandles
    Vas,           \* GPU virtual-address ranges of the heap (model values)
    AllocIds,      \* identities of DrmAllocation instances (bound)
    LimitedRange,  \* isLimitedRange(): userptr BOs get a heap range too
    Maps,          \* CPU addresses GEM_MMAP may map a BO at (bound)
    NoThread, NoBo, NoFd, NullVa, NoAlloc, NoJob, NoObject, Userptr,
    NoMap, CpuPtr  \* a null pointer; the CPU buffer of a userptr allocation

ASSUME
    /\ DmaBufOf \in [Fds -> DmaBufs]
    /\ Handles \subseteq Nat \ {0}
    /\ LimitedRange \in BOOLEAN

VARIABLES
    mtx,                  \* DrmMemoryManager::mtx: owner or NoThread
    boState,              \* "live" while the BufferObject exists, else "free"
    refCount,             \* BufferObject::refCount
    isReused,             \* BufferObject::isReused
    boHandle,             \* BufferObject::handle
    boVa,                 \* BufferObject::gpuAddress (a heap range or NullVa)
    sharingBufferObjects, \* the registry of imported BOs
    gem,                  \* kernel: what each GEM handle is open on
    vaFree,               \* ranges free in the GPU address-space heap
    fdOpen,               \* fds open in the process
    allocs,               \* live DrmAllocations
    pc,                   \* program counter of each thread
    job,                  \* the allocation a thread is freeing
    lockedPtr,            \* GraphicsAllocation::lockedPtr
    boLocked,             \* BufferObject::lockedAddress
    mapped                \* CPU addresses where a GEM_MMAP mapping is live

lockVars == <<lockedPtr, boLocked, mapped>>
vars == <<mtx, boState, refCount, isReused, boHandle, boVa,
          sharingBufferObjects, gem, vaFree, fdOpen, allocs, pc, job,
          lockedPtr, boLocked, mapped>>

AllocRecord == [bo : BoIds, fd : Fds \cup {NoFd}, reserved : Vas \cup {NullVa}]

TypeOK ==
    /\ mtx \in Threads \cup {NoThread}
    /\ boState \in [BoIds -> {"live", "free"}]
    /\ refCount \in [BoIds -> Nat]
    /\ isReused \in [BoIds -> BOOLEAN]
    /\ boHandle \in [BoIds -> Handles \cup {NoObject}]
    /\ boVa \in [BoIds -> Vas \cup {NullVa}]
    /\ sharingBufferObjects \subseteq BoIds
    /\ gem \in [Handles -> DmaBufs \cup {Userptr, NoObject}]
    /\ vaFree \subseteq Vas
    /\ fdOpen \subseteq Fds
    /\ allocs \in [AllocIds -> AllocRecord \cup {NoAlloc}]
    /\ pc \in [Threads -> {"idle", "lock", "dec", "release"}]
    /\ job \in [Threads -> AllocRecord \cup {NoJob}]
    /\ lockedPtr \in [AllocIds -> Maps \cup {NoMap, CpuPtr}]
    /\ boLocked \in [BoIds -> Maps \cup {NoMap}]
    /\ mapped \subseteq Maps

Init ==
    /\ mtx = NoThread
    /\ boState = [b \in BoIds |-> "free"]
    /\ refCount = [b \in BoIds |-> 0]
    /\ isReused = [b \in BoIds |-> FALSE]
    /\ boHandle = [b \in BoIds |-> NoObject]
    /\ boVa = [b \in BoIds |-> NullVa]
    /\ sharingBufferObjects = {}
    /\ gem = [h \in Handles |-> NoObject]
    /\ vaFree = Vas
    /\ fdOpen = Fds
    /\ allocs = [a \in AllocIds |-> NoAlloc]
    /\ pc = [t \in Threads |-> "idle"]
    /\ job = [t \in Threads |-> NoJob]
    /\ lockedPtr = [a \in AllocIds |-> NoMap]
    /\ boLocked = [b \in BoIds |-> NoMap]
    /\ mapped = {}

-----------------------------------------------------------------------------
(* The kernel (GEM) interface and the address-space heap.                  *)

\* idr allocation of a GEM handle: the lowest free handle number
FreeHandles == {h \in Handles : gem[h] = NoObject}

\* DRM_IOCTL_PRIME_FD_TO_HANDLE: the open handle of d, else a new one
PrimeHandle(d) ==
    IF \E h \in Handles : gem[h] = d
    THEN CHOOSE h \in Handles : gem[h] = d
    ELSE Min(FreeHandles)

CanPrime(d) == (\E h \in Handles : gem[h] = d) \/ FreeHandles # {}

\* acquireGpuRange: canonize(heapAllocate(...)); an exhausted heap gives 0
AcquireGpuRange == IF vaFree = {} THEN NullVa ELSE CHOOSE v \in vaFree : TRUE

TakeVa(v) == IF v = NullVa THEN vaFree ELSE vaFree \ {v}

\* Mutant: address 0 is handed back to the heap like any other.
ReleaseGpuRangeUnchecked(free, v) == free \cup {v}

\* releaseGpuRange: decanonize and free; address 0 lies in no heap
ReleaseGpuRange(free, v) == IF v = NullVa THEN free ELSE free \cup {v}

FreeBoIds == {b \in BoIds : boState[b] = "free"}
FreeAllocIds == {a \in AllocIds : allocs[a] = NoAlloc}

-----------------------------------------------------------------------------
(* Import of a shared handle.                                              *)

\* Mutant: the lookup compares against a stale handle and never hits.
FindSharedBufferObjectMiss(h) == NoBo

\* findAndReferenceSharedBufferObject: the search of the registry
FindSharedBufferObject(h) ==
    IF \E b \in sharingBufferObjects : boHandle[b] = h
    THEN CHOOSE b \in sharingBufferObjects : boHandle[b] = h
    ELSE NoBo

\* Mutant: the hit is returned without bo->reference().
ReferenceBoForgotten(b) == refCount

\* bo->reference() on a registry hit
ReferenceBo(b) == [refCount EXCEPT ![b] = @ + 1]

\* createSharedBufferObject: a range from acquireGpuRange (0 when the heap
\* is exhausted, which is not checked) and a BufferObject of refCount 1
CreateSharedBufferObject(b, h, v) ==
    /\ boState' = [boState EXCEPT ![b] = "live"]
    /\ refCount' = [refCount EXCEPT ![b] = 1]
    /\ boHandle' = [boHandle EXCEPT ![b] = h]
    /\ boVa' = [boVa EXCEPT ![b] = v]
    /\ vaFree' = TakeVa(v)
    /\ boLocked' = [boLocked EXCEPT ![b] = NoMap]

\* pushSharedBufferObject: mark reused and add to the registry
PushSharedBufferObject(b) ==
    /\ isReused' = [isReused EXCEPT ![b] = TRUE]
    /\ sharingBufferObjects' = sharingBufferObjects \cup {b}

(***************************************************************************)
(* createGraphicsAllocationFromSharedHandle, all of it under mtx:          *)
(* PRIME_FD_TO_HANDLE, the registry lookup, and on a miss                 *)
(* createSharedBufferObject (acquireGpuRange, whose failure is not        *)
(* checked) and pushSharedBufferObject.  A failing ioctl returns nullptr  *)
(* having changed nothing, so it is a stuttering step left out.           *)
(***************************************************************************)
ImportSharedHandle(t, fd) ==
    LET d == DmaBufOf[fd]
        h == PrimeHandle(d)
        hit == FindSharedBufferObject(h)
        a == CHOOSE x \in FreeAllocIds : TRUE
    IN
    /\ pc[t] = "idle"
    /\ mtx = NoThread
    /\ FreeAllocIds # {}
    /\ fd \in fdOpen
    /\ CanPrime(d)
    /\ gem' = [gem EXCEPT ![h] = d]
    /\ IF hit # NoBo
       THEN /\ refCount' = ReferenceBo(hit)
            /\ allocs' = [allocs EXCEPT ![a] =
                            [bo |-> hit, fd |-> fd, reserved |-> NullVa]]
            /\ UNCHANGED <<boState, isReused, boHandle, boVa,
                           sharingBufferObjects, vaFree, boLocked>>
       ELSE /\ FreeBoIds # {}
            /\ LET b == CHOOSE x \in FreeBoIds : TRUE
                   v == AcquireGpuRange
               IN /\ CreateSharedBufferObject(b, h, v)
                  /\ PushSharedBufferObject(b)
                  /\ allocs' = [allocs EXCEPT ![a] =
                                  [bo |-> b, fd |-> fd, reserved |-> NullVa]]
    /\ UNCHANGED <<mtx, fdOpen, pc, job, lockedPtr, mapped>>

-----------------------------------------------------------------------------
(* Driver-allocated userptr buffers.                                       *)

(***************************************************************************)
(* allocateGraphicsMemoryWithAlignment: aligned malloc, allocUserptr (a    *)
(* GEM_USERPTR handle and a BufferObject of refCount 1), and when the     *)
(* range is limited a heap range, whose failure closes and deletes the    *)
(* BO.  A failing USERPTR ioctl returns nullptr and changes nothing.      *)
(***************************************************************************)
AllocateGraphicsMemoryWithAlignment(t) ==
    LET h == Min(FreeHandles)
        b == CHOOSE x \in FreeBoIds : TRUE
        a == CHOOSE x \in FreeAllocIds : TRUE
        v == IF LimitedRange THEN AcquireGpuRange ELSE NullVa
    IN
    /\ pc[t] = "idle"
    /\ FreeAllocIds # {}
    /\ FreeBoIds # {}
    /\ FreeHandles # {}
    /\ IF LimitedRange /\ v = NullVa
       THEN \* bo->close() undoes the USERPTR handle, delete bo, free res
            UNCHANGED <<gem, boState, refCount, boHandle, boVa, allocs, vaFree, boLocked>>
       ELSE /\ gem' = [gem EXCEPT ![h] = Userptr]
            /\ boState' = [boState EXCEPT ![b] = "live"]
            /\ refCount' = [refCount EXCEPT ![b] = 1]
            /\ boHandle' = [boHandle EXCEPT ![b] = h]
            /\ boVa' = [boVa EXCEPT ![b] = v]
            /\ vaFree' = TakeVa(v)
            /\ boLocked' = [boLocked EXCEPT ![b] = NoMap]
            /\ allocs' = [allocs EXCEPT ![a] =
                            [bo |-> b, fd |-> NoFd, reserved |-> v]]
    /\ UNCHANGED <<mtx, isReused, sharingBufferObjects, fdOpen, pc, job, lockedPtr, mapped>>

-----------------------------------------------------------------------------
(* CPU access.  lockResource and unlockResource of MemoryManager (outside *)
(* src/) call the Impl functions for an allocation that is not, and that  *)
(* is, locked, and keep the pointer in the allocation's lockedPtr.       *)

\* getUnderlyingBuffer() != nullptr: a userptr allocation has its CPU
\* buffer; an imported one was given bo->gpuAddress as its CPU pointer, so
\* only an import whose acquireGpuRange failed (gpuAddress 0) has none
HasCpuBuffer(a) == allocs[a].fd = NoFd \/ boVa[allocs[a].bo] # NullVa

\* lockResourceImpl: a CPU buffer is moved to the CPU domain (setDomainCpu,
\* result ignored) and returned; otherwise GEM_MMAP maps the BO and
\* bo->setLockedAddress records the mapping, which is returned.  A failing
\* GEM_MMAP returns nullptr and changes nothing.
LockResource(a) ==
    LET b == allocs[a].bo IN
    /\ lockedPtr[a] = NoMap
    /\ \/ /\ HasCpuBuffer(a)
          /\ lockedPtr' = [lockedPtr EXCEPT ![a] = CpuPtr]
          /\ UNCHANGED <<boLocked, mapped>>
       \/ /\ ~HasCpuBuffer(a)
          /\ \E m \in Maps \ mapped :
                /\ mapped' = mapped \cup {m}
                /\ boLocked' = [boLocked EXCEPT ![b] = m]
                /\ lockedPtr' = [lockedPtr EXCEPT ![a] = m]

\* unlockResourceImpl: nothing for a CPU buffer; otherwise
\* releaseReservedCpuAddressRange (munmap, outside src/) of the BO's
\* lockedAddress, which is then cleared
UnlockResource(a) ==
    LET b == allocs[a].bo IN
    /\ lockedPtr[a] # NoMap
    /\ lockedPtr' = [lockedPtr EXCEPT ![a] = NoMap]
    /\ IF HasCpuBuffer(a)
       THEN UNCHANGED <<boLocked, mapped>>
       ELSE /\ mapped' = mapped \ {boLocked[b]}
            /\ boLocked' = [boLocked EXCEPT ![b] = NoMap]

\* an application thread locks, or unlocks, one of its allocations
CallLock(t, a) ==
    /\ pc[t] = "idle" /\ allocs[a] # NoAlloc
    /\ LockResource(a)
    /\ UNCHANGED <<mtx, boState, refCount, isReused, boHandle, boVa,
                   sharingBufferObjects, gem, vaFree, fdOpen, allocs, pc, job>>

CallUnlock(t, a) ==
    /\ pc[t] = "idle" /\ allocs[a] # NoAlloc
    /\ UnlockResource(a)
    /\ UNCHANGED <<mtx, boState, refCount, isReused, boHandle, boVa,
                   sharingBufferObjects, gem, vaFree, fdOpen, allocs, pc, job>>

-----------------------------------------------------------------------------
(* freeGraphicsMemoryImpl and unreference, one step per racing section.    *)

\* freeGraphicsMemory (outside src/) unlocks a locked allocation, then
\* freeGraphicsMemoryImpl begins: the caller gives up allocation a
FreeGraphicsMemory(t, a) ==
    /\ pc[t] = "idle"
    /\ allocs[a] # NoAlloc
    /\ IF lockedPtr[a] # NoMap THEN UnlockResource(a) ELSE UNCHANGED lockVars
    /\ allocs' = [allocs EXCEPT ![a] = NoAlloc]
    /\ job' = [job EXCEPT ![t] = allocs[a]]
    /\ pc' = [pc EXCEPT ![t] = "lock"]
    /\ UNCHANGED <<mtx, boState, refCount, isReused, boHandle, boVa,
                   sharingBufferObjects, gem, vaFree, fdOpen>>

\* Mutant: unreference never takes mtx, even for a reused BO.
UnreferenceLockSkipped(t) ==
    LET b == job[t].bo IN
    /\ pc[t] = "lock"
    /\ ~isReused[b] => refCount[b] <= 1
    /\ pc' = [pc EXCEPT ![t] = "dec"]
    /\ UNCHANGED <<mtx, boState, refCount, isReused, boHandle, boVa,
                   sharingBufferObjects, gem, vaFree, fdOpen, allocs, job, lockVars>>

\* unreference(bo, !bo->isReused): a synchronous destroy spins until
\* refCount <= 1; a reused BO is then unreferenced under mtx
UnreferenceLock(t) ==
    LET b == job[t].bo IN
    /\ pc[t] = "lock"
    /\ ~isReused[b] => refCount[b] <= 1
    /\ IF isReused[b]
       THEN /\ mtx = NoThread
            /\ mtx' = t
       ELSE UNCHANGED mtx
    /\ pc' = [pc EXCEPT ![t] = "dec"]
    /\ UNCHANGED <<boState, refCount, isReused, boHandle, boVa,
                   sharingBufferObjects, gem, vaFree, fdOpen, allocs, job, lockVars>>

\* the rest of freeGraphicsMemoryImpl once unreference has returned:
\* close the shared fd, release the reserved range, delete the allocation
FinishFree(t, free) ==
    /\ fdOpen' = IF job[t].fd = NoFd THEN fdOpen ELSE fdOpen \ {job[t].fd}
    /\ vaFree' = ReleaseGpuRange(free, job[t].reserved)
    /\ pc' = [pc EXCEPT ![t] = "idle"]
    /\ job' = [job EXCEPT ![t] = NoJob]

\* Mutant: the test for the last reference uses the decremented value.
IsLastReferenceAfter(r) == r - 1 = 1

\* r == 1 after refCount.fetch_sub(1): this caller held the last reference
IsLastReference(r) == r = 1

\* Mutant: the early return keeps mtx (a released, not unlocked, lock).
UnlockOnReturnMissing(t) == mtx

\* the unique_lock going out of scope when unreference returns
UnlockOnReturn(t) == IF mtx = t THEN NoThread ELSE mtx

\* refCount.fetch_sub(1); a caller that was not last unlocks and returns
UnreferenceDec(t) ==
    LET b == job[t].bo
        r == refCount[b]
    IN
    /\ pc[t] = "dec"
    /\ refCount' = [refCount EXCEPT ![b] = r - 1]
    /\ IF IsLastReference(r)
       THEN /\ pc' = [pc EXCEPT ![t] = "release"]
            /\ UNCHANGED <<mtx, fdOpen, vaFree, job>>
       ELSE /\ mtx' = UnlockOnReturn(t)
            /\ FinishFree(t, vaFree)
    /\ UNCHANGED <<boState, isReused, boHandle, boVa,
                   sharingBufferObjects, gem, allocs, lockVars>>

\* Mutant: eraseSharedBufferObject drops the BO without releaseGpuRange.
EraseSharedRangeSkipped(b) == vaFree

\* eraseSharedBufferObject: releaseGpuRange of the BO and registry erase
EraseSharedRange(b) == ReleaseGpuRange(vaFree, boVa[b])

\* Mutant: eraseSharedBufferObject is never called.
EraseFromRegistrySkipped(b) == sharingBufferObjects

EraseFromRegistry(b) == sharingBufferObjects \ {b}

\* the last reference: eraseSharedBufferObject if reused, bo->close()
\* (GEM_CLOSE), unlock, delete bo; then the rest of freeGraphicsMemoryImpl
UnreferenceRelease(t) ==
    LET b == job[t].bo
        free == IF isReused[b] THEN EraseSharedRange(b) ELSE vaFree
    IN
    /\ pc[t] = "release"
    /\ sharingBufferObjects' = IF isReused[b] THEN EraseFromRegistry(b)
                                              ELSE sharingBufferObjects
    /\ gem' = [gem EXCEPT ![boHandle[b]] = NoObject]
    /\ mtx' = IF mtx = t THEN NoThread ELSE mtx
    /\ boState' = [boState EXCEPT ![b] = "free"]
    /\ isReused' = [isReused EXCEPT ![b] = FALSE]
    /\ boHandle' = [boHandle EXCEPT ![b] = NoObject]
    /\ boVa' = [boVa EXCEPT ![b] = NullVa]
    /\ FinishFree(t, free)
    /\ UNCHANGED <<refCount, allocs, lockVars>>

-----------------------------------------------------------------------------
(* The application exports the dma-buf again, giving it a new fd.          *)
ExportFd(fd) ==
    /\ fd \notin fdOpen
    /\ fdOpen' = fdOpen \cup {fd}
    /\ UNCHANGED <<mtx, boState, refCount, isReused, boHandle, boVa,
                   sharingBufferObjects, gem, vaFree, allocs, pc, job, lockVars>>

ThreadStep(t) ==
    \/ UnreferenceLock(t)
    \/ UnreferenceDec(t)
    \/ UnreferenceRelease(t)

Next ==
    \/ \E t \in Threads, fd \in Fds : ImportSharedHandle(t, fd)
    \/ \E t \in Threads : AllocateGraphicsMemoryWithAlignment(t)
    \/ \E t \in Threads, a \in AllocIds : FreeGraphicsMemory(t, a)
    \/ \E t \in Threads, a \in AllocIds : CallLock(t, a)
    \/ \E t \in Threads, a \in AllocIds : CallUnlock(t, a)
    \/ \E t \in Threads : ThreadStep(t)
    \/ \E fd \in Fds : ExportFd(fd)

(***************************************************************************)
(* Fairness: a thread inside unreference runs on (weak fairness of its    *)
(* steps); a thread blocked on mtx is eventually granted it when mtx is   *)
(* released again and again (strong fairness of the lock step), which is  *)
(* what a futex-based std::mutex gives a waiter.                          *)
(***************************************************************************)
Fairness ==
    \A t \in Threads :
        /\ SF_vars(UnreferenceLock(t))
        /\ WF_vars(UnreferenceDec(t))
        /\ WF_vars(UnreferenceRelease(t))

Spec == Init /\ [][Next]_vars
FairSpec == Spec /\ Fairness

-----------------------------------------------------------------------------
(* Properties.                                                             *)

InUnreference(t) == pc[t] \in {"lock", "dec", "release"}

LiveBos == {b \in BoIds : boState[b] = "live"}

\* No use after free: every allocation, every registry entry and every
\* unreference in progress points at a BufferObject that has not been
\* deleted.  Breaking it takes a free and an import of the same buffer
\* racing through unreference (fetch_sub, erase, delete) and the registry
\* lookup.
NoDanglingBo ==
    /\ \A a \in AllocIds : allocs[a] # NoAlloc => allocs[a].bo \in LiveBos
    /\ sharingBufferObjects \subseteq LiveBos
    /\ \A t \in Threads : InUnreference(t) => job[t].bo \in LiveBos

\* The reference count of a live BufferObject equals its holders: the
\* allocations that point at it and the unreference calls that have not
\* yet done their fetch_sub.
RefCountIsHolders ==
    \A b \in LiveBos :
        refCount[b] =
            Cardinality({a \in AllocIds : allocs[a] # NoAlloc /\ allocs[a].bo = b})
          + Cardinality({t \in Threads : pc[t] \in {"lock", "dec"} /\ job[t].bo = b})

\* Deduplication of imports: two live BufferObjects never share a GEM
\* handle (one GEM_CLOSE would close it under both), and the handle of a
\* live BufferObject is open in the kernel.
HandleExclusive ==
    /\ \A b1, b2 \in LiveBos : b1 # b2 => boHandle[b1] # boHandle[b2]
    /\ \A b \in LiveBos : gem[boHandle[b]] # NoObject

\* Every GPU address range of the heap is either free or owned by exactly
\* one holder: a registered shared BO (released by eraseSharedBufferObject)
\* or the reserved range of an allocation, live or being freed.
VaOwners(v) ==
    {<<"bo", b>> : b \in {x \in LiveBos : isReused[x] /\ boVa[x] = v}}
    \cup {<<"alloc", a>> : a \in {x \in AllocIds : allocs[x] # NoAlloc
                                                  /\ allocs[x].reserved = v}}
    \cup {<<"job", t>> : t \in {x \in Threads : job[x] # NoJob
                                               /\ job[x].reserved = v}}

VaAccounting ==
    \A v \in Vas : Cardinality(VaOwners(v)) + (IF v \in vaFree THEN 1 ELSE 0) = 1

\* When no thread is inside the manager and every allocation has been
\* freed, nothing acquired along the way is left: the registry is empty,
\* every GEM handle is closed, every BufferObject deleted, mtx released.
Quiescent == \A t \in Threads : pc[t] = "idle"

NoLeakWhenIdle ==
    Quiescent /\ FreeAllocIds = AllocIds =>
        /\ sharingBufferObjects = {}
        /\ FreeHandles = Handles
        /\ FreeBoIds = BoIds
        /\ vaFree = Vas
        /\ mtx = NoThread

\* Every free of an allocation eventually returns.
FreeCompletes == \A t \in Threads : pc[t] # "idle" ~> pc[t] = "idle"

\* Refinement: the reference counts of the BOs of each dma-buf and the
\* open GEM handles behave as SharedHandleRegistry says.
ImportsOf(d) ==
    MapThenSumSet(LAMBDA b : refCount[b],
                  {b \in LiveBos : boHandle[b] \in Handles /\ gem[boHandle[b]] = d})

Registry == INSTANCE SharedHandleRegistry WITH
    imports <- [d \in DmaBufs |-> ImportsOf(d)],
    mapped <- {d \in DmaBufs : \E h \in Handles : gem[h] = d}

RegistryRefinement == Registry!Spec

\* spec.md 4.1 and 7: a heap that cannot satisfy the request is a failed
\* allocation, so a registered shared BO always has a GPU range.
SharedBoHasGpuRange == \A b \in sharingBufferObjects : boVa[b] # NullVa

\* Ownership of the fd: freeGraphicsMemoryImpl closes the fd of a shared
\* allocation, and an fd is closed only while it is open (closing it a
\* second time would close whatever file reuses the number).
FdClosedOnlyWhenOpen ==
    [][\A t \in Threads :
         (InUnreference(t) /\ pc'[t] = "idle" /\ job[t].fd # NoFd)
             => job[t].fd \in fdOpen]_vars

\* A locked allocation's pointer stays valid until it is unlocked: every
\* mapping lockResource returned is still mapped.  lockedAddress is kept
\* per BufferObject but lockResource and unlockResource are per
\* allocation, and two imports of one dma-buf share the BufferObject.
LockedPtrMapped ==
    \A a \in AllocIds : lockedPtr[a] \in Maps => lockedPtr[a] \in mapped

=============================================================================
