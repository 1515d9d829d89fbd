---------------------------- MODULE DrmAllocations ----------------------------
(***************************************************************************)
(* The allocation strategies of the Linux memory manager and their free, *)
(* src/runtime/os_interface/linux/drm_memory_manager.cpp 119-366, 455-526:*)
(* every entry point takes a GPU range from a heap of the partition, a    *)
(* GEM object from the kernel and possibly CPU memory, and must give all  *)
(* of them back when a later step fails.  Each entry point is one step:   *)
(* the heaps lock internally and these calls share no other state.        *)
(* Addresses are integers of AddrBits bits; a stored GPU address is in    *)
(* canonical form (bit AddrBits-1 sign-extended to RegBits bits).  CPU    *)
(* and GPU addresses are separate spaces.                                 *)
(***************************************************************************)
EXTENDS Naturals, FiniteSets, FiniteSetsExt

CONSTANTS
    PageSize,          \* MemoryConstants::pageSize (= allocationAlignment)
    AddrBits,          \* usable GPU address bits
    RegBits,           \* width of a stored (canonical) GPU address
    HeapStandard,      \* [base, size] of HEAP_STANDARD
    HeapExternal,      \* [base, size] of HEAP_EXTERNAL (the 32-bit heap)
    LimitedRange,      \* isLimitedRange()
    CpuBase,           \* what alignedMallocWrapper returns (aligned to all)
    Sizes,             \* requested allocation sizes (all > 0)
    Alignments,        \* requested alignments (0: none)
    HostPtrs,          \* user host pointers (CPU addresses, not 0)
    ImageSizes,        \* imgInfo->size of images
    Paddings,          \* sizeWithPadding asked of createPaddedAllocation
    AllocIds,          \* DrmAllocation identities (bound)
    MaxHandles,        \* GEM handles 1..MaxHandles (bound)
    Faults,            \* <<entry point, call>> pairs whose call may fail
    Ops,               \* the entry points this model exercises ("lock":
                       \* lockResource and unlockResource as well)
    MmapAddrs,         \* CPU addresses GEM_MMAP may map a BO at (bound)
    NoAlloc

OpNames == {"alignment", "svm", "hostptr", "bit32", "bit32host", "image", "padded"}
HeapNames == {"standard", "external"}
HeapRange == [h \in HeapNames |->
                IF h = "standard" THEN HeapStandard ELSE HeapExternal]
Span(base, size) == base .. (base + size - 1)
Addrs(h) == Span(HeapRange[h].base, HeapRange[h].size)

ASSUME
    /\ \A h \in HeapNames : /\ HeapRange[h].base > 0
                            /\ HeapRange[h].base + HeapRange[h].size <= 2^AddrBits
    /\ Faults \subseteq OpNames \X {"malloc", "userptr"}
    /\ Ops \subseteq OpNames \cup {"lock"}
    /\ MmapAddrs \subseteq Nat \ {0}

VARIABLES
    heapFree,    \* the free addresses of each heap
    gemOpen,     \* GEM handles open in the kernel
    cpuBlocks,   \* aligned-malloc blocks not yet freed
    allocs,      \* the live DrmAllocations
    lockedPtr,   \* GraphicsAllocation::lockedPtr of each allocation (0: null)
    boLocked,    \* BufferObject::lockedAddress of its BO (0: null)
    mapped       \* CPU addresses where a GEM_MMAP mapping is live

lockVars == <<lockedPtr, boLocked, mapped>>
vars == <<heapFree, gemOpen, cpuBlocks, allocs, lockedPtr, boLocked, mapped>>

Handles == 1..MaxHandles

(* A BufferObject: its GEM handle and the CPU range its userptr maps      *)
(* (ptr = size = 0 for a GEM_CREATE object).                              *)
BoRecord == [handle : Handles, ptr : Nat, size : Nat]

(* A DrmAllocation: the strategy that made it, GPU address and size       *)
(* (getGpuAddress, getUnderlyingBufferSize), CPU buffer (0: none) and the *)
(* length of the data there, the reserved range as stored, its BO, and    *)
(* whether the manager owns the CPU buffer (driverAllocatedCpuPtr).       *)
AllocRecord == [type : OpNames, gpu : Nat, size : Nat, cpu : Nat, len : Nat,
                resBase : Nat, resSize : Nat, bo : BoRecord, drv : BOOLEAN]

TypeOK ==
    /\ heapFree \in [HeapNames -> SUBSET Nat]
    /\ \A h \in HeapNames : heapFree[h] \subseteq Addrs(h)
    /\ gemOpen \subseteq Handles
    /\ cpuBlocks \in Nat
    /\ allocs \in [AllocIds -> AllocRecord \cup {NoAlloc}]
    /\ lockedPtr \in [AllocIds -> Nat]
    /\ boLocked \in [AllocIds -> {0} \cup MmapAddrs]
    /\ mapped \subseteq MmapAddrs

Init ==
    /\ heapFree = [h \in HeapNames |-> Addrs(h)]
    /\ gemOpen = {}
    /\ cpuBlocks = 0
    /\ allocs = [a \in AllocIds |-> NoAlloc]
    /\ lockedPtr = [a \in AllocIds |-> 0]
    /\ boLocked = [a \in AllocIds |-> 0]
    /\ mapped = {}

-----------------------------------------------------------------------------
(* Helpers of core/ and of GfxPartition, outside this source file.        *)

AlignUp(x, a) == ((x + a - 1) \div a) * a
AlignDown(x, a) == (x \div a) * a
\* alignSizeWholePage: the size of the whole pages under [ptr, ptr + size)
AlignSizeWholePage(ptr, size) ==
    AlignUp(ptr + size, PageSize) - AlignDown(ptr, PageSize)

\* GmmHelper::canonize: sign-extend bit AddrBits-1 of the low AddrBits bits
Canonize(a) ==
    LET low == a % 2^AddrBits
    IN IF low >= 2^(AddrBits - 1) THEN low + 2^RegBits - 2^AddrBits ELSE low
\* GmmHelper::decanonize: keep the low AddrBits bits
Decanonize(a) == a % 2^AddrBits

\* HeapAllocator::allocate: the size (passed by reference) is rounded up to
\* whole pages; the result is the lowest page-aligned free run, 0 if none
HeapSizeOf(size) == AlignUp(size, PageSize)
HeapAllocate(h, size) ==
    LET fits == {s \in heapFree[h] : /\ s % PageSize = 0
                                     /\ Span(s, HeapSizeOf(size)) \subseteq heapFree[h]}
    IN IF fits = {} THEN 0 ELSE Min(fits)

\* the heaps once heapAllocate(h, size) has returned base (0: unchanged)
Taken(h, base, size) ==
    IF base = 0 THEN heapFree
    ELSE [heapFree EXCEPT ![h] = @ \ Span(base, HeapSizeOf(size))]

\* HeapAllocator::free through gfxPartition->heapFree(h, base, size)
HeapFree(free, h, base, size) ==
    [free EXCEPT ![h] = @ \cup Span(base, HeapSizeOf(size))]

\* GfxPartition::freeGpuAddressRange: free in the heap that holds the
\* range; nothing when no heap does (address 0 included)
FreeGpuAddressRange(free, addr, size) ==
    IF \E h \in HeapNames : Span(addr, size) \subseteq Addrs(h)
    THEN HeapFree(free, CHOOSE h \in HeapNames : Span(addr, size) \subseteq Addrs(h),
                  addr, size)
    ELSE free

-----------------------------------------------------------------------------
(* Helpers of drm_memory_manager.cpp.                                     *)

\* acquireGpuRange(size, false)
AcquireGpuRange(size) == Canonize(HeapAllocate("standard", size))

\* Mutant: releaseGpuRange hands the range straight to the standard heap.
ReleaseGpuRangeUnchecked(free, addr, size) ==
    HeapFree(free, "standard", Decanonize(addr), size)

\* Mutant: the address is not decanonized first.
ReleaseGpuRangeRaw(free, addr, size) == FreeGpuAddressRange(free, addr, size)

\* releaseGpuRange: decanonize, then freeGpuAddressRange
ReleaseGpuRange(free, addr, size) ==
    FreeGpuAddressRange(free, Decanonize(addr), size)

\* the GEM handle a successful USERPTR or CREATE ioctl returns
NewHandle == Min(Handles \ gemOpen)

\* Mutant: bo->close() leaves the GEM handle open.
BoCloseSkipped(open, h) == open

\* bo->close(): GEM_CLOSE of the handle
BoClose(open, h) == open \ {h}

\* Mutant: alignedFreeWrapper does not free.
AlignedFreeSkipped(n) == n

\* alignedFreeWrapper of a block from alignedMallocWrapper
AlignedFreeWrapper(n) == n - 1

\* Mutant: the userptr size is that of the request, not of its pages.
UserptrSizeOfRequest(hostPtr, size) == AlignUp(size, PageSize)

\* alignSizeWholePage(hostPtr, size): the pages a user buffer touches
UserptrSize(hostPtr, size) == AlignSizeWholePage(hostPtr, size)

\* Mutant: the SVM_CPU padding of one alignment is dropped.
SvmReservedSizeUnpadded(cSize, cAlignment) == AlignUp(cSize, cAlignment)

\* the range reserved for SVM_CPU: room to align the start up
SvmReservedSize(cSize, cAlignment) == AlignUp(cSize, cAlignment) + cAlignment

FreeSlot == CHOOSE a \in AllocIds : allocs[a] = NoAlloc
NewAlloc(r) == allocs' = [allocs EXCEPT ![FreeSlot] = r]
Live == {a \in AllocIds : allocs[a] # NoAlloc}
CanFail(op, call) == IF <<op, call>> \in Faults THEN BOOLEAN ELSE {FALSE}

-----------------------------------------------------------------------------
(* Entry points.                                                           *)

(***************************************************************************)
(* allocateGraphicsMemoryWithAlignment (also a linear image): aligned     *)
(* malloc of cSize, allocUserptr over it and, with a limited range or for *)
(* SVM_CPU, a heap range (padded by one alignment and aligned up for      *)
(* SVM_CPU); each failure undoes the steps before it.  Without a range    *)
(* the BO keeps the CPU address allocUserptr gave it as GPU address.      *)
(***************************************************************************)
AllocateGraphicsMemoryWithAlignment(type, size, alignment, mallocFails, userptrFails) ==
    LET cAlignment == AlignUp(Max({alignment, PageSize}), PageSize)
        cSize == Max({AlignUp(size, PageSize), PageSize})
        svm == type = "svm"
        placed == LimitedRange \/ svm
        askSize == IF svm THEN SvmReservedSize(cSize, cAlignment) ELSE cSize
        gpuAddress == IF placed THEN AcquireGpuRange(askSize) ELSE 0
        alignedSize == IF placed THEN HeapSizeOf(askSize) ELSE askSize
        boGpu == IF ~placed THEN CpuBase
                 ELSE IF svm THEN AlignUp(gpuAddress, cAlignment) ELSE gpuAddress
        h == NewHandle
    IN
    \/ /\ mallocFails
       /\ UNCHANGED vars
    \/ /\ ~mallocFails /\ userptrFails
       /\ cpuBlocks' = AlignedFreeWrapper(cpuBlocks + 1)
       /\ UNCHANGED <<heapFree, gemOpen, allocs>>
    \/ /\ ~mallocFails /\ ~userptrFails /\ placed /\ gpuAddress = 0
       /\ gemOpen' = BoClose(gemOpen \cup {h}, h)
       /\ cpuBlocks' = AlignedFreeWrapper(cpuBlocks + 1)
       /\ UNCHANGED <<heapFree, allocs>>
    \/ /\ ~mallocFails /\ ~userptrFails /\ (~placed \/ gpuAddress # 0)
       /\ heapFree' = Taken("standard", Decanonize(gpuAddress), askSize)
       /\ gemOpen' = gemOpen \cup {h}
       /\ cpuBlocks' = cpuBlocks + 1
       /\ NewAlloc([type |-> type, gpu |-> boGpu, size |-> cSize,
                    cpu |-> CpuBase, len |-> cSize,
                    resBase |-> gpuAddress, resSize |-> alignedSize,
                    bo |-> [handle |-> h, ptr |-> CpuBase, size |-> cSize],
                    drv |-> TRUE])

(***************************************************************************)
(* allocateGraphicsMemoryForNonSvmHostPtr: a heap range for the pages     *)
(* under the user's buffer, a userptr BO over those pages; the allocation *)
(* is the user's pointer at its offset in the first page.                 *)
(***************************************************************************)
AllocateGraphicsMemoryForNonSvmHostPtr(hostPtr, size, userptrFails) ==
    LET alignedPtr == AlignDown(hostPtr, PageSize)
        alignedSize == UserptrSize(hostPtr, size)
        gpuVirtualAddress == AcquireGpuRange(alignedSize)
        taken == Taken("standard", Decanonize(gpuVirtualAddress), alignedSize)
        h == NewHandle
    IN
    \/ /\ gpuVirtualAddress = 0
       /\ UNCHANGED vars
    \/ /\ gpuVirtualAddress # 0 /\ userptrFails
       /\ heapFree' = ReleaseGpuRange(taken, gpuVirtualAddress, alignedSize)
       /\ UNCHANGED <<gemOpen, cpuBlocks, allocs>>
    \/ /\ gpuVirtualAddress # 0 /\ ~userptrFails
       /\ heapFree' = taken
       /\ gemOpen' = gemOpen \cup {h}
       /\ NewAlloc([type |-> "hostptr", gpu |-> gpuVirtualAddress + (hostPtr - alignedPtr),
                    size |-> size, cpu |-> hostPtr, len |-> size,
                    resBase |-> gpuVirtualAddress, resSize |-> HeapSizeOf(alignedSize),
                    bo |-> [handle |-> h, ptr |-> alignedPtr, size |-> alignedSize],
                    drv |-> FALSE])
       /\ UNCHANGED cpuBlocks

(***************************************************************************)
(* allocate32BitGraphicsMemoryImpl without a host pointer: a range of the *)
(* 32-bit heap, aligned malloc, userptr; failures free in reverse order.  *)
(***************************************************************************)
Allocate32BitGraphicsMemory(size, mallocFails, userptrFails) ==
    LET alignedAllocationSize == AlignUp(size, PageSize)
        res == HeapAllocate("external", alignedAllocationSize)
        allocationSize == HeapSizeOf(alignedAllocationSize)
        taken == Taken("external", res, alignedAllocationSize)
        h == NewHandle
    IN
    \/ /\ res = 0
       /\ UNCHANGED vars
    \/ /\ res # 0 /\ mallocFails
       /\ heapFree' = HeapFree(taken, "external", res, allocationSize)
       /\ UNCHANGED <<gemOpen, cpuBlocks, allocs>>
    \/ /\ res # 0 /\ ~mallocFails /\ userptrFails
       /\ cpuBlocks' = AlignedFreeWrapper(cpuBlocks + 1)
       /\ heapFree' = HeapFree(taken, "external", res, allocationSize)
       /\ UNCHANGED <<gemOpen, allocs>>
    \/ /\ res # 0 /\ ~mallocFails /\ ~userptrFails
       /\ heapFree' = taken
       /\ gemOpen' = gemOpen \cup {h}
       /\ cpuBlocks' = cpuBlocks + 1
       /\ NewAlloc([type |-> "bit32", gpu |-> Canonize(res), size |-> alignedAllocationSize,
                    cpu |-> CpuBase, len |-> alignedAllocationSize,
                    resBase |-> res, resSize |-> allocationSize,
                    bo |-> [handle |-> h, ptr |-> CpuBase, size |-> alignedAllocationSize],
                    drv |-> TRUE])

(***************************************************************************)
(* allocate32BitGraphicsMemoryImpl with a host pointer: a 32-bit range    *)
(* for the pages under the buffer and a userptr BO over them; the         *)
(* allocation is the user's pointer, its size the whole-page size.        *)
(***************************************************************************)
Allocate32BitGraphicsMemoryWithHostPtr(hostPtr, size, userptrFails) ==
    LET allocationSize == UserptrSize(hostPtr, size)
        gpuVirtualAddress == HeapAllocate("external", allocationSize)
        realAllocationSize == HeapSizeOf(allocationSize)
        alignedUserPointer == AlignDown(hostPtr, PageSize)
        taken == Taken("external", gpuVirtualAddress, allocationSize)
        h == NewHandle
    IN
    \/ /\ gpuVirtualAddress = 0
       /\ UNCHANGED vars
    \/ /\ gpuVirtualAddress # 0 /\ userptrFails
       /\ heapFree' = HeapFree(taken, "external", gpuVirtualAddress, realAllocationSize)
       /\ UNCHANGED <<gemOpen, cpuBlocks, allocs>>
    \/ /\ gpuVirtualAddress # 0 /\ ~userptrFails
       /\ heapFree' = taken
       /\ gemOpen' = gemOpen \cup {h}
       /\ NewAlloc([type |-> "bit32host",
                    gpu |-> Canonize(gpuVirtualAddress + (hostPtr - alignedUserPointer)),
                    size |-> allocationSize, cpu |-> hostPtr, len |-> size,
                    resBase |-> gpuVirtualAddress, resSize |-> realAllocationSize,
                    bo |-> [handle |-> h, ptr |-> alignedUserPointer, size |-> allocationSize],
                    drv |-> FALSE])
       /\ UNCHANGED cpuBlocks

(***************************************************************************)
(* allocateGraphicsMemoryForImageImpl of a tiled image: acquireGpuRange   *)
(* (its result is not checked), GEM_CREATE and set_tiling; imgInfo->size  *)
(* is rounded by the heap through the reference.                          *)
(***************************************************************************)
AllocateGraphicsMemoryForImage(imgSize) ==
    LET gpuRange == AcquireGpuRange(imgSize)
        size == HeapSizeOf(imgSize)
        h == NewHandle
    IN
    /\ heapFree' = Taken("standard", Decanonize(gpuRange), imgSize)
    /\ gemOpen' = gemOpen \cup {h}
    /\ NewAlloc([type |-> "image", gpu |-> gpuRange, size |-> size, cpu |-> 0, len |-> 0,
                 resBase |-> gpuRange, resSize |-> size,
                 bo |-> [handle |-> h, ptr |-> 0, size |-> 0], drv |-> FALSE])
    /\ UNCHANGED cpuBlocks

(***************************************************************************)
(* createPaddedAllocation: a range of sizeWithPadding (not checked), a    *)
(* userptr BO over alignUp(srcSize) bytes from the source's page start,   *)
(* and an allocation at the source's offset in that page.  A failing      *)
(* userptr returns without releasing the range.                           *)
(***************************************************************************)
CreatePaddedAllocation(input, sizeWithPadding, userptrFails) ==
    LET src == allocs[input]
        gpuRange == AcquireGpuRange(sizeWithPadding)
        paddedSize == HeapSizeOf(sizeWithPadding)
        alignedSrcSize == AlignUp(src.size, PageSize)
        alignedPtr == AlignDown(src.cpu, PageSize)
        taken == Taken("standard", Decanonize(gpuRange), sizeWithPadding)
        h == NewHandle
    IN
    /\ src.cpu # 0
    /\ \/ /\ userptrFails
          /\ heapFree' = taken
          /\ UNCHANGED <<gemOpen, cpuBlocks, allocs>>
       \/ /\ ~userptrFails
          /\ heapFree' = taken
          /\ gemOpen' = gemOpen \cup {h}
          /\ NewAlloc([type |-> "padded", gpu |-> Canonize(gpuRange + (src.cpu - alignedPtr)),
                       size |-> paddedSize, cpu |-> src.cpu, len |-> src.len,
                       resBase |-> gpuRange, resSize |-> paddedSize,
                       bo |-> [handle |-> h, ptr |-> alignedPtr, size |-> alignedSrcSize],
                       drv |-> FALSE])
          /\ UNCHANGED cpuBlocks

(***************************************************************************)
(* freeGraphicsMemoryImpl of an allocation without fragments or sharing: *)
(* unreference(bo, true) of its only reference closes the BO, then the    *)
(* reserved range is released and the driver's CPU buffer freed.          *)
(***************************************************************************)
FreeGraphicsMemory(a) ==
    LET x == allocs[a]
    IN
    /\ gemOpen' = BoClose(gemOpen, x.bo.handle)
    /\ heapFree' = ReleaseGpuRange(heapFree, x.resBase, x.resSize)
    /\ cpuBlocks' = IF x.drv THEN AlignedFreeWrapper(cpuBlocks) ELSE cpuBlocks
    /\ allocs' = [allocs EXCEPT ![a] = NoAlloc]

-----------------------------------------------------------------------------
(* CPU access.  lockResource and unlockResource of MemoryManager (outside *)
(* src/) call the Impl functions only for an allocation that is not, and  *)
(* that is, locked, and record the pointer in lockedPtr; the DRM manager  *)
(* has no local memory, so lockResourceInLocalMemoryImpl is never taken. *)

\* releaseReservedCpuAddressRange (outside src/): munmap of the range
ReleaseReservedCpuAddressRange(m, addr) == m \ {addr}

\* lockResourceImpl: an allocation with a CPU buffer is only moved to the
\* CPU domain (setDomainCpu, an ioctl whose result is ignored) and its
\* buffer returned; otherwise GEM_MMAP maps the BO, whose lockedAddress
\* records the mapping.  A failing GEM_MMAP returns nullptr and changes
\* nothing.
LockResource(a) ==
    /\ lockedPtr[a] = 0
    /\ \/ /\ allocs[a].cpu # 0
          /\ lockedPtr' = [lockedPtr EXCEPT ![a] = allocs[a].cpu]
          /\ UNCHANGED <<boLocked, mapped>>
       \/ /\ allocs[a].cpu = 0
          /\ \E m \in MmapAddrs \ mapped :
                /\ mapped' = mapped \cup {m}
                /\ boLocked' = [boLocked EXCEPT ![a] = m]
                /\ lockedPtr' = [lockedPtr EXCEPT ![a] = m]

\* bo->setLockedAddress(nullptr)
UnlockBo(a) == [boLocked EXCEPT ![a] = 0]

\* unlockResourceImpl: nothing for a CPU buffer; otherwise the BO's
\* mapping is released and its lockedAddress cleared
UnlockResource(a) ==
    /\ lockedPtr[a] # 0
    /\ lockedPtr' = [lockedPtr EXCEPT ![a] = 0]
    /\ IF allocs[a].cpu # 0
       THEN UNCHANGED <<boLocked, mapped>>
       ELSE /\ mapped' = ReleaseReservedCpuAddressRange(mapped, boLocked[a])
            /\ boLocked' = UnlockBo(a)

\* MemoryManager::freeGraphicsMemory: a locked allocation is unlocked
\* before freeGraphicsMemoryImpl
UnlockBeforeFree(a) ==
    IF lockedPtr[a] # 0 THEN UnlockResource(a) ELSE UNCHANGED lockVars

(* The application calls an entry point in Ops, with inputs from the     *)
(* constant sets and the failures Faults allows; AllocIds and MaxHandles   *)
(* bound the live allocations.                                            *)
CanAllocate(op) == op \in Ops /\ Live # AllocIds /\ gemOpen # Handles

CallWithAlignment ==
    \E t \in {"alignment", "svm"}, s \in Sizes, al \in Alignments :
    \E mf \in CanFail(t, "malloc"), uf \in CanFail(t, "userptr") :
        CanAllocate(t) /\ AllocateGraphicsMemoryWithAlignment(t, s, al, mf, uf)

CallForNonSvmHostPtr ==
    \E p \in HostPtrs, s \in Sizes, uf \in CanFail("hostptr", "userptr") :
        CanAllocate("hostptr") /\ AllocateGraphicsMemoryForNonSvmHostPtr(p, s, uf)

Call32Bit ==
    \E s \in Sizes, mf \in CanFail("bit32", "malloc"), uf \in CanFail("bit32", "userptr") :
        CanAllocate("bit32") /\ Allocate32BitGraphicsMemory(s, mf, uf)

Call32BitWithHostPtr ==
    \E p \in HostPtrs, s \in Sizes, uf \in CanFail("bit32host", "userptr") :
        CanAllocate("bit32host") /\ Allocate32BitGraphicsMemoryWithHostPtr(p, s, uf)

\* a linear image goes through allocateGraphicsMemoryWithAlignment
CallForLinearImage ==
    \E s \in ImageSizes, mf \in CanFail("image", "malloc"), uf \in CanFail("image", "userptr") :
        CanAllocate("image") /\ AllocateGraphicsMemoryWithAlignment("image", s, 0, mf, uf)

CallForTiledImage ==
    \E s \in ImageSizes : CanAllocate("image") /\ AllocateGraphicsMemoryForImage(s)

CallCreatePadded ==
    \E a \in Live, s \in Paddings, uf \in CanFail("padded", "userptr") :
        CanAllocate("padded") /\ CreatePaddedAllocation(a, s, uf)

CallFree == \E a \in Live : FreeGraphicsMemory(a) /\ UnlockBeforeFree(a)

CallLock ==
    \E a \in Live : "lock" \in Ops /\ LockResource(a)
                  /\ UNCHANGED <<heapFree, gemOpen, cpuBlocks, allocs>>

CallUnlock ==
    \E a \in Live : "lock" \in Ops /\ UnlockResource(a)
                  /\ UNCHANGED <<heapFree, gemOpen, cpuBlocks, allocs>>

\* the allocating entry points leave every lock untouched
Allocating ==
    \/ CallWithAlignment
    \/ CallForNonSvmHostPtr
    \/ Call32Bit
    \/ Call32BitWithHostPtr
    \/ CallForLinearImage
    \/ CallForTiledImage
    \/ CallCreatePadded

Next ==
    \/ Allocating /\ UNCHANGED lockVars
    \/ CallFree
    \/ CallLock
    \/ CallUnlock

Spec == Init /\ [][Next]_vars

-----------------------------------------------------------------------------
(* Properties.                                                             *)

\* the heap addresses an allocation holds: its reserved range as stored
Reserved(a) ==
    IF allocs[a].resBase = 0 THEN {}
    ELSE Span(Decanonize(allocs[a].resBase), allocs[a].resSize)

(* Every heap address is either free or reserved by exactly one live      *)
(* allocation: no entry point or failure path of it leaks a range, none   *)
(* hands out one twice, and freeGraphicsMemoryImpl's releaseGpuRange      *)
(* gives back exactly the reservation, whatever heap and canonical form.  *)
RangeAccounting ==
    \A h \in HeapNames : \A x \in Addrs(h) :
        Cardinality({a \in Live : x \in Reserved(a)})
          + (IF x \in heapFree[h] THEN 1 ELSE 0) = 1

(* The kernel's open GEM handles are exactly the BOs of live allocations, *)
(* one each, and the manager's malloc'd blocks are exactly the CPU        *)
(* buffers it owns: no failure path or free leaks or double-frees either. *)
BackingAccounting ==
    /\ gemOpen = {allocs[a].bo.handle : a \in Live}
    /\ Cardinality(gemOpen) = Cardinality(Live)
    /\ cpuBlocks = Cardinality({a \in Live : allocs[a].drv})

(* The userptr BO of an allocation maps all of the CPU data the           *)
(* allocation stands for (the user's buffer, or the padded source),      *)
(* including its tail in a last partial page.                             *)
BoMapsData ==
    \A a \in Live :
        allocs[a].len > 0 =>
            Span(allocs[a].cpu, allocs[a].len)
              \subseteq Span(allocs[a].bo.ptr, allocs[a].bo.size)

(* The GPU range an allocation reports, [getGpuAddress(),                 *)
(* + getUnderlyingBufferSize()), lies inside the range reserved for it:   *)
(* the SVM_CPU padding, the in-page offset of a host pointer and the      *)
(* canonical form of the address all have to agree.                      *)
AllocationInsideReservation ==
    \A a \in Live :
        allocs[a].resBase # 0 =>
            Span(Decanonize(allocs[a].gpu), allocs[a].size) \subseteq Reserved(a)

\* the strategies that place their allocation in a heap
Placed(a) ==
    \/ LimitedRange
    \/ allocs[a].type \in {"svm", "hostptr", "bit32", "bit32host", "padded"}
    \/ allocs[a].type = "image" /\ allocs[a].cpu = 0

(* An allocation whose strategy places it in a heap has a non-null        *)
(* reserved range: an exhausted heap fails the call instead of returning  *)
(* an allocation at GPU address 0.                                        *)
GpuRangeReserved ==
    \A a \in Live : Placed(a) => allocs[a].resBase # 0

=============================================================================
