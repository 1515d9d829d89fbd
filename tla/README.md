# TLA+ models of the compute-runtime GPU memory manager

This directory holds TLA+ models of the memory manager in
`src/runtime/os_interface/linux/drm_memory_manager.cpp` (the Linux DRM
backend) and `src/runtime/os_interface/windows/wddm/wddm.cpp` (the Windows
WDDM kernel-driver interface), with the TLC configurations that check them.
`PROJECT.json` lists the components, the runs, the mutants that show each
property can fail, the map from every TLA+ definition to the source lines it
translates, the findings and the hazards.

## 1. Inventory

### Components, their state and operations

| Component | Source | State | Operations |
|---|---|---|---|
| Buffer Object lifecycle (DRM) | `drm_memory_manager.cpp` 87-117, 133-152 | `BufferObject::refCount` (atomic), `isReused`, `handle`, `gpuAddress`; the kernel's GEM handle table | `allocUserptr`, `unreference(bo, synchronous)`, `bo->close()` |
| Shared-handle registry (DRM) | 75-85, 368-453 | `sharingBufferObjects` (a vector), `mtx` | `createGraphicsAllocationFromSharedHandle` (PRIME_FD_TO_HANDLE, find-and-reference, create, push), `eraseSharedBufferObject` |
| Allocation strategies (DRM) | 160-366, 455-476 | the GPU heaps of `gfxPartition`, the allocation's reserved range, driver-allocated CPU pointer | `allocateGraphicsMemoryWithAlignment`, `...ForNonSvmHostPtr`, `...ForImageImpl`, `allocate32BitGraphicsMemoryImpl`, `createPaddedAllocation`, `freeGraphicsMemoryImpl` |
| Host-pointer fragments (DRM and WDDM) | 478-501, 545-605; `wddm.cpp` 353-397, 498-585 | `OsHandleStorage` fragments (BO, residency, `freeTheFragment`), the host-pointer manager | `populateOsHandles`, `cleanOsHandles`, `add/removeAllocationFromHostPtrManager`; `createAllocationsAndMapGpuVa`, `mapGpuVirtualAddress`, `destroyAllocations` |
| CPU mapping (DRM) | 611-673 | `BufferObject::lockedAddress` | `lockResourceImpl`, `unlockResourceImpl`, `setDomainCpu` |
| Residency and fences (WDDM) | `wddm.cpp` 304-351, 746-824, 963-970 | `currentPagingFenceValue`, the paging fence the GPU writes, per context `MonitoredFence{currentFenceValue, lastSubmittedFence, cpuAddress}` | `makeResident`, `evict`, `submit`, `waitOnGPU`, `waitFromCpu`, `handleCompletion`, `waitOnPagingFenceFromCpu`, `updatePagingFenceValue` |
| Allocation creation and GPU VA (WDDM) | 399-496, 587-700 | kernel allocation handles, GPU VA mappings, fragment handles | `createAllocation(64k)`, `reserve/freeGpuVirtualAddress`, `openSharedHandle`, `openNTHandle`, `lock/unlockResource` |
| Adapter and device setup (WDDM) | 62-302, 701-744, 864-961 | adapter, device, paging queue, contexts, trim callback | `init`, `openAdapter`, `createDevice`, `createPagingQueue`, `createContext`, `reserveValidAddressRange`, ... |
| GPU address-space partition | not under `src/` (`GfxPartition`) | heap base/limit and free ranges | `heapAllocate`, `heapFree`, `freeGpuAddressRange` |
| Command-stream definitions, ELF writer, unit tests | `csr_definitions.h`, `elf/writer.h`, `unit_tests/...`, `windows_wrapper.h` | constants and plain structs | none that change memory-manager state |

### How the components interact

Application threads call the DRM memory manager concurrently. An allocation
entry point takes a range from the partition (`acquireGpuRange`), asks the
kernel for backing (`DRM_IOCTL_I915_GEM_USERPTR`, `GEM_CREATE` or
`PRIME_FD_TO_HANDLE`), wraps the result in a `BufferObject` and that in a
`DrmAllocation`. Imports of shared fds go through the registry, under the
manager's one `mtx`; the kernel keeps one GEM handle per dma-buf, so the
registry is what keeps two `BufferObject`s from sharing a handle that one
`GEM_CLOSE` would close for both. Freeing runs `unreference` on every BO of
the allocation: a plain BO is destroyed synchronously (spin until
`refCount <= 1`), a reused one under `mtx`; the last reference erases the
registry entry, releases its range, closes the handle and deletes the BO.

On Windows, `makeResident` and `mapGpuVirtualAddress` may come back
`STATUS_PENDING` with a paging-fence value, which raises
`currentPagingFenceValue` by an interlocked max; `submit` makes the GPU
context wait for that paging fence before the command buffer runs, and then
advances the context's monitored fence. `handleCompletion` and `waitFromCpu`
wait for the GPU to write the monitored fence back.

### What is hard

- Interleavings: the last `fetch_sub` of a shared BO against an import that
  finds it in the registry; paging-fence
  updates from several threads against `submit`.
- Partial failure: every allocation path acquires a range, a kernel object
  and memory in some order and must give all of them back when a later step
  fails; several paths do not (section 4).
- Kernel protocol: handles shared between imports, `GEM_CLOSE` closing for
  all, fds owned by allocations.
- Waiting: spins on `refCount`, on the paging fence and on the monitored
  fence, none with a timeout.

### Properties that make each component correct

- BO lifecycle and registry: no use after free; the reference count equals
  the holders; at most one live BO per GEM handle and its handle is open;
  every GPU range is free or owned once; nothing is left when everything is
  freed; every free returns; the registry behaves as the abstract
  `SharedHandleRegistry`.
- Allocation strategies: a returned allocation has a non-null GPU range
  that lies inside its reservation; a failed call leaves no range, handle or
  memory behind; a free returns exactly what was reserved.
- Host-pointer fragments: overlapping host pages share one fragment and BO;
  a fragment is torn down once, with its last user; a failed population
  leaves no BO behind.
- Residency and fences: no command buffer runs before the paging fence it
  depends on; `lastSubmittedFence < currentFenceValue` and both only grow;
  a wait returns once the GPU has written the value.
- Adapter and device setup: the adapter opened is the one this driver is
  for; a failed `init` leaves nothing that `~Wddm` does not destroy;
  `reserveValidAddressRange` returns a
  range at or above `minAddress` and releases every other range it took.

## 2. Plan

Modules, in the order they are built (the most important behaviour first):

1. `SharedHandleRegistry` (abstract) and `DrmBufferObjects` with
   `MCDrmBufferObjects`: the BO lifecycle and the shared-handle registry
   under concurrent import and free. **Done.**
2. `DrmAllocations` with `MCDrmAllocations`: the allocation strategies of
   the DRM manager over two heaps of page-granular addresses, with their
   failure paths, and `freeGraphicsMemoryImpl`; properties on leaks and GPU
   addresses. **Done.**
3. `WddmResidency`: paging fence, `makeResident`, `submit`, monitored fence,
   `handleCompletion`, `waitFromCpu`, with a GPU process that executes
   submissions and writes fences; an abstract `ResidencyOrder` specification
   (no submission runs before its dependencies) refined by it. **Done.**
4. `HostPtrFragments`: the host-pointer manager (modelled from spec.md
   4.3) with both backends' population of new fragments: DRM
   `populateOsHandles`/`cleanOsHandles` and registered driver allocations,
   WDDM `createAllocationsAndMapGpuVa`/`destroyAllocations`. **Done.**
5. `WddmDevice`: `Wddm::init` with its early returns and `openAdapter`'s
   enumeration loop, `~Wddm`'s destroy calls, OS contexts with their kernel
   context and trim registration, `reserveValidAddressRange` racing other
   threads; kernel allocations made by `createAllocation(64k)`,
   `openSharedHandle` and `openNTHandle` and freed by `destroyAllocations`.
   **Done.**
6. Next: compose `mapGpuVirtualAddress`'s `STATUS_PENDING` with
   `WddmResidency` (a mapping's paging value must retire before a command
   buffer uses it); inject `operator new` and `GEM_CREATE` failures.
7. `lockResourceImpl`/`unlockResourceImpl` in `DrmAllocations` (private
   allocations) and `DrmBufferObjects` (shared imports). **Done.**
8. WDDM `reserve/freeGpuVirtualAddress` and `unregisterTrimCallback` in
   `WddmDevice`. **Done.**

Not modelled: `csr_definitions.h` and the ELF writer (data definitions),
and the unit tests.

## 3. Runs

### `drm_bo_lifecycle` (`MCDrmBufferObjects.cfg`, pass)

Module `DrmBufferObjects`. State: `mtx`; per BO `boState`, `refCount`,
`isReused`, `boHandle`, `boVa`; `sharingBufferObjects`; the kernel's GEM
table `gem` (handle -> dma-buf, userptr or nothing); the free heap ranges
`vaFree`; the open fds `fdOpen`; the live allocations `allocs`; per thread
a program counter `pc` and the allocation it is freeing `job`; the CPU
mapping state `lockedPtr` (per allocation: the pointer `lockResource`
returned, `NoMap` or the underlying buffer `CpuPtr`), `boLocked` (per BO:
`lockedAddress`) and `mapped` (the GEM_MMAP mappings not yet released).

Actions and the code they stand for:

- `ImportSharedHandle(t, fd)`: all of
  `createGraphicsAllocationFromSharedHandle` inside `mtx` (one atomic step,
  since every other user of the registry also holds `mtx`): PRIME_FD_TO_HANDLE
  (`PrimeHandle`: the open handle of the dma-buf or the lowest free one),
  `findAndReferenceSharedBufferObject`, or `createSharedBufferObject` +
  `pushSharedBufferObject`.
- `AllocateGraphicsMemoryWithAlignment(t)`: `allocUserptr` and, when the
  range is limited, `acquireGpuRange` whose failure closes and deletes the BO.
- `FreeGraphicsMemory(t, a)`, then `UnreferenceLock` (the spin of a
  synchronous destroy and `lock.lock()` for a reused BO), `UnreferenceDec`
  (`fetch_sub`; a caller that was not last unlocks and returns),
  `UnreferenceRelease` (erase, `close`, unlock, `delete`), each followed by
  the end of `freeGraphicsMemoryImpl` (`FinishFree`: close the shared fd,
  release the reserved range).
- `CallLock(t, a)` / `CallUnlock(t, a)`: `lockResourceImpl` (an allocation
  with an underlying buffer returns it; otherwise GEM_MMAP of the BO, stored
  as the BO's `lockedAddress` and returned). `HasCpuBuffer`: a userptr
  allocation has its buffer, and an import was given `bo->gpuAddress` as
  its CPU pointer (line 429), so only an import whose `acquireGpuRange`
  failed goes to GEM_MMAP and `unlockResourceImpl` (for a
  BO-backed allocation, unmap the BO's `lockedAddress` and clear it).
  `FreeGraphicsMemory` first unlocks a locked allocation, as
  `MemoryManager::freeGraphicsMemory` does.
- `ExportFd(fd)`: the application obtains the fd again (environment).

Bounds: 2 threads, 3 fds (two of dma-buf `d1`, one of `d2`), 2 BO
identities, 2 GEM handles, 1 heap range, 3 allocations, limited range on.
Two fds of one buffer make imports both hit and miss the registry; one heap
range makes exhaustion happen; 2 handles make handle numbers get reused;
3 allocations let one thread hold two imports of a buffer while the other
frees; 1 mmap address (`Maps`) lets a lock happen (two addresses bring the
run past seven minutes). About 113,700 distinct states, 45 seconds.

Properties: `TypeOK`; `NoDanglingBo`; `RefCountIsHolders`;
`HandleExclusive`; `VaAccounting`; `NoLeakWhenIdle`;
`RegistryRefinement` (the INSTANCE of `SharedHandleRegistry` with
`imports[d]` = sum of the reference counts of the live BOs on `d`'s handle
and `mapped` = the dma-bufs with an open handle); `FreeCompletes`.

Fairness: weak fairness on the fetch_sub and release steps (a thread inside
`unreference` keeps running) and strong fairness on the lock step (a thread
blocked on the futex-based `std::mutex` is woken when it is released again
and again). No fairness on the application's calls.

`SharedBoHasGpuRange` (an import never registers a BO at GPU address 0)
is stated in the module and is not a run: `MCDrmBufferObjects_SharedBoHasGpuRange.cfg`
shows two imports of different buffers with one heap range, the second
registering a BO at GPU address 0 (hazard at line 384).

`LockedPtrMapped` (a pointer returned by `lockResource` that came from
GEM_MMAP stays mapped until that allocation is unlocked) is stated in the
module and is not a run either: `MCDrmBufferObjects_LockedPtrMapped.cfg`
(two mmap addresses) shows an import of `f1` taking the one heap range,
then two imports of `f3` sharing BO 2 with GPU address 0, lock of
the first mapping `m1`, lock of the second mapping `m2` over the BO's
`lockedAddress`, and the free of the first unmapping `m2`, so the second
allocation's pointer dangles and `m1` is never unmapped (hazard at line 670).

### `drm_shared_fd_double_close` (violation)

`FdClosedOnlyWhenOpen`: two imports of fd `f1` share one BO; freeing both
closes `f1` twice.

### `drm_alloc_paths`, `drm_alloc_hostptr_paths` (pass)

Module `DrmAllocations`. The heaps are sets of free addresses:
`HEAP_STANDARD` is [36, 52) and `HEAP_EXTERNAL` (32-bit) is [4, 20), with
4-byte pages. GPU addresses have 6 bits and are stored canonical in 8 bits,
so standard-heap addresses change under `canonize`. The other state is
`gemOpen` (open GEM handles), `cpuBlocks` (blocks from
`alignedMallocWrapper` not yet freed) and `allocs` (per allocation: type,
`getGpuAddress()`, size, CPU pointer, data length, reserved range as
stored, BO handle and userptr range, `driverAllocatedCpuPtr`).

Each entry point is one action (`Call...`), because the heap allocator
locks internally and the paths share no other state. `Faults` is a set of
<<entry point, call>> pairs; every ioctl or malloc failure it allows is a branch that undoes what the code undoes:

- `AllocateGraphicsMemoryWithAlignment` (also for linear images).
- `AllocateGraphicsMemoryForNonSvmHostPtr`.
- `Allocate32BitGraphicsMemory[WithHostPtr]`.
- `AllocateGraphicsMemoryForImage` (tiled images).
- `CreatePaddedAllocation`.
- `FreeGraphicsMemory` (`unreference(bo, true)` of the only reference,
  `releaseGpuRange`, `alignedFreeWrapper`), after `UnlockBeforeFree`
  (`MemoryManager::freeGraphicsMemory` unlocks a locked allocation first).
- `CallLock` / `CallUnlock` (`lockResourceImpl` / `unlockResourceImpl`): an
  allocation with a CPU pointer is returned as is; otherwise GEM_MMAP maps
  the BO at an address of `MmapAddrs`, recorded in `boLocked` (the BO's
  `lockedAddress`), and unlock releases `boLocked` and clears it. Only
  when "lock" is in `Ops`.

`HeapAllocate` takes the lowest fitting page-aligned run and rounds the
size (passed by reference) to pages. This matters because the code keeps
the rounded size as the reservation.

Inputs: sizes {3, 6}, alignments {0, 8}, host pointers {8, 11} (page
aligned and 3 bytes into a page), tiled image size 8, padding 12, 3
allocations and 3 GEM handles. A heap of 4 pages runs out after two or
three allocations, so the exhausted-heap branches fire. The unaligned host
pointer is what the page-rounding properties are about.

Properties:

- `RangeAccounting`: each heap address is free or reserved by exactly one
  live allocation.
- `BackingAccounting`: the open GEM handles are exactly the live BOs, and
  the malloc'd blocks are exactly the owned CPU buffers.
- `BoMapsData`: the userptr BO covers the allocation's data.
- `AllocationInsideReservation`: [gpu, gpu+size) lies in the reserved
  range.

The two runs split the entry points so that each property is checked
where the code is meant to satisfy it:

- `drm_alloc_paths`: limited range, all entry points except the padded and
  32-bit host-pointer ones, which break `AllocationInsideReservation`
  (findings), with every malloc and userptr failure; the four properties above. Lock and unlock run here too
  (`MmapAddrs` = {100, 104}); with one allocation per BO no property about
  them says more than the code's assignments, so none is checked. About
  102,000 states.
- `drm_alloc_hostptr_paths`: full range (so allocations without a heap
  range take the CPU address), every entry point, every failure except the
  padded userptr ioctl, which leaks (finding); the two accounting
  properties.

### `drm_padded_userptr_leak` (violation)

- `RangeAccounting`: `createPaddedAllocation` leaks its range when userptr
  fails.

Four more counterexamples of the same module are kept as configurations
and listed as hazards rather than runs:

- `MCDrmAllocations_PaddedTail.cfg` (`BoMapsData`): the padded BO misses the
  tail of an unaligned source.
- `MCDrmAllocations_ImageNullRange.cfg` (`GpuRangeReserved`): a tiled image
  is made at GPU address 0 when the heap is exhausted.
- `MCDrmAllocations_Bit32HostSize.cfg` (`AllocationInsideReservation`):
  the 32-bit host-pointer allocation has the address
  `gpuVirtualAddress + offset` and the whole-page size, so it overruns its
  reservation by the in-page offset.
- The padded allocation also fails `AllocationInsideReservation`: its GPU
  address is `gpuRange + offset` with size `sizeWithPadding`.

### `wddm_residency_safety` (`MCWddmResidency.cfg`, pass) and `wddm_calls_return` (`MCWddmResidency_Liveness.cfg`, pass)

`WddmResidency` models one CPU thread per context (`c1`, `c2`) sharing the
`Wddm` object and two allocations (`x1`, `x2`), and the GPU as three
processes: the paging queue (`PagingComplete` writes `*pagingFenceAddress`
in order), and per context an engine that performs a queued GPU wait
(`EngineWait`) or runs the oldest command buffer and writes its fence value
into the monitored-fence tag (`EngineExecute`). A thread's call is split at
the points where another thread or the GPU can step in, with `pc[c]` as its
program counter:

- `MakeResident` is `makeResident` with its three outcomes (SUCCESS, PENDING,
  failure only without `cantTrimFurther`); on PENDING the kernel hands out
  the next paging value and `UpdatePagingFenceValue` publishes it with
  `interlockedMax`, as a separate step.
- `SubmitCheck`, `WaitOnGPU`, `SubmitCommandBuffer`, `UpdateMonitoredFence`
  are `submit`: the read of `currentPagingFenceValue` against the paging
  fence, the GPU wait on the current value, the kernel submit with
  `currentFenceValue`, and then the update of `lastSubmittedFence` and
  `currentFenceValue`.
- `HandleCompletion`/`HandleCompletionReturns`, `WaitFromCpu`/
  `WaitFromCpuReturns` and `WaitOnPagingFenceFromCpu`/`PagingSpinReturns`
  are the three CPU waits, a read followed by a spin.
- `Evict` is the residency controller (outside `src/`) trimming an allocation
  that no queued command buffer uses.

Bounds: `MaxPaging` = 2 paging values and `MaxSubmits` = 2 command buffers
per context for the safety run (937k states, about 2 minutes); this is
enough for both threads to get distinct paging values, publish them in
either order, and for one thread to submit with a value it did not create.
The liveness run keeps `MaxSubmits` = 1.

Properties:

- `FenceCoherent`: the queued command buffers of a context carry exactly the
  fence values `tag+1 .. lastSubmittedFence`, and `lastSubmittedFence <
  currentFenceValue`, even while the GPU writes the tag between the kernel
  submit and the monitored-fence update.
- `CompletionDrainsContext` (action property): `handleCompletion` returns
  only when no command buffer of its context is queued.
- `ResidencyRespected`: the model implements `ResidencyOrder` under the
  mapping issued = last paging value handed out, retired = paging fence,
  queue = the paging values each queued command buffer needs; so no command
  buffer runs before the paging of its allocations retired, whichever thread
  made them resident.
- `CallsReturn`: under weak fairness of every thread step, the paging queue
  and each engine (the GPU keeps running; the CPU threads are scheduled by
  the OS), every call returns. Waits have no timeout in the code, so this is
  what makes them terminate.

### `hostptr_fragments` (`MCHostPtrFragments.cfg`, pass)

Module `HostPtrFragments`. A fragment (page-aligned `cpuPtr` and
`fragmentSize`) is a model value `f1`..`f4`; a request is the list of
fragments `getAllocationRequirements` makes of a host pointer (at most
`maxFragmentsCount` = 3). State:

- `backend`: DRM or WDDM, chosen at Init and never changed.
- `fragments[k]`: the host-pointer manager's refCount and
  `driverAllocation` flag.
- `objects[k]`: the kernel objects (userptr BOs or WDDM allocation handles)
  alive for fragment `k`. Counting them rather than naming them is enough:
  the properties ask who owns each one.
- `hostAllocs`, `driverAllocs`: the live allocations.

Each call is one atomic action, since `prepareOsStorageForAllocation` runs
under the host-pointer manager's lock:

- `AllocateGraphicsMemoryWithHostPtr(a, req, r)` reuses the stored
  fragments and gives the others to the backend's populate step `r`:
  - `PopulateOsHandlesDrm` makes userptr BOs in slot order (the first
    failing one marked), then a pin with result ok, EFAULT (all marked) or
    another error (none marked);
  - `CreateAllocationsAndMapGpuVa` makes one batch `createAllocation` that
    may fail, then per slot `MapGpuVirtualAddress` with SUCCESS, PENDING or
    failure (only the failing slot marked).
  On failure the backend's `cleanOsHandles` (`CleanOsHandles`,
  `DestroyAllocations`) frees the marked fragments that got an object.
- `FreeHostPtrAllocation` releases each fragment once, and the
  backend's clean step frees those whose last reference went.
- `AddAllocationToHostPtrManager` and `FreeDriverAllocation` (with
  `RemoveAllocationFromHostPtrManager`) cover a DRM allocation registered
  over its own memory, which host-pointer requests over `f1` then reuse.

Bounds: 3 allocations, 4 fragments, the requests `<<f1, f2>>`, `<<f2, f3>>`,
`<<f1>>` and `<<f2, f3, f4>>`. Pairs of them share `f1` or `f2`. The 3-fragment
request has a reused first fragment and new later ones, which is the case
the partial-failure paths are about. About 375 states.

Properties:

- `KernelObjectsAccounted`: every kernel object belongs to exactly one
  stored fragment or registered allocation.
- `RefCountIsClaims`: a fragment's refCount is the number of live
  allocations that claim it.

The pass run leaves out the faults the code gets wrong.
`drm_populate_userptr_leak` (`Faults = {"userptr"}`) and
`wddm_map_failure_leak` (`Faults = {"map"}`) show `KernelObjectsAccounted`
violated. With `Faults = {"pin"}` the DRM pin error leaks in the same way
(hazard at line 579).

### `wddm_device_lifecycle` (`MCWddmDevice.cfg`, pass)

Module `WddmDevice`. State:

- `phase`: constructed, ready (`init` returned true), failed, destroying,
  destroyed; `dtorPc` is the next call of `~Wddm`.
- `adapter`: the description of the adapter `Wddm::adapter` refers to, or
  none.
- `device`, `pagingQueue`: whether the handles are non-zero. A destroy call
  does not fail on a valid handle, so a handle is non-zero exactly while its
  kernel object is open.
- `ctx[c]` per OS context: life, `wddmContextHandle != 0`, trim handle
  non-null.
- `walloc[a]` per WddmAllocation of the memory manager: none, or the
  handle it holds (a kernel handle, zero, or memory the kernel never wrote)
  and whether `resourceHandle` was set.
- `vm[s]` per CPU range: free, held by another thread, held in
  `invalidAddrVector`, or returned by `reserveValidAddressRange`; `rpc`: the
  call is idle or in its retry loop.
- `driverAdapter`: an auxiliary variable, set at `init` to what the
  reference definition `FirstForDriver` picks from the enumeration.
- `vaReserved`: the GPU virtual ranges the kernel has reserved, by raw
  base; `gpuPtr[h]`: the canonical address a caller's
  `D3DGPU_VIRTUAL_ADDRESS` variable holds, 0 for none. Addresses have 6
  usable bits in 8-bit registers, so `Canonize(40)` is 232.

Actions:

- `WddmInit` is one step: every enumeration of up to two adapters, every
  driver inf and every failing step of `init`. `OpenAdapter` runs the
  enumeration loop `EnumAdapters`, a RECURSIVE operator, as the code does:
  - an unreadable description keeps the previous `OpenAdapterDesc`;
  - `Selects` is the nested `wcsstr` test;
  - a zero LUID opens nothing.
  The handles are set by the steps `init` reached before it returned.
- `WddmDestroyStart` and `WddmDestroyStep`: `~Wddm` runs one call per step,
  in the order of `DtorCalls`. `destroyPagingQueue` and `destroyDevice` are
  guarded by their handle; `closeAdapter` is not guarded.
- `OsContextCreate`/`OsContextDestroy`: the OS context (outside `src/`)
  creates its kernel context, then registers the trim callback. Either may
  fail, and `DoNotRegisterTrimCallback` may skip the registration. Destroy
  calls `unregisterTrimCallback` and `destroyContext`, each a no-op on a
  null handle. The owner deletes the Wddm only after its contexts, with no
  reservation call running.
- `CreateWddmAllocation`: the memory manager (outside `src/`) makes an
  allocation with one of `CreateAllocation`, `CreateAllocation64k`,
  `OpenSharedHandle` and `OpenNTHandle`, and keeps it when the call reports
  success. Each operator gives the call's status and the handle it leaves:
  - `createAllocation` with a null gmm returns `false`, which is
    `STATUS_SUCCESS`, without setting `outHandle`;
  - `openSharedHandle` fails when the query finds no allocation, but
    ignores a failing `openResource`;
  - `openNTHandle` checks neither.
  Which kernel calls may fail is the constant `AllocFaults`.
  `DestroyAllocations` frees a kept allocation. The Wddm is deleted only
  after every allocation is freed.
- `ReserveValidAddressRange` and `ReserveRetry`: the first `VirtualAlloc`
  may return any free range. The top-down retries return the highest free
  range. `OtherThread` reserves and releases ranges in between;
  `ReleaseReservedAddress` frees a returned range.
- `ReserveGpuVirtualAddress(h)` and `FreeGpuVirtualAddress(h)`: a caller
  (the memory manager, outside `src/`) reserves a range and keeps it
  canonized, as spec.md 4.1 asks. A failing reservation is
  `UNRECOVERABLE_IF`, so an exhausted range is no step at all. Free passes
  the kernel `decanonize(gpuPtr)`, which it frees if reserved and rejects
  otherwise, and then zeroes the variable whatever the answer. A caller
  may free its variable at any time, again included.

Bounds: 4 ranges with `minAddress` at range 3, so two ranges are invalid
and the loop can run twice; two contexts; every list of at most two
adapters over {intel, DCH-D, DCH-I, other, unreadable}. This covers a DCH
adapter of the other inf before a plain Intel one, an unreadable
description, and no adapter at all. Two allocations, with
`createAllocation(64k)` and `queryResourceInfo` failing. Two caller
variables and one GPU range (40, not canonical as is): a second caller
can get the range the first one freed, and the range runs out. About
338,000 states, 1 minute 40 seconds.

Properties:

- `AdapterMatchesDriver`: when an adapter for this driver was enumerated,
  it is the one opened.
- `NothingLeftOpen`: after `~Wddm`, whatever step `init` failed at, nothing
  is left open.
- `ReserveLeavesOnlyResult`: when no call is running, no range below
  `minAddress` is held, and every returned range is at or above it.
- `AllocationHandlesValid`: every allocation kept after a call reported
  success holds a handle the kernel returned.
- `VaHeldExactly`: the kernel's reserved GPU ranges are exactly those
  the callers' variables hold, each in one variable. A free that left the
  variable set (mutant `ResetGpuPtrSkipped`) or passed the canonical
  address (`FreeBaseRaw`) breaks it.
- `ReserveTerminates`: every call returns, under weak fairness of
  `ReserveRetry`. The loop runs on the calling thread and `VirtualAlloc`
  does not block, so fairness is justified.

`OpensOnlyIntelAdapter` (the adapter opened is never a foreign one) is
stated but not a run. `MCWddmDevice_ForeignAdapter.cfg` shows an
enumeration with no adapter for this driver. There, the loop leaves the
last description read in `OpenAdapterDesc`, and `openAdapterFromLuid`
opens that adapter (hazard at line 285).

### `wddm_open_nt_handle` (`MCWddmDevice_OpenNtHandle.cfg`, violation)

`AllocationHandlesValid` with `queryResourceInfoFromNtHandle` failing.
`openNTHandle` does not check the query's status or `NumAllocations == 0`,
as `openSharedHandle` does. It allocates an empty array, ignores the
failing open, reads `allocationInfo2[0]` past the end as the handle and
the GMM resource info, and returns `true`.

`openSharedHandle` with a failing `openResource`, and `createAllocation`
with a null gmm, fail the same property. `wddm_device_lifecycle` does not
inject those faults (`AllocFaults`).

## 4. Findings

See `PROJECT.json` "findings":

- The double close of a shared fd that was imported twice.
- The GPU range leak of `createPaddedAllocation` when userptr fails.
- `openNTHandle` returning success with an out-of-bounds handle after a
  failing query.
- The BOs `populateOsHandles` leaves behind when a later userptr fails.
- The WDDM handles `createAllocationsAndMapGpuVa` leaves behind when a
  mapping fails.

The hazards list has more that the models show but no run checks:

- the unchecked `acquireGpuRange` of shared BOs and tiled images;
- the unlock of one import of a shared dma-buf unmapping the mapping
  another import was given, once the heap was exhausted (`LockedPtrMapped`);
- `lockResourceImpl` returning an import's GPU address as its CPU pointer
  (line 429, 637);
- the padded allocation's unmapped tail and overrun;
- the oversized 32-bit host-pointer allocation;
- the pin-error leak;
- `openAdapter` opening a foreign adapter when none is for this driver,;
- `openSharedHandle` ignoring a failing `openResource`.

The code has two more oddities that no hazard lists.
`closeAdapter(0)` runs from the destructor of a Wddm whose `openAdapter`
failed; it changes no state. `createAllocation` returns success for a null
gmm, but the callers always pass one.

## 5. Not modelled, and why

- In `DrmBufferObjects` a heap range is a model value. Sizes, alignment and
  canonization are modelled in `DrmAllocations`.
- `GfxPartition` and `HeapAllocator` are not under `src/` and are modelled
  from their use (spec_modelled in the map). In `DrmAllocations`,
  `heapAllocate` takes the lowest fitting run, and `freeGpuAddressRange`
  frees in the heap that contains the range or does nothing.
- 32-bit allocations use `HEAP_EXTERNAL` only. The internal heaps behave
  the same.
- Failure of `operator new (std::nothrow)`: not injected yet (hazard list).
- CPU mapping: `setDomainCpu`'s SET_DOMAIN ioctl changes no modelled state;
  a failing GEM_MMAP returns nullptr with no change and is a stutter;
  `lockResourceInLocalMemoryImpl` is never taken, since no DRM allocation
  is in `MemoryPool::LocalMemory`.
- `HostPtrFragments` treats fragments as identical or disjoint. The
  classification of partly overlapping ranges (`checkAllocationsForOverlapping`)
  is outside `src/` and not modelled. `mapGpuVirtualAddress`'s paging-fence
  update is not composed with `WddmResidency` yet.
- The host-pointer manager counts a reference to a reused fragment only for
  a call that succeeds, as spec.md 4.3 and 7 describe.
- `WddmDevice` abstracts `queryAdapterInfo`, `configureHwInfo` and
  `configureDeviceAddressSpace` to steps of `init` that may fail. The data
  they copy (hardware info, GMM partition, registry path) is read by no
  other operation modelled here. `initGfxPartition`, the KMDAF and escape
  helpers, and `updateAuxTable` are not modelled. The OS context and the
  owner of the Wddm are outside `src/` and are modelled as its environment.
  `reserveGpuVirtualAddress`, `freeGpuVirtualAddress` and
  WDDM `lockResource`/`unlockResource` are a `lock2`/`unlock2` call whose
  only effect is the pointer the caller reads, and the temporary-resource
  `makeResidentResource` they may call is outside `src/`; they are not
  modelled.
- A `makeResident` failure with `cantTrimFurther` set ends the process
  (`UNRECOVERABLE_IF`, as spec.md 5 requires). No state follows it, so
  `WddmResidency` lets only a call without `cantTrimFurther` fail.
- Ioctls that fail without changing state (a closed fd, no free handle) are
  stuttering steps and left out.
