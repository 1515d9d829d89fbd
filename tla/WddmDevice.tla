------------------------------ MODULE WddmDevice ------------------------------
(***************************************************************************)
(* The life of a Wddm object, src/runtime/os_interface/windows/wddm/      *)
(* wddm.cpp: Wddm::init opens the adapter DXGI reports for this driver,   *)
(* creates the device and the paging queue and configures the address     *)
(* space, returning false at the first step that fails; ~Wddm destroys    *)
(* what is open, in order.  Between the two, the OS contexts (outside     *)
(* src/) create their kernel contexts and trim-notification               *)
(* registrations on the device, and the memory manager reserves CPU       *)
(* address ranges with reserveValidAddressRange while other threads of    *)
(* the process reserve and release memory too.                            *)
(***************************************************************************)
EXTENDS Naturals, Sequences, FiniteSets

CONSTANTS
    AdapterLists,  \* what IDXGIFactory1::EnumAdapters1 may enumerate, in order
    InfPaths,      \* getIgdrclPath(): "dch_d", "dch_i" or "legacy" driver
    Contexts,      \* the OsContextWin objects
    NumSlots,      \* CPU address space: ranges 1..NumSlots, higher is higher
    MinAddress,    \* minAddress set by gmmMemory->configureDevice
    WddmAllocs,    \* the memory manager's WddmAllocation objects
    AllocFaults,   \* what may go wrong creating or opening one (AllocFaultNames)
    GpuVas,        \* GPU virtual ranges the kernel may reserve (raw VaBits-bit addresses)
    VaHolders      \* the callers' D3DGPU_VIRTUAL_ADDRESS variables passed to free

\* descriptions an adapter may have, and "unreadable" for a failing GetDesc1
AdapterDescs == {"intel", "intelDchD", "intelDchI", "other"}
Slots == 1..NumSlots
AllocFaultNames == {"createAllocation", "nullGmm", "queryShared", "queryNt", "openResource"}
\* GPU addresses have VaBits usable bits and are kept canonical (sign-extended)
\* in RegBits-bit registers
VaBits == 6
RegBits == 8

ASSUME
    /\ \A l \in AdapterLists : l \in Seq(AdapterDescs \cup {"unreadable"})
    /\ InfPaths \subseteq {"dch_d", "dch_i", "legacy"}
    /\ MinAddress \in Slots
    /\ AllocFaults \subseteq AllocFaultNames
    /\ GpuVas \subseteq 1..(2^VaBits - 1)

VARIABLES
    phase,        \* "constructed", "ready" (init true), "failed" (init false), "destroying", "destroyed"
    dtorPc,       \* the next call of ~Wddm
    adapter,      \* Wddm::adapter: description of the adapter open, "none" for 0
    device,       \* Wddm::device != 0
    pagingQueue,  \* Wddm::pagingQueue != 0
    ctx,          \* per OsContextWin: life, wddmContextHandle != 0, trim handle != nullptr
    vm,           \* owner of each CPU range: "free", "other" thread, "invalid" or "result"
    rpc,          \* reserveValidAddressRange: "idle" or in its retry "loop"
    walloc,       \* per WddmAllocation: NoAllocation, or its handle and whether it has a resource
    driverAdapter,\* (auxiliary) the first adapter enumerated for this driver, "none" if none
    vaReserved,   \* the kernel's reserved GPU virtual ranges, by raw base
    gpuPtr        \* per caller variable: the canonical GPU address it holds, 0 for none

vaVars == <<vaReserved, gpuPtr>>
vars == <<phase, dtorPc, adapter, device, pagingQueue, ctx, vm, rpc, walloc, driverAdapter, vaVars>>

CtxRecord == [life : {"unborn", "live", "dead"}, handle : BOOLEAN, trim : BOOLEAN]
\* a handle is a kernel allocation ("valid"), 0, or an uninitialized value
AllocRecord == [handle : {"valid", "zero", "garbage"}, resource : BOOLEAN]
NoAllocation == [handle |-> "none", resource |-> FALSE]

TypeOK ==
    /\ phase \in {"constructed", "ready", "failed", "destroying", "destroyed"}
    /\ dtorPc \in Nat
    /\ adapter \in AdapterDescs \cup {"none"}
    /\ device \in BOOLEAN /\ pagingQueue \in BOOLEAN
    /\ ctx \in [Contexts -> CtxRecord]
    /\ vm \in [Slots -> {"free", "other", "invalid", "result"}]
    /\ rpc \in {"idle", "loop"}
    /\ walloc \in [WddmAllocs -> AllocRecord \cup {NoAllocation}]
    /\ driverAdapter \in AdapterDescs \cup {"none"}
    /\ vaReserved \subseteq GpuVas
    /\ gpuPtr \in [VaHolders -> 0..(2^RegBits - 1)]

Init ==
    /\ phase = "constructed"
    /\ dtorPc = 1
    /\ adapter = "none" /\ device = FALSE /\ pagingQueue = FALSE
    /\ ctx = [c \in Contexts |-> [life |-> "unborn", handle |-> FALSE, trim |-> FALSE]]
    /\ vm = [s \in Slots |-> "free"]
    /\ rpc = "idle"
    /\ walloc = [a \in WddmAllocs |-> NoAllocation]
    /\ driverAdapter = "none"
    /\ vaReserved = {}
    /\ gpuPtr = [h \in VaHolders |-> 0]

-----------------------------------------------------------------------------
(* openAdapter.                                                            *)

\* (mutant: the DCH variant of the adapter is not compared with the inf)
SelectsAnyIntel(desc, path) == desc \in {"intel", "intelDchD", "intelDchI"}

\* the test on a readable description: Intel (or Citrix), and a DCH-D or
\* DCH-I adapter only for the driver installed by the matching inf
Selects(desc, path) ==
    /\ desc \in {"intel", "intelDchD", "intelDchI"}
    /\ desc = "intelDchD" => path = "dch_d"
    /\ desc = "intelDchI" => path = "dch_i"

\* the enumeration loop from adapter i: the last readable description is
\* kept in OpenAdapterDesc ("zero" if none); a selected adapter breaks out
RECURSIVE EnumAdapters(_, _, _, _)
EnumAdapters(list, i, desc, path) ==
    IF i > Len(list) THEN [desc |-> desc, found |-> FALSE]
    ELSE IF list[i] = "unreadable" THEN EnumAdapters(list, i + 1, desc, path)
    ELSE IF Selects(list[i], path) THEN [desc |-> list[i], found |-> TRUE]
    ELSE EnumAdapters(list, i + 1, list[i], path)

\* (mutant: the zero LUID is not told apart from an adapter's)
OpenAdapterZeroLuid(list, path, luidOpens) ==
    IF luidOpens THEN EnumAdapters(list, 1, "zero", path).desc ELSE "none"

\* openAdapterFromLuid(OpenAdapterDesc.AdapterLuid): a zero LUID opens
\* nothing; the result is the description of the adapter opened, or "none"
OpenAdapter(list, path, luidOpens) ==
    LET d == EnumAdapters(list, 1, "zero", path).desc
    IN IF d # "zero" /\ luidOpens THEN d ELSE "none"

-----------------------------------------------------------------------------
(* init.                                                                   *)

\* reference: the adapters this driver is for, whose description DXGI read
ForDriver(list, path) ==
    LET wanted == {"intel"} \cup (IF path = "dch_d" THEN {"intelDchD"} ELSE {})
                            \cup (IF path = "dch_i" THEN {"intelDchI"} ELSE {})
    IN {i \in 1..Len(list) : list[i] \in wanted}

\* reference: the description of the first of them
FirstForDriver(list, path) ==
    LET m == ForDriver(list, path)
    IN IF m = {} THEN "none" ELSE list[CHOOSE i \in m : \A j \in m : i <= j]

\* the steps of Wddm::init, in order; each returns false from init
InitSteps == <<"gdiInitialized", "openAdapter", "queryAdapterInfo", "hardwareInfoTable",
               "configureHwInfo", "createDevice", "createPagingQueue", "configureDeviceAddressSpace">>
StepIndex(name) == CHOOSE k \in 1..Len(InitSteps) : InitSteps[k] = name

\* createDevice and createPagingQueue set their handle on STATUS_SUCCESS
CreateDevice(stop) == stop > StepIndex("createDevice")
CreatePagingQueue(stop) == stop > StepIndex("createPagingQueue")

(* Wddm::init with the step that fails (Len(InitSteps) + 1: none): the    *)
(* adapter, device and paging queue handles are set by the steps reached. *)
WddmInit ==
    \E list \in AdapterLists, path \in InfPaths, fails \in 1..Len(InitSteps) + 1 :
        LET opened == OpenAdapter(list, path, fails # StepIndex("openAdapter"))
            stop == IF fails > StepIndex("openAdapter") /\ opened = "none"
                    THEN StepIndex("openAdapter") ELSE fails
        IN /\ phase = "constructed"
           /\ adapter' = IF stop > StepIndex("openAdapter") THEN opened ELSE "none"
           /\ device' = CreateDevice(stop)
           /\ pagingQueue' = CreatePagingQueue(stop)
           /\ phase' = IF stop > Len(InitSteps) THEN "ready" ELSE "failed"
           /\ driverAdapter' = FirstForDriver(list, path)
           /\ UNCHANGED <<dtorPc, ctx, vm, rpc, walloc, vaVars>>

-----------------------------------------------------------------------------
(* ~Wddm: resetPageTableManager (no kernel object), destroyPagingQueue    *)
(* and destroyDevice guarded by their handle, closeAdapter unguarded.     *)

\* (mutant: destroyPagingQueue left out)
DtorCallsWithoutPagingQueue == <<"destroyDevice", "closeAdapter">>

DtorCalls == <<"destroyPagingQueue", "destroyDevice", "closeAdapter">>

\* the handle after a destructor call: each call destroys its object and
\* sets the handle to 0 (destroying nothing when it is already 0)
DestroyPagingQueue(call) == pagingQueue /\ call # "destroyPagingQueue"
DestroyDevice(call) == device /\ call # "destroyDevice"
CloseAdapter(call) == IF call = "closeAdapter" THEN "none" ELSE adapter

DtorCall(call) ==
    /\ pagingQueue' = DestroyPagingQueue(call)
    /\ device' = DestroyDevice(call)
    /\ adapter' = CloseAdapter(call)

\* the object is destroyed once nothing else uses it: no context, no
\* allocation, and no reservation call is running
WddmDestroyStart ==
    /\ phase \in {"ready", "failed"}
    /\ \A c \in Contexts : ctx[c].life # "live"
    /\ \A a \in WddmAllocs : walloc[a] = NoAllocation
    /\ rpc = "idle"
    /\ phase' = "destroying"
    /\ UNCHANGED <<dtorPc, adapter, device, pagingQueue, ctx, vm, rpc, walloc, driverAdapter, vaVars>>

WddmDestroyStep ==
    /\ phase = "destroying"
    /\ DtorCall(DtorCalls[dtorPc])
    /\ dtorPc' = dtorPc + 1
    /\ phase' = IF dtorPc = Len(DtorCalls) THEN "destroyed" ELSE phase
    /\ UNCHANGED <<ctx, vm, rpc, walloc, driverAdapter, vaVars>>

-----------------------------------------------------------------------------
(* The OS contexts (OsContextWin, outside src/): createContext, whose     *)
(* failure leaves wddmContextHandle 0, then registerTrimCallback on the   *)
(* device, which returns nullptr under DoNotRegisterTrimCallback or on a  *)
(* failing registration; on destruction unregisterTrimCallback (a no-op   *)
(* for nullptr) and destroyContext (a no-op for handle 0).                *)

\* registerTrimCallback: a handle, or nullptr under the debug flag or when
\* registerTrimNotification fails
RegisterTrimCallback(doNotRegister, succeeds) == ~doNotRegister /\ succeeds

OsContextCreate(c) ==
    /\ phase = "ready" /\ ctx[c].life = "unborn"
    /\ \E created, doNotRegister, succeeds \in BOOLEAN :
          ctx' = [ctx EXCEPT ![c] = [life |-> "live", handle |-> created,
                                     trim |-> created /\ RegisterTrimCallback(doNotRegister, succeeds)]]
    /\ UNCHANGED <<phase, dtorPc, adapter, device, pagingQueue, vm, rpc, walloc, driverAdapter, vaVars>>

\* unregisterTrimCallback: returns at once for nullptr, otherwise
\* unregisterTrimNotification; no registration is left either way
UnregisterTrimCallback(registered) == FALSE

OsContextDestroy(c) ==
    /\ ctx[c].life = "live"
    /\ ctx' = [ctx EXCEPT ![c] = [life |-> "dead", handle |-> FALSE,
                                   trim |-> UnregisterTrimCallback(ctx[c].trim)]]
    /\ UNCHANGED <<phase, dtorPc, adapter, device, pagingQueue, vm, rpc, walloc, driverAdapter, vaVars>>

-----------------------------------------------------------------------------
(* Kernel allocations on the device.  The memory manager (outside src/)   *)
(* makes a WddmAllocation with one of the calls below and keeps it when   *)
(* the call reports success; it frees it with destroyAllocations.         *)

CanFail(f) == IF f \in AllocFaults THEN BOOLEAN ELSE {FALSE}

\* a call's result: its status, the handle it leaves in the allocation, and
\* whether it set the allocation's resourceHandle
Result(st, h, res) == [status |-> st, handle |-> h, resource |-> res]

\* createAllocation returns an NTSTATUS: for a null gmm it returns false,
\* which is STATUS_SUCCESS, before any kernel call and with outHandle unset
CreateAllocation(gmmNull, fails) ==
    CASE gmmNull -> Result("success", "zero", FALSE)
      [] fails   -> Result("failure", "zero", FALSE)
      [] OTHER   -> Result("success", "valid", FALSE)

\* (mutant: the status of D3DKMTCreateAllocation not checked)
CreateAllocation64kUnchecked(fails) ==
    Result("success", IF fails THEN "zero" ELSE "valid", FALSE)

CreateAllocation64k(fails) ==
    IF fails THEN Result("failure", "zero", FALSE) ELSE Result("success", "valid", FALSE)

\* openSharedHandle returns false when the query finds no allocation; a
\* failing openResource is ignored and allocationInfo[0], never written,
\* becomes the handle
OpenSharedHandle(queryFails, openFails) ==
    CASE queryFails -> Result("failure", "zero", FALSE)
      [] openFails  -> Result("success", "garbage", TRUE)
      [] OTHER      -> Result("success", "valid", TRUE)

\* openNTHandle has no such check: after a failing query NumAllocations is
\* 0, and allocationInfo2[0] is read past the end of an empty array
OpenNTHandle(queryFails, openFails) ==
    IF queryFails \/ openFails THEN Result("success", "garbage", TRUE)
                              ELSE Result("success", "valid", TRUE)

\* the memory manager makes one allocation with one of the four calls and
\* keeps it only when the call reports success
CreateWddmAllocation(a) ==
    /\ phase = "ready" /\ walloc[a] = NoAllocation
    /\ \E gmmNull \in CanFail("nullGmm"), kernelFails \in CanFail("createAllocation"),
         sharedQueryFails \in CanFail("queryShared"), ntQueryFails \in CanFail("queryNt"),
         openFails \in CanFail("openResource") :
       \E r \in {CreateAllocation(gmmNull, kernelFails), CreateAllocation64k(kernelFails),
                 OpenSharedHandle(sharedQueryFails, openFails), OpenNTHandle(ntQueryFails, openFails)} :
          walloc' = [walloc EXCEPT ![a] = IF r.status = "success"
                                           THEN [handle |-> r.handle, resource |-> r.resource]
                                           ELSE NoAllocation]
    /\ UNCHANGED <<phase, dtorPc, adapter, device, pagingQueue, ctx, vm, rpc, driverAdapter, vaVars>>

\* destroyAllocations(&handle, 1, resourceHandle)
DestroyAllocations(a) ==
    /\ walloc[a] # NoAllocation
    /\ walloc' = [walloc EXCEPT ![a] = NoAllocation]
    /\ UNCHANGED <<phase, dtorPc, adapter, device, pagingQueue, ctx, vm, rpc, driverAdapter, vaVars>>

-----------------------------------------------------------------------------
(* GPU virtual address ranges.  A caller (the memory manager, outside     *)
(* src/) reserves a range with reserveGpuVirtualAddress and keeps it in a *)
(* D3DGPU_VIRTUAL_ADDRESS canonized, as spec.md 4.1 asks of every stored  *)
(* GPU address; freeGpuVirtualAddress takes that variable by reference.   *)

\* GmmHelper::canonize / decanonize: sign-extend bit VaBits-1, or drop the
\* bits above VaBits
Canonize(a) == IF a >= 2^(VaBits - 1) THEN a + 2^RegBits - 2^VaBits ELSE a
Decanonize(a) == a % 2^VaBits

\* reserveGpuVirtualAddress: the kernel reserves any free range; a size not
\* a multiple of 64KB and a failing call are UNRECOVERABLE, so an exhausted
\* range is no step at all
ReserveGpuVirtualAddress(h) ==
    /\ phase = "ready" /\ gpuPtr[h] = 0
    /\ \E v \in GpuVas \ vaReserved :
          /\ vaReserved' = vaReserved \cup {v}
          /\ gpuPtr' = [gpuPtr EXCEPT ![h] = Canonize(v)]
    /\ UNCHANGED <<phase, dtorPc, adapter, device, pagingQueue, ctx, vm, rpc, walloc, driverAdapter>>

\* (mutant: the canonical address passed to the kernel as is)
FreeBaseRaw(ptr) == ptr

\* FreeGPUVA.BaseAddress = GmmHelper::decanonize(gpuPtr)
FreeBase(ptr) == Decanonize(ptr)

\* (mutant: the caller's variable left holding the freed address)
ResetGpuPtrSkipped(h) == gpuPtr

\* gpuPtr = 0, whatever the kernel answered
ResetGpuPtr(h) == [gpuPtr EXCEPT ![h] = 0]

\* freeGpuVirtualAddress(gpuPtr, size): the kernel frees the range at that
\* base if it is reserved and fails otherwise (0 included)
FreeGpuVirtualAddress(h) ==
    /\ phase = "ready"
    /\ vaReserved' = vaReserved \ {FreeBase(gpuPtr[h])}
    /\ gpuPtr' = ResetGpuPtr(h)
    /\ UNCHANGED <<phase, dtorPc, adapter, device, pagingQueue, ctx, vm, rpc, walloc, driverAdapter>>

-----------------------------------------------------------------------------
(* reserveValidAddressRange.  VirtualAlloc(MEM_RESERVE) may return any    *)
(* free range; with MEM_TOP_DOWN it returns the highest one; nullptr when *)
(* none is free.  Ranges below minAddress are kept in invalidAddrVector   *)
(* until a valid one (or nullptr) is returned, then all released.         *)

FreeSlots == {s \in Slots : vm[s] = "free"}
TopDown == IF FreeSlots = {} THEN 0 ELSE CHOOSE s \in FreeSlots : \A t \in FreeSlots : t <= s
\* (mutants: an invalid range released at once; the release loop left out)
KeepInvalidReleased(m, s) == m
FreeInvalidSkipped(m) == m
\* invalidAddrVector.push_back(reservedMem)
KeepInvalid(m, s) == [m EXCEPT ![s] = "invalid"]
\* the loop over invalidAddrVector calling virtualFree
FreeInvalid(m) == [s \in Slots |-> IF m[s] = "invalid" THEN "free" ELSE m[s]]

\* the first VirtualAlloc; nullptr (no free range) returns false unchanged
ReserveValidAddressRange ==
    /\ phase = "ready" /\ rpc = "idle"
    /\ \E s \in FreeSlots :
          IF s >= MinAddress
          THEN vm' = [vm EXCEPT ![s] = "result"] /\ UNCHANGED rpc
          ELSE vm' = KeepInvalid(vm, s) /\ rpc' = "loop"
    /\ UNCHANGED <<phase, dtorPc, adapter, device, pagingQueue, ctx, walloc, driverAdapter, vaVars>>

\* one iteration of the do-while loop, and on break the release and return
ReserveRetry ==
    LET r == TopDown IN
    /\ rpc = "loop"
    /\ IF r # 0 /\ r < MinAddress
       THEN vm' = KeepInvalid(vm, r) /\ UNCHANGED rpc
       ELSE /\ vm' = IF r = 0 THEN FreeInvalid(vm)
                     ELSE [FreeInvalid(vm) EXCEPT ![r] = "result"]
            /\ rpc' = "idle"
    /\ UNCHANGED <<phase, dtorPc, adapter, device, pagingQueue, ctx, walloc, driverAdapter, vaVars>>

\* releaseReservedAddress of a range reserveValidAddressRange returned
ReleaseReservedAddress(s) ==
    /\ vm[s] = "result"
    /\ vm' = [vm EXCEPT ![s] = "free"]
    /\ UNCHANGED <<phase, dtorPc, adapter, device, pagingQueue, ctx, rpc, walloc, driverAdapter, vaVars>>

\* another thread of the process reserves or releases a range
OtherThread(s) ==
    /\ \/ vm[s] = "free" /\ vm' = [vm EXCEPT ![s] = "other"]
       \/ vm[s] = "other" /\ vm' = [vm EXCEPT ![s] = "free"]
    /\ UNCHANGED <<phase, dtorPc, adapter, device, pagingQueue, ctx, rpc, walloc, driverAdapter, vaVars>>

Next ==
    \/ WddmInit
    \/ \E c \in Contexts : OsContextCreate(c) \/ OsContextDestroy(c)
    \/ ReserveValidAddressRange
    \/ ReserveRetry
    \/ \E s \in Slots : ReleaseReservedAddress(s) \/ OtherThread(s)
    \/ \E a \in WddmAllocs : CreateWddmAllocation(a) \/ DestroyAllocations(a)
    \/ \E h \in VaHolders : ReserveGpuVirtualAddress(h) \/ FreeGpuVirtualAddress(h)
    \/ WddmDestroyStart
    \/ WddmDestroyStep

\* the retry loop runs on the calling thread and VirtualAlloc does not block
Spec == Init /\ [][Next]_vars /\ WF_vars(ReserveRetry)

-----------------------------------------------------------------------------
(* Properties.                                                             *)

(* openAdapter opens the first enumerated adapter this driver is for,    *)
(* whenever there is one: a DCH adapter of the other inf, an unreadable   *)
(* description or a foreign adapter before it is skipped, and the loop    *)
(* stops at it.                                                           *)
AdapterMatchesDriver ==
    adapter # "none" /\ driverAdapter # "none" => adapter = driverAdapter

(* The adapter Wddm opens is an Intel one: the comments of openAdapter   *)
(* release "all the non-Intel adapters" and open the "Intel adapter ...   *)
(* found".  When none is found, OpenAdapterDesc still holds the last      *)
(* description read and openAdapterFromLuid opens that adapter.           *)
OpensOnlyIntelAdapter == adapter # "other"

(* Every WddmAllocation the memory manager keeps after a call reported   *)
(* success names a kernel allocation: createAllocation, createAllocation64k,*)
(* openSharedHandle and openNTHandle report success only once they set    *)
(* the handle from the kernel's answer.                                   *)
AllocationHandlesValid ==
    \A a \in WddmAllocs : walloc[a] # NoAllocation => walloc[a].handle = "valid"

(* Whatever step Wddm::init failed at, once ~Wddm has run no adapter,     *)
(* device, paging queue, context or trim registration is left open.      *)
NothingLeftOpen ==
    phase = "destroyed" =>
        /\ adapter = "none" /\ ~device /\ ~pagingQueue
        /\ \A c \in Contexts : ~ctx[c].handle /\ ~ctx[c].trim

(* When no reserveValidAddressRange call is running, none of the ranges   *)
(* below minAddress it reserved on the way is still reserved, and every   *)
(* range it returned lies at or above minAddress, whatever other threads  *)
(* reserved and released meanwhile.                                       *)
ReserveLeavesOnlyResult ==
    /\ rpc = "idle" => \A s \in Slots : vm[s] # "invalid"
    /\ \A s \in Slots : vm[s] = "result" => s >= MinAddress

(* The kernel's reserved GPU ranges are exactly the ones the callers'     *)
(* variables hold, each in one variable: freeGpuVirtualAddress hands the  *)
(* kernel the decanonized base of the canonical address, and zeroes the   *)
(* variable, so that freeing it again cannot release a range the kernel   *)
(* has since reserved for another caller.                                 *)
VaHeldExactly ==
    /\ vaReserved = {v \in GpuVas : \E h \in VaHolders : gpuPtr[h] = Canonize(v)}
    /\ \A h, k \in VaHolders : h # k /\ gpuPtr[h] # 0 => gpuPtr[h] # gpuPtr[k]

(* Every reserveValidAddressRange call returns: the ranges it keeps in    *)
(* invalidAddrVector cannot be handed out again, so the top-down retries  *)
(* run out of low ranges.                                                 *)
ReserveTerminates == rpc = "loop" ~> rpc = "idle"

=============================================================================
