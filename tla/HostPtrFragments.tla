--------------------------- MODULE HostPtrFragments ---------------------------
(***************************************************************************)
(* Host-pointer allocations and the fragment manager (spec.md 4.3), with  *)
(* the kernel objects each backend creates for new fragments:            *)
(*                                                                         *)
(*  - DRM: DrmMemoryManager::populateOsHandles (one userptr BO per new    *)
(*    fragment, then an optional pin of all of them), cleanOsHandles, and  *)
(*    add/removeAllocationToHostPtrManager for allocations the manager    *)
(*    itself backs;                                                        *)
(*  - WDDM: Wddm::createAllocationsAndMapGpuVa (one createAllocation for  *)
(*    all new fragments, then mapGpuVirtualAddress per fragment) and      *)
(*    destroyAllocations.                                                  *)
(*                                                                         *)
(* A fragment (a page-aligned cpuPtr/fragmentSize pair) is a model value  *)
(* in Keys; a request is the list of fragments getAllocationRequirements  *)
(* splits a host pointer into, at most maxFragmentsCount of them.  Kernel *)
(* objects (BOs, WDDM allocation handles) are counted per fragment.  The  *)
(* host-pointer manager and the callers around populateOsHandles are not  *)
(* under src/ and are modelled from spec.md 4.3 and 7.                    *)
(***************************************************************************)
EXTENDS Naturals, FiniteSets, Sequences, FiniteSetsExt, SequencesExt

CONSTANTS
    Backends,               \* the backends the manager may be: "drm", "wddm"
    Keys,                   \* page-aligned host-pointer fragments
    Requests,               \* fragment lists of host-pointer requests
    Allocs,                 \* host-pointer graphics allocations
    DriverAllocs,           \* DRM allocations registered as fragments
    DriverKey,              \* DriverKey[d]: the fragment of allocation d
    ValidateHostPtrMemory,  \* DrmMemoryManager::validateHostPtrMemory
    Faults,                 \* subset of {"userptr", "pin", "create", "map"}
    MaxObjects              \* bound on kernel objects per fragment

\* maxFragmentsCount of OsHandleStorage
MaxFragmentsCount == 3

ASSUME /\ Backends \subseteq {"drm", "wddm"}
       /\ \A r \in Requests : /\ r \in Seq(Keys)
                              /\ 1 <= Len(r) /\ Len(r) <= MaxFragmentsCount
                              /\ \A i, j \in 1..Len(r) : i # j => r[i] # r[j]
       /\ DriverKey \in [DriverAllocs -> Keys]
       /\ MaxObjects \in Nat \ {0}

NoAlloc == <<>>
NoFragment == [ref |-> 0, driver |-> FALSE]

VARIABLES
    backend,       \* the OS backend of this memory manager
    fragments,     \* fragments[k]: refCount and driverAllocation of the
                   \* host-pointer manager's entry for k (ref 0: none)
    objects,       \* objects[k]: kernel objects alive that back fragment k
    hostAllocs,    \* hostAllocs[a]: the fragments of allocation a
    driverAllocs   \* driverAllocs[d]: allocation d exists

vars == <<backend, fragments, objects, hostAllocs, driverAllocs>>

TypeOK ==
    /\ backend \in Backends
    /\ fragments \in [Keys -> [ref : Nat, driver : BOOLEAN]]
    /\ objects \in [Keys -> Nat]
    /\ hostAllocs \in [Allocs -> Requests \cup {NoAlloc}]
    /\ driverAllocs \in [DriverAllocs -> BOOLEAN]

Init ==
    /\ backend \in Backends
    /\ fragments = [k \in Keys |-> NoFragment]
    /\ objects = [k \in Keys |-> 0]
    /\ hostAllocs = [a \in Allocs |-> NoAlloc]
    /\ driverAllocs = [d \in DriverAllocs |-> FALSE]

Stored(k) == fragments[k].ref > 0
Slots(req) == 1..Len(req)
KeysAt(req, S) == {req[i] : i \in S}
Incr(f, ks) == [k \in Keys |-> IF k \in ks THEN f[k] + 1 ELSE f[k]]

\* The fragments populateAlreadyAllocatedFragments does not find: they get
\* no osHandleStorage, so populateOsHandles makes kernel objects for them.
NewSlots(req) == {i \in Slots(req) : ~Stored(req[i])}

(***************************************************************************)
(* Host-pointer manager (not under src/; spec.md 4.3).                    *)
(***************************************************************************)

\* storeFragment: a new entry with refCount 1, or one more reference.
StoreFragment(f, driver) ==
    IF f.ref > 0 THEN [f EXCEPT !.ref = @ + 1]
                 ELSE [ref |-> 1, driver |-> driver]

\* releaseHostPtr: one reference less; the entry goes with the last one.
ReleaseHostPtr(f) ==
    IF f.ref = 1 THEN NoFragment ELSE [f EXCEPT !.ref = @ - 1]

(***************************************************************************)
(* DRM                                                                     *)
(***************************************************************************)

\* Mutant: EFAULT returns InvalidHostPointer without marking the BOs.
PopulateOsHandlesDrmUnmarked(req, failSlot, pin) ==
    LET created == {i \in NewSlots(req) : failSlot = 0 \/ i < failSlot}
    IN  CASE failSlot # 0 ->
               [created |-> created, marked |-> {failSlot}, status |-> "error"]
          [] pin = "efault" ->
               [created |-> created, marked |-> {}, status |-> "invalid"]
          [] pin = "other" ->
               [created |-> created, marked |-> {}, status |-> "error"]
          [] OTHER ->
               [created |-> created, marked |-> {}, status |-> "success"]

\* populateOsHandles: allocUserptr for each new fragment in slot order; the
\* first that fails is marked freeTheFragment and the call returns Error
\* with the BOs made so far.  Otherwise pinBB->pin of all of them: EFAULT
\* marks all and returns InvalidHostPointer, another error returns Error.
PopulateOsHandlesDrm(req, failSlot, pin) ==
    LET created == {i \in NewSlots(req) : failSlot = 0 \/ i < failSlot}
    IN  CASE failSlot # 0 ->
               [created |-> created, marked |-> {failSlot}, status |-> "error"]
          [] pin = "efault" ->
               [created |-> created, marked |-> created, status |-> "invalid"]
          [] pin = "other" ->
               [created |-> created, marked |-> {}, status |-> "error"]
          [] OTHER ->
               [created |-> created, marked |-> {}, status |-> "success"]

\* Mutant: the freeTheFragment test dropped, every fragment is freed.
CleanOsHandlesAll(objs, ks) == [k \in Keys |-> objs[k] - 1]

\* cleanOsHandles: every fragment marked freeTheFragment that has a BO has
\* it unreferenced (its last reference, so closed).
CleanOsHandles(objs, ks) ==
    [k \in Keys |-> IF k \in ks THEN objs[k] - 1 ELSE objs[k]]

\* The pin results the kernel can give: success, EFAULT for a host pointer
\* it cannot pin, and (as a fault) another error.
PinResults ==
    IF ValidateHostPtrMemory
    THEN {"ok", "efault"} \cup (IF "pin" \in Faults THEN {"other"} ELSE {})
    ELSE {"ok"}

(***************************************************************************)
(* WDDM                                                                    *)
(***************************************************************************)

\* Mutant: STATUS_PENDING taken for a failure.
MapGpuVirtualAddressNoPending(status) == status = "success"

\* mapGpuVirtualAddress: STATUS_PENDING counts as success (after
\* updatePagingFenceValue); any other status than SUCCESS is a failure.
MapGpuVirtualAddress(status) == status \in {"success", "pending"}

\* createAllocationsAndMapGpuVa: nothing to do without new fragments; one
\* createAllocation for all of them, which may fail with nothing made;
\* then, slot by slot, the handle is stored and mapped, and the first
\* mapping that fails marks its fragment and returns NO_VIDEO_MEMORY.
CreateAllocationsAndMapGpuVa(req, createFails, mapStatus) ==
    LET new == NewSlots(req)
        failed == {i \in new : ~MapGpuVirtualAddress(mapStatus[i])}
    IN  CASE new = {} ->
               [created |-> {}, marked |-> {}, status |-> "success"]
          [] createFails ->
               [created |-> {}, marked |-> {}, status |-> "novideomemory"]
          [] failed # {} ->
               [created |-> new, marked |-> {Min(failed)},
                status |-> "novideomemory"]
          [] OTHER ->
               [created |-> new, marked |-> {}, status |-> "success"]

\* Mutant: the handles of all fragments of the storage destroyed.
DestroyAllocationsAll(objs, ks) == [k \in Keys |-> objs[k] - 1]

\* destroyAllocations of the handles of the given fragments.
DestroyAllocations(objs, ks) ==
    [k \in Keys |-> IF k \in ks THEN objs[k] - 1 ELSE objs[k]]

MapStatuses ==
    {"success", "pending"} \cup (IF "map" \in Faults THEN {"fail"} ELSE {})

\* The backend's cleanOsHandles: DrmMemoryManager::cleanOsHandles, or
\* WddmMemoryManager's, which destroys the marked fragments' handles.
Clean(objs, ks) ==
    IF backend = "drm" THEN CleanOsHandles(objs, ks)
                       ELSE DestroyAllocations(objs, ks)

(***************************************************************************)
(* The memory manager's calls                                              *)
(***************************************************************************)

\* prepareOsStorageForAllocation: the fragments found are reused, the
\* backend's populateOsHandles makes the others; on success each new one is
\* stored and each reused one gets a reference; on failure cleanOsHandles
\* runs and no allocation is made.
AllocateGraphicsMemoryWithHostPtr(a, req, r) ==
    LET made == Incr(objects, KeysAt(req, r.created))
    IN  /\ hostAllocs[a] = NoAlloc
        /\ \A k \in KeysAt(req, NewSlots(req)) : objects[k] < MaxObjects
        /\ IF r.status = "success"
           THEN /\ fragments' = [k \in Keys |->
                      IF k \in ToSet(req) THEN StoreFragment(fragments[k], FALSE)
                                          ELSE fragments[k]]
                /\ hostAllocs' = [hostAllocs EXCEPT ![a] = req]
                /\ objects' = made
           ELSE /\ objects' = Clean(made, KeysAt(req, r.marked \cap r.created))
                /\ UNCHANGED <<fragments, hostAllocs>>
        /\ UNCHANGED driverAllocs

\* cleanGraphicsMemoryCreatedFromHostPtr: releaseHandleStorage drops one
\* reference of every fragment and marks those whose last it was;
\* cleanOsHandles frees their kernel objects.
FreeHostPtrAllocation(a) ==
    LET ks == ToSet(hostAllocs[a])
        last == {k \in ks : fragments[k].ref = 1}
    IN  /\ hostAllocs[a] # NoAlloc
        /\ fragments' = [k \in Keys |->
               IF k \in ks THEN ReleaseHostPtr(fragments[k]) ELSE fragments[k]]
        /\ objects' = Clean(objects, last)
        /\ hostAllocs' = [hostAllocs EXCEPT ![a] = NoAlloc]
        /\ UNCHANGED driverAllocs

\* Mutant: the fragment stored without driverAllocation.
AddAllocationToHostPtrManagerUnflagged(d) ==
    LET k == DriverKey[d]
    IN  /\ ~driverAllocs[d]
        /\ ~Stored(k)
        /\ objects[k] < MaxObjects
        /\ driverAllocs' = [driverAllocs EXCEPT ![d] = TRUE]
        /\ objects' = [objects EXCEPT ![k] = @ + 1]
        /\ fragments' = [fragments EXCEPT ![k] = StoreFragment(@, FALSE)]
        /\ UNCHANGED hostAllocs

\* addAllocationToHostPtrManager: an allocation the DRM manager backs with
\* its own BO is stored as a driverAllocation fragment over its memory.
AddAllocationToHostPtrManager(d) ==
    LET k == DriverKey[d]
    IN  /\ ~driverAllocs[d]
        /\ ~Stored(k)
        /\ objects[k] < MaxObjects
        /\ driverAllocs' = [driverAllocs EXCEPT ![d] = TRUE]
        /\ objects' = [objects EXCEPT ![k] = @ + 1]
        /\ fragments' = [fragments EXCEPT ![k] = StoreFragment(@, TRUE)]
        /\ UNCHANGED hostAllocs

\* removeAllocationFromHostPtrManager: a driverAllocation fragment over the
\* allocation's memory loses a reference (its OsHandle is deleted with the
\* last).
RemoveAllocationFromHostPtrManager(k) ==
    IF Stored(k) /\ fragments[k].driver
    THEN [fragments EXCEPT ![k] = ReleaseHostPtr(@)]
    ELSE fragments

\* Freeing a registered DRM allocation: removeAllocationFromHostPtrManager,
\* then freeGraphicsMemoryImpl unreferences (and closes) its BO.  The
\* application frees it only when no host-pointer allocation uses it.
FreeDriverAllocation(d) ==
    LET k == DriverKey[d]
    IN  /\ driverAllocs[d]
        /\ \A a \in Allocs : k \notin ToSet(hostAllocs[a])
        /\ fragments' = RemoveAllocationFromHostPtrManager(k)
        /\ objects' = [objects EXCEPT ![k] = @ - 1]
        /\ driverAllocs' = [driverAllocs EXCEPT ![d] = FALSE]
        /\ UNCHANGED hostAllocs

CallWithHostPtrDrm ==
    \E a \in Allocs, req \in Requests, pin \in PinResults :
      \E failSlot \in {0} \cup (IF "userptr" \in Faults THEN NewSlots(req) ELSE {}) :
        AllocateGraphicsMemoryWithHostPtr(a, req, PopulateOsHandlesDrm(req, failSlot, pin))

CallWithHostPtrWddm ==
    \E a \in Allocs, req \in Requests, createFails \in BOOLEAN :
      \E mapStatus \in [Slots(req) -> MapStatuses] :
        /\ createFails => "create" \in Faults
        /\ AllocateGraphicsMemoryWithHostPtr(a, req,
              CreateAllocationsAndMapGpuVa(req, createFails, mapStatus))

Next ==
    /\ UNCHANGED backend
    /\ \/ backend = "drm" /\ CallWithHostPtrDrm
       \/ backend = "wddm" /\ CallWithHostPtrWddm
       \/ \E a \in Allocs : FreeHostPtrAllocation(a)
       \/ backend = "drm" /\ \E d \in DriverAllocs : AddAllocationToHostPtrManager(d)
       \/ backend = "drm" /\ \E d \in DriverAllocs : FreeDriverAllocation(d)

Spec == Init /\ [][Next]_vars

(***************************************************************************)
(* Properties                                                              *)
(***************************************************************************)

\* Every kernel object made for a host pointer (a userptr BO of
\* populateOsHandles, a handle of createAllocationsAndMapGpuVa) or for a
\* registered DRM allocation is owned by exactly one thing: the stored
\* fragment it backs or the live allocation.  After any allocation call,
\* failed ones included, nothing is left that no free will ever close, and
\* no fragment is backed twice (spec.md 3: overlapping host pointers share
\* one mapping).
KernelObjectsAccounted ==
    \A k \in Keys :
        objects[k] = (IF Stored(k) /\ ~fragments[k].driver THEN 1 ELSE 0)
                     + Cardinality({d \in DriverAllocs : driverAllocs[d] /\ DriverKey[d] = k})

\* The refCount the host-pointer manager keeps for a fragment is the number
\* of live allocations that claim it: the host-pointer allocations that
\* include it and the registered allocation it was made for.  A fragment is
\* torn down exactly when the last of them is freed (spec.md 4.3).
RefCountIsClaims ==
    \A k \in Keys :
        fragments[k].ref =
            Cardinality({a \in Allocs : k \in ToSet(hostAllocs[a])})
            + Cardinality({d \in DriverAllocs : driverAllocs[d] /\ DriverKey[d] = k})

=============================================================================
