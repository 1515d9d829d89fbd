----------------------------- MODULE WddmResidency -----------------------------
(***************************************************************************)
(* Residency and fences of the WDDM backend,                              *)
(* src/runtime/os_interface/windows/wddm/wddm.cpp: makeResident and evict *)
(* (304-351), submit with waitOnGPU (746-762, 794-806), handleCompletion  *)
(* (781-788), waitFromCpu (808-824), waitOnPagingFenceFromCpu and         *)
(* updatePagingFenceValue (963-970).                                      *)
(*                                                                         *)
(* One CPU thread per OS context (its command-stream receiver) makes the  *)
(* allocations of a batch resident, raises the shared                     *)
(* currentPagingFenceValue when the kernel answers STATUS_PENDING, and    *)
(* submits.  The kernel numbers paging operations; the GPU has a paging   *)
(* queue that retires them in order, writing the paging fence, and one    *)
(* engine per context that runs that context's queue: GPU waits inserted  *)
(* by waitOnGPU and command buffers, after which it writes the context's  *)
(* monitored fence.  A trim (the residency controller, outside src/)      *)
(* evicts allocations no pending work uses.                               *)
(***************************************************************************)
EXTENDS Naturals, Sequences, FiniteSets, FiniteSetsExt, SequencesExt

CONSTANTS
    Contexts,      \* OS contexts, one submitting thread each
    Allocs,        \* allocations (kernel handles)
    MaxPaging,     \* bound on paging operations the kernel issues
    MaxSubmits     \* bound on command buffers per context

VARIABLES
    currentPagingFenceValue,  \* Wddm::currentPagingFenceValue
    pagingFence,              \* *pagingFenceAddress, written by the GPU
    pagingIssued,             \* the kernel's last paging-fence value
    evicted,                  \* allocations not resident nor being paged in
    pagingValue,              \* the paging operation that brings a in
    currentFenceValue,        \* MonitoredFence::currentFenceValue per context
    lastSubmittedFence,       \* MonitoredFence::lastSubmittedFence
    tag,                      \* *MonitoredFence::cpuAddress, written by GPU
    gpuQueue,                 \* per context: GPU waits and command buffers
    pc,                       \* per context thread: where it is
    batch,                    \* the allocations of its current batch
    fenceValue,               \* PagingFenceValue makeResident returned
    need,                     \* the paging value the batch depends on
    waitValue                 \* lastFenceValue of a waitFromCpu

kernel == <<pagingIssued, evicted, pagingValue>>
gpu == <<pagingFence, tag, gpuQueue>>
fence == <<currentFenceValue, lastSubmittedFence>>
thread == <<pc, batch, fenceValue, need, waitValue>>
vars == <<currentPagingFenceValue, kernel, gpu, fence, thread>>

PcValues == {"idle", "update", "check", "wait", "submit", "fence",
             "completion", "waitFromCpu", "pagingSpin"}

Item == [kind : {"wait"}, v : Nat] \cup
        [kind : {"cmd"}, v : Nat, needs : Nat, uses : SUBSET Allocs]

TypeOK ==
    /\ currentPagingFenceValue \in 0..MaxPaging
    /\ pagingFence \in 0..MaxPaging
    /\ pagingIssued \in 0..MaxPaging
    /\ evicted \subseteq Allocs
    /\ pagingValue \in [Allocs -> 0..MaxPaging]
    /\ currentFenceValue \in [Contexts -> 1..(MaxSubmits + 1)]
    /\ lastSubmittedFence \in [Contexts -> 0..MaxSubmits]
    /\ tag \in [Contexts -> 0..MaxSubmits]
    /\ gpuQueue \in [Contexts -> Seq(Item)]
    /\ pc \in [Contexts -> PcValues]
    /\ batch \in [Contexts -> SUBSET Allocs]
    /\ fenceValue \in [Contexts -> 0..MaxPaging]
    /\ need \in [Contexts -> 0..MaxPaging]
    /\ waitValue \in [Contexts -> 0..MaxSubmits]

\* The monitored fence starts with currentFenceValue 1 (OsContextWin,
\* outside src/); nothing is resident yet.
Init ==
    /\ currentPagingFenceValue = 0
    /\ pagingFence = 0
    /\ pagingIssued = 0
    /\ evicted = Allocs
    /\ pagingValue = [a \in Allocs |-> 0]
    /\ currentFenceValue = [c \in Contexts |-> 1]
    /\ lastSubmittedFence = [c \in Contexts |-> 0]
    /\ tag = [c \in Contexts |-> 0]
    /\ gpuQueue = [c \in Contexts |-> <<>>]
    /\ pc = [c \in Contexts |-> "idle"]
    /\ batch = [c \in Contexts |-> {}]
    /\ fenceValue = [c \in Contexts |-> 0]
    /\ need = [c \in Contexts |-> 0]
    /\ waitValue = [c \in Contexts |-> 0]

Goto(c, where) == pc' = [pc EXCEPT ![c] = where]

-----------------------------------------------------------------------------
(* CPU side.                                                               *)

(***************************************************************************)
(* makeResident(handles, count, cantTrimFurther): one paging operation,   *)
(* with the kernel's next fence value, for the handles not yet resident.  *)
(* The kernel answers STATUS_PENDING with the largest paging value the    *)
(* batch still waits for, STATUS_SUCCESS when all of it is resident, or   *)
(* a failure (only without cantTrimFurther: MustSucceed is set with it,   *)
(* and a failure then is UNRECOVERABLE); makeResident returns false and   *)
(* the caller drops the batch.  STATUS_PENDING goes on to                 *)
(* updatePagingFenceValue.                                                *)
(***************************************************************************)
MakeResident(c, handles, cantTrimFurther) ==
    LET fresh == handles \cap evicted
        value == [a \in Allocs |-> IF a \in fresh THEN pagingIssued + 1 ELSE pagingValue[a]]
        pagingFenceValue == Max({value[a] : a \in handles})
    IN
    /\ pc[c] = "idle"
    /\ currentFenceValue[c] <= MaxSubmits
    /\ \/ /\ fresh # {} => pagingIssued < MaxPaging
          /\ pagingIssued' = IF fresh = {} THEN pagingIssued ELSE pagingIssued + 1
          /\ evicted' = evicted \ handles
          /\ pagingValue' = value
          /\ batch' = [batch EXCEPT ![c] = handles]
          /\ need' = [need EXCEPT ![c] = pagingFenceValue]
          /\ IF pagingFenceValue > pagingFence
             THEN /\ fenceValue' = [fenceValue EXCEPT ![c] = pagingFenceValue]
                  /\ Goto(c, "update")
             ELSE /\ Goto(c, "check")
                  /\ UNCHANGED fenceValue
       \/ /\ ~cantTrimFurther
          /\ UNCHANGED <<kernel, pc, batch, fenceValue, need>>
    /\ UNCHANGED <<currentPagingFenceValue, gpu, fence, waitValue>>

\* Mutant: interlockedAdd in place of interlockedMax.
InterlockedAdd(current, new) == current + new

\* Mutant: a plain store in place of interlockedMax.
PlainStore(current, new) == new

\* interlockedMax(currentPagingFenceValue, newPagingFenceValue)
InterlockedMax(current, new) == IF new > current THEN new ELSE current

\* updatePagingFenceValue(makeResident.PagingFenceValue)
UpdatePagingFenceValue(c) ==
    /\ pc[c] = "update"
    /\ currentPagingFenceValue' = InterlockedMax(currentPagingFenceValue, fenceValue[c])
    /\ Goto(c, "check")
    /\ UNCHANGED <<kernel, gpu, fence, batch, fenceValue, need, waitValue>>

\* submit: currentPagingFenceValue > *pagingFenceAddress decides whether the
\* context must first wait on the GPU for the paging fence
SubmitCheck(c) ==
    /\ pc[c] = "check"
    /\ Goto(c, IF currentPagingFenceValue > pagingFence THEN "wait" ELSE "submit")
    /\ UNCHANGED <<currentPagingFenceValue, kernel, gpu, fence,
                   batch, fenceValue, need, waitValue>>

\* waitOnGPU: a GPU-side wait of the context for the paging fence to reach
\* localPagingFenceValue = currentPagingFenceValue, read now
WaitOnGPU(c) ==
    /\ pc[c] = "wait"
    /\ gpuQueue' = [gpuQueue EXCEPT ![c] =
                      Append(@, [kind |-> "wait", v |-> currentPagingFenceValue])]
    /\ Goto(c, "submit")
    /\ UNCHANGED <<currentPagingFenceValue, kernel, pagingFence, tag, fence,
                   batch, fenceValue, need, waitValue>>

\* wddmInterface->submit: the command buffer is queued; the GPU will write
\* currentFenceValue to the monitored fence once it has run it
SubmitCommandBuffer(c) ==
    /\ pc[c] = "submit"
    /\ gpuQueue' = [gpuQueue EXCEPT ![c] =
                      Append(@, [kind |-> "cmd", v |-> currentFenceValue[c],
                                 needs |-> need[c], uses |-> batch[c]])]
    /\ Goto(c, "fence")
    /\ UNCHANGED <<currentPagingFenceValue, kernel, pagingFence, tag, fence,
                   batch, fenceValue, need, waitValue>>

\* Mutant: currentFenceValue is not advanced.
AdvanceFenceMissing(v) == v

\* currentFenceValue++
AdvanceFence(v) == v + 1

\* after a successful submit: lastSubmittedFence = currentFenceValue, then
\* currentFenceValue++
UpdateMonitoredFence(c) ==
    /\ pc[c] = "fence"
    /\ lastSubmittedFence' = [lastSubmittedFence EXCEPT ![c] = currentFenceValue[c]]
    /\ currentFenceValue' = [currentFenceValue EXCEPT ![c] = AdvanceFence(@)]
    /\ Goto(c, "idle")
    \* the locals of the finished call
    /\ batch' = [batch EXCEPT ![c] = {}]
    /\ fenceValue' = [fenceValue EXCEPT ![c] = 0]
    /\ need' = [need EXCEPT ![c] = 0]
    /\ UNCHANGED <<currentPagingFenceValue, kernel, gpu, waitValue>>

\* handleCompletion: spin while *cpuAddress < currentFenceValue - 1
HandleCompletion(c) ==
    /\ pc[c] = "idle"
    /\ Goto(c, "completion")
    /\ UNCHANGED <<currentPagingFenceValue, kernel, gpu, fence,
                   batch, fenceValue, need, waitValue>>

\* Mutant: the spin stops one fence early.
CompletionReachedEarly(c) == tag[c] >= currentFenceValue[c] - 2

\* Mutant: the spin waits for the fence not yet submitted.
CompletionReachedLate(c) == tag[c] >= currentFenceValue[c]

\* the spin condition of handleCompletion is false
CompletionReached(c) == tag[c] >= currentFenceValue[c] - 1

HandleCompletionReturns(c) ==
    /\ pc[c] = "completion"
    /\ CompletionReached(c)
    /\ Goto(c, "idle")
    /\ UNCHANGED <<currentPagingFenceValue, kernel, gpu, fence,
                   batch, fenceValue, need, waitValue>>

\* waitFromCpu(lastFenceValue, monitoredFence): a kernel wait only when the
\* monitored fence has not reached lastFenceValue yet
WaitFromCpu(c, lastFenceValue) ==
    /\ pc[c] = "idle"
    /\ lastFenceValue > tag[c]
    /\ waitValue' = [waitValue EXCEPT ![c] = lastFenceValue]
    /\ Goto(c, "waitFromCpu")
    /\ UNCHANGED <<currentPagingFenceValue, kernel, gpu, fence, batch, fenceValue, need>>

WaitFromCpuReturns(c) ==
    /\ pc[c] = "waitFromCpu"
    /\ tag[c] >= waitValue[c]
    /\ Goto(c, "idle")
    /\ waitValue' = [waitValue EXCEPT ![c] = 0]
    /\ UNCHANGED <<currentPagingFenceValue, kernel, gpu, fence, batch, fenceValue, need>>

\* waitOnPagingFenceFromCpu: spin while currentPagingFenceValue > *pagingFenceAddress
WaitOnPagingFenceFromCpu(c) ==
    /\ pc[c] = "idle"
    /\ Goto(c, "pagingSpin")
    /\ UNCHANGED <<currentPagingFenceValue, kernel, gpu, fence,
                   batch, fenceValue, need, waitValue>>

PagingSpinReturns(c) ==
    /\ pc[c] = "pagingSpin"
    /\ currentPagingFenceValue <= pagingFence
    /\ Goto(c, "idle")
    /\ UNCHANGED <<currentPagingFenceValue, kernel, gpu, fence,
                   batch, fenceValue, need, waitValue>>

IsCmd(item) == item.kind = "cmd"

\* the command buffers queued on context c, oldest first
Cmds(c) == SelectSeq(gpuQueue[c], IsCmd)

\* the allocations a thread's batch or a queued command buffer uses
InUse == UNION ({batch[c] : c \in Contexts}
                \cup {x.uses : x \in UNION {ToSet(Cmds(c)) : c \in Contexts}})

(* evict: the trim of the residency controller evicts a resident          *)
(* allocation that no pending work uses.                                  *)
Evict(a) ==
    /\ a \notin evicted
    /\ pagingValue[a] <= pagingFence
    /\ a \notin InUse
    /\ evicted' = evicted \cup {a}
    /\ UNCHANGED <<currentPagingFenceValue, pagingIssued, pagingValue, gpu, fence, thread>>

-----------------------------------------------------------------------------
(* GPU side.                                                               *)

\* the paging queue retires the oldest paging operation
PagingComplete ==
    /\ pagingFence < pagingIssued
    /\ pagingFence' = pagingFence + 1
    /\ UNCHANGED <<currentPagingFenceValue, kernel, tag, gpuQueue, fence, thread>>

\* a GPU wait of context c ends once the paging fence reaches its value
EngineWait(c) ==
    /\ gpuQueue[c] # <<>>
    /\ Head(gpuQueue[c]).kind = "wait"
    /\ Head(gpuQueue[c]).v <= pagingFence
    /\ gpuQueue' = [gpuQueue EXCEPT ![c] = Tail(@)]
    /\ UNCHANGED <<currentPagingFenceValue, kernel, pagingFence, tag, fence, thread>>

\* the engine runs the command buffer and writes its monitored fence
EngineExecute(c) ==
    /\ gpuQueue[c] # <<>>
    /\ Head(gpuQueue[c]).kind = "cmd"
    /\ tag' = [tag EXCEPT ![c] = Head(gpuQueue[c]).v]
    /\ gpuQueue' = [gpuQueue EXCEPT ![c] = Tail(@)]
    /\ UNCHANGED <<currentPagingFenceValue, kernel, pagingFence, fence, thread>>

-----------------------------------------------------------------------------

ThreadStep(c) ==
    \/ UpdatePagingFenceValue(c)
    \/ SubmitCheck(c)
    \/ WaitOnGPU(c)
    \/ SubmitCommandBuffer(c)
    \/ UpdateMonitoredFence(c)
    \/ HandleCompletionReturns(c)
    \/ WaitFromCpuReturns(c)
    \/ PagingSpinReturns(c)

Call(c) ==
    \/ \E handles \in SUBSET Allocs \ {{}}, cantTrimFurther \in BOOLEAN :
          MakeResident(c, handles, cantTrimFurther)
    \/ HandleCompletion(c)
    \/ \E v \in 1..lastSubmittedFence[c] : WaitFromCpu(c, v)
    \/ WaitOnPagingFenceFromCpu(c)

GpuStep(c) == EngineWait(c) \/ EngineExecute(c)

Next ==
    \/ \E c \in Contexts : Call(c) \/ ThreadStep(c) \/ GpuStep(c)
    \/ PagingComplete
    \/ \E a \in Allocs : Evict(a)

Spec == Init /\ [][Next]_vars

(* A thread inside a call keeps running, and the GPU keeps retiring       *)
(* paging operations and running the queues; nothing forces the           *)
(* application to call or the trim to evict.                             *)
FairSpec ==
    /\ Spec
    /\ \A c \in Contexts : WF_vars(ThreadStep(c)) /\ WF_vars(GpuStep(c))
    /\ WF_vars(PagingComplete)

-----------------------------------------------------------------------------
(* Properties.                                                             *)

(* The monitored fence of a context tells what the GPU has done: the      *)
(* command buffers still queued are exactly those with fence values       *)
(* tag+1 .. lastSubmittedFence (currentFenceValue between the kernel      *)
(* submit and the fence update), oldest first, and lastSubmittedFence <   *)
(* currentFenceValue.  So the GPU has finished everything up to a value   *)
(* once *cpuAddress reaches it, which handleCompletion and waitFromCpu    *)
(* rely on.                                                               *)
FenceCoherent ==
    \A c \in Contexts :
        LET top == IF pc[c] = "fence" THEN currentFenceValue[c] ELSE lastSubmittedFence[c]
        IN /\ lastSubmittedFence[c] < currentFenceValue[c]
           /\ tag[c] + Len(Cmds(c)) = top
           /\ \A i \in 1..Len(Cmds(c)) : Cmds(c)[i].v = tag[c] + i

(* When handleCompletion returns, the GPU has run every command buffer    *)
(* the context submitted.                                                 *)
CompletionDrainsContext ==
    [][\A c \in Contexts :
         (pc[c] = "completion" /\ pc'[c] = "idle") => Cmds(c) = <<>>]_vars

(* Every call returns: a submit gets past its paging-fence check and GPU  *)
(* wait, and the spins of handleCompletion, waitFromCpu and               *)
(* waitOnPagingFenceFromCpu end, given that the GPU keeps working.        *)
CallsReturn == \A c \in Contexts : pc[c] # "idle" ~> pc[c] = "idle"

\* the residency protocol seen from outside: paging values and the paging
\* needs of the queued command buffers
Order == INSTANCE ResidencyOrder
            WITH issued <- pagingIssued, retired <- pagingFence,
                 queue <- [c \in Contexts |-> [i \in 1..Len(Cmds(c)) |-> Cmds(c)[i].needs]]

(* No command buffer runs before the paging operations that make its      *)
(* allocations resident have retired (spec.md 8: after STATUS_PENDING     *)
(* with fence F the allocation is not resident until the paging fence     *)
(* reaches F): the shared currentPagingFenceValue, raised by interlocked  *)
(* max from several threads, and the GPU wait that submit inserts when    *)
(* it is ahead of the paging fence implement ResidencyOrder.              *)
ResidencyRespected == Order!Spec

=============================================================================
