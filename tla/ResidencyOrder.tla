---------------------------- MODULE ResidencyOrder ----------------------------
(***************************************************************************)
(* Abstract specification of the residency protocol (spec.md 4.5 and 8):  *)
(* the kernel numbers paging operations 1, 2, ... and the paging queue    *)
(* retires them in that order; every command buffer depends on the paging *)
(* operations its allocations are waiting for, and a GPU context runs its *)
(* command buffers in submission order, each only once the paging         *)
(* operations it depends on have retired.  WddmResidency refines it.      *)
(***************************************************************************)
EXTENDS Naturals, Sequences

CONSTANT Contexts

VARIABLES
    issued,     \* the last paging-fence value the kernel handed out
    retired,    \* the last paging-fence value the paging queue completed
    queue       \* queue[c]: the paging values the submitted, not yet run,
                \* command buffers of context c depend on, oldest first

vars == <<issued, retired, queue>>

Init ==
    /\ issued = 0
    /\ retired = 0
    /\ queue = [c \in Contexts |-> <<>>]

\* The kernel starts a new paging operation.
Issue ==
    /\ issued' = issued + 1
    /\ UNCHANGED <<retired, queue>>

\* The paging queue completes the oldest outstanding paging operation.
Retire ==
    /\ retired < issued
    /\ retired' = retired + 1
    /\ UNCHANGED <<issued, queue>>

\* A command buffer is submitted that depends on paging value need.
Submit(c, need) ==
    /\ need <= issued
    /\ queue' = [queue EXCEPT ![c] = Append(@, need)]
    /\ UNCHANGED <<issued, retired>>

\* The oldest command buffer of c runs, its paging having retired.
Run(c) ==
    /\ queue[c] # <<>>
    /\ Head(queue[c]) <= retired
    /\ queue' = [queue EXCEPT ![c] = Tail(@)]
    /\ UNCHANGED <<issued, retired>>

Next ==
    \/ Issue
    \/ Retire
    \/ \E c \in Contexts : \/ \E n \in 0..issued : Submit(c, n)
                           \/ Run(c)

Spec == Init /\ [][Next]_vars

=============================================================================
