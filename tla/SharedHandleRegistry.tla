------------------------- MODULE SharedHandleRegistry -------------------------
(***************************************************************************)
(* Abstract specification of what the shared-handle registry promises     *)
(* (spec.md 4.4 and 8): every import of an external buffer (dma-buf) adds *)
(* one reference to the single kernel object that backs it, every release *)
(* removes one, and the kernel object is closed only once no import of it *)
(* remains.  DrmBufferObjects refines this specification.                 *)
(***************************************************************************)
EXTENDS Naturals

CONSTANT DmaBufs    \* the external buffers an application can share

VARIABLES
    imports,   \* imports[d]: live references to the kernel object of d
    mapped     \* the external buffers with an open kernel (GEM) handle

vars == <<imports, mapped>>

Init ==
    /\ imports = [d \in DmaBufs |-> 0]
    /\ mapped = {}

\* A successful import opens the kernel object of d, or reuses the open one.
Import(d) ==
    /\ imports' = [imports EXCEPT ![d] = @ + 1]
    /\ mapped' = mapped \cup {d}

\* One holder gives up its reference.
Release(d) ==
    /\ imports[d] > 0
    /\ imports' = [imports EXCEPT ![d] = @ - 1]
    /\ UNCHANGED mapped

\* The kernel object is closed, which is allowed only when nobody holds it.
Close(d) ==
    /\ d \in mapped
    /\ imports[d] = 0
    /\ mapped' = mapped \ {d}
    /\ UNCHANGED imports

Next == \E d \in DmaBufs : Import(d) \/ Release(d) \/ Close(d)

Spec == Init /\ [][Next]_vars

=============================================================================
