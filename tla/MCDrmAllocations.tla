--------------------------- MODULE MCDrmAllocations ---------------------------
(* Small instances of DrmAllocations: 4-byte pages, 6-bit GPU addresses    *)
(* stored sign-extended in 8 bits, a standard heap of 4 pages in the upper *)
(* half of the address space (so canonization changes its addresses) and  *)
(* a 32-bit heap of 4 pages in the lower half.                             *)
EXTENDS DrmAllocations, TLC

\* HEAP_STANDARD: [36, 52), not aligned to 8 so SVM_CPU has to align up
MCHeapStandard == [base |-> 36, size |-> 16]
\* HEAP_EXTERNAL: [4, 20)
MCHeapExternal == [base |-> 4, size |-> 16]
\* every call of every entry point may fail
MCAllFaults == OpNames \X {"malloc", "userptr"}
\* every failure but the userptr ioctl of createPaddedAllocation
MCFaultsButPadded == MCAllFaults \ {<<"padded", "userptr">>}
\* the userptr ioctl of every entry point may fail
MCUserptrFaults == OpNames \X {"userptr"}
=============================================================================
