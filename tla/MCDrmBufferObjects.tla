------------------------- MODULE MCDrmBufferObjects --------------------------
(* Model-checking instance of DrmBufferObjects: two fds of one dma-buf and *)
(* one fd of another, so imports hit and miss the registry.               *)
EXTENDS DrmBufferObjects, TLC

CONSTANTS f1, f2, f3, d1, d2   \* model values

MCFds == {f1, f2, f3}
MCDmaBufs == {d1, d2}

MCDmaBufOf == (f1 :> d1) @@ (f2 :> d1) @@ (f3 :> d2)

MCSymmetry == Permutations(Threads)

=============================================================================
