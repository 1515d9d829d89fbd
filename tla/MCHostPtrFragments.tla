------------------------- MODULE MCHostPtrFragments -------------------------
(* Four fragments; requests over f1 f2, over f2 f3 (sharing f2), over f1   *)
(* alone and over f2 f3 f4 (leading, middle and trailing fragment); one   *)
(* DRM allocation registered over f1.                                      *)
EXTENDS HostPtrFragments, TLC

CONSTANTS f1, f2, f3, f4, a1, a2, a3, d1

MCRequests == {<<f1, f2>>, <<f2, f3>>, <<f1>>, <<f2, f3, f4>>}
MCDriverKey == [d \in {d1} |-> f1]

=============================================================================
