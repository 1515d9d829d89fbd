----------------------------- MODULE MCWddmDevice -----------------------------
(* Wddm with every enumeration of up to two adapters, every driver inf,   *)
(* two OS contexts and a CPU address space of four ranges, the lower two  *)
(* below minAddress.                                                      *)
EXTENDS WddmDevice

MCAdapterLists ==
    {<<>>} \cup [1..1 -> AdapterDescs \cup {"unreadable"}]
           \cup [1..2 -> AdapterDescs \cup {"unreadable"}]
=============================================================================
