---------------------------- MODULE MCConversions ----------------------------
(* An instance of Conversions.                                              *)
EXTENDS Conversions

\* Of two VMs the second has huge pages.
TwoGuests == {"normal", "huge"}
Capacities == [normal |-> 5, huge |-> 8]
RssSizes == [normal |-> 3, huge |-> 7]
HostMemory == [memory |-> 41, hp |-> 16]
=============================================================================
