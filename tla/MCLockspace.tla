----------------------------- MODULE MCLockspace -----------------------------
(* Instances of Lockspace.                                                  *)
EXTENDS Lockspace

CONSTANTS h1, h2, h3

\* Hosts that start their search at one id, and at the last and the first one.
SameHash == [h \in Host |-> HOST_ID_MAX]
OtherHash == [h \in Host |-> IF h = h1 THEN HOST_ID_MAX ELSE 1]
=============================================================================
