------------------------------ MODULE MCStorage ------------------------------
(* Instances of Storage.                                                    *)
EXTENDS Storage, TLC

CONSTANTS d1, d2, d3, d4

\* Definitions of managed disks only, and of one of each device, the CDROM d3
\* unmanaged and the CDROM d4 managed.  A disk keeps its management mode.
AllManaged == {[man |-> m, unman |-> {}] : m \in SUBSET Disk}
EachDevice == {[man |-> {d1}, unman |-> {}], [man |-> {d1, d4}, unman |-> {}],
               [man |-> {d2}, unman |-> {d3}]}

\* One disk, unmanaged in some definitions and managed in others.
EitherMode == {[man |-> m, unman |-> Disk \ m] : m \in SUBSET Disk}

AllDisks == [d \in Disk |-> "DISK"]
OneOfEach == [d \in Disk |-> IF d = d1 THEN "DISK" ELSE IF d = d2 THEN "LUN" ELSE "CDROM"]

\* What the actions and the properties about leases look at: not `warned', and of
\* the inventory only whether a VM is shown as powered off.
Decisive == <<res, lease, img, def, reg, running, {u \in Vm : shown[u] = "off"}, used, req, faults>>

\* VMs are alike, and so are requests.
Alike == Permutations(Vm) \cup Permutations(Req)
=============================================================================
