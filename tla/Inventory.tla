------------------------------ MODULE Inventory ------------------------------
(***************************************************************************)
(* The inventory of one virtxd as a component: whatever the events it is   *)
(* handed, in whatever order.  pkg/serfcomm decodes an event of the        *)
(* cluster and calls one of the four operations; nothing else writes the   *)
(* inventory.                                                              *)
(***************************************************************************)
EXTENDS InventoryOps

VARIABLE inv      \* the package variable `inventory'

Init == inv = init

\* HostInfo event.
Update_host(hi) == inv' = update_host(inv, hi)

\* Member event: join, leave, failed or reap.
Set_host_state(h, newstate) == inv' = set_host_state(inv, h, newstate)

\* VmEvent event.
Update_vm_state(e) == inv' = update_vm_state(inv, e)

\* VmInfo event.
Update_vm(vi) == inv' = update_vm(inv, vi)

\* virtxd ends and starts again: nothing of the inventory is persistent.
Restart == inv' = init

Next ==
  \/ \E hi \in HostInfo : Update_host(hi)
  \/ \E h \in Host, c \in Cstate : Set_host_state(h, c)
  \/ \E e \in VmEvent : Update_vm_state(e)
  \/ \E vi \in VmInfo : Update_vm(vi)
  \/ Restart

Spec == Init /\ [][Next]_inv

-----------------------------------------------------------------------------

\* The inventory holds well-formed entries, each under its own uuid, whatever
\* update_host, set_host_state, update_vm_state and update_vm were called with.
TypeOK == inv \in Inventories /\ KeysAgree(inv)

\* update_hostdata_vm and delete_hostdata_vm keep the Vms set of every host and
\* the Host field of every VM in step, through moves between known and unknown
\* hosts, deletions reported by another host, and VMs learnt before their host.
HostVmsConsistent == HostVmsAgree(inv)

\* The checks on Ts in update_host, update_vm and update_vm_state: while an entry
\* stays in the inventory its timestamp never goes back.
TsMonotone ==
  [][ \/ inv' = init
      \/ /\ \A h \in DOMAIN inv.hosts : h \in DOMAIN inv.hosts'
              /\ inv.hosts[h].Info.Ts <= inv.hosts'[h].Info.Ts
         /\ \A u \in DOMAIN inv.vms \cap DOMAIN inv.vms' :
              inv.vms[u].Ts <= inv.vms'[u].Ts ]_inv
=============================================================================
