---------------------------- MODULE InventoryOps ----------------------------
(***************************************************************************)
(* The operations of pkg/inventory on an inventory value.                  *)
(*                                                                         *)
(* Every virtxd keeps one inventory: what it knows of all the hosts of the *)
(* cluster and of all their VMs.  The two Go maps become functions whose   *)
(* DOMAIN is the set of keys present:                                      *)
(*                                                                         *)
(*   inv.hosts : host uuid -> [Info, Vms], Vms being the uuids of the VMs  *)
(*               known to live there;                                      *)
(*   inv.vms   : VM uuid -> [Uuid, Host, Runstate, Ts].                    *)
(*                                                                         *)
(* The descriptive fields (Name, Cpuarch, Vlanid, Custom...) are copied    *)
(* along with these and are left out.  The mutex makes each operation      *)
(* atomic, so each is one operator from an inventory to the next one.      *)
(***************************************************************************)
EXTENDS Integers

CONSTANTS
  Host,       \* uuids of the hosts of the cluster
  Vm,         \* uuids of the virtual machines
  Runstate,   \* the run states told apart, RUNSTATE_DELETED among them
  Ts,         \* timestamps: milliseconds, int64
  NoHost      \* the empty string that stands for "no host"

ASSUME HostAssumption == NoHost \notin Host
ASSUME RunstateAssumption == "DELETED" \in Runstate
ASSUME TsAssumption == Ts \subseteq Int

Cstate == {"ACTIVE", "LEFT", "FAILED"}

HostInfo == [Uuid : Host, Cstate : Cstate, Ts : Ts]

Hostdata == [Info : HostInfo, Vms : SUBSET Vm]

VmEvent == [Uuid : Vm, Host : Host, Runstate : Runstate, Ts : Ts]

\* A VmInfo embeds a VmEvent; what it adds is only carried along.
VmInfo == VmEvent

HostsInventory == UNION {[K -> Hostdata] : K \in SUBSET Host}

VmsInventory == UNION {[K -> VmInfo] : K \in SUBSET Vm}

Inventories == [hosts : HostsInventory, vms : VmsInventory]

\* m[k] = v on a Go map.
Put(m, k, v) == [x \in DOMAIN m \cup {k} |-> IF x = k THEN v ELSE m[x]]

\* delete(m, k) on a Go map.
Delete(m, k) == [x \in DOMAIN m \ {k} |-> m[x]]

-----------------------------------------------------------------------------

\* The package's init(): both maps are empty.
init == [hosts |-> [h \in {} |-> {}], vms |-> [u \in {} |-> {}]]

update_host(inv, hi) ==
  LET known == hi.Uuid \in DOMAIN inv.hosts IN
  IF known /\ inv.hosts[hi.Uuid].Info.Ts > hi.Ts
  THEN inv                                \* ignoring obsolete Host information
  ELSE [inv EXCEPT !.hosts = Put(@, hi.Uuid,
          [Info |-> hi, Vms |-> IF known THEN @[hi.Uuid].Vms ELSE {}])]

set_host_state(inv, h, newstate) ==
  IF h \in DOMAIN inv.hosts
  THEN [inv EXCEPT !.hosts[h].Info.Cstate = newstate]
  ELSE inv                                                   \* no such host

\* A variant of update_hostdata_vm: the VM does not leave the old host.
update_hostdata_vm_stays(hosts, u, old_host, new_host) ==
  [h \in DOMAIN hosts |-> [hosts[h] EXCEPT !.Vms = IF h = new_host THEN @ \cup {u} ELSE @]]

\* The VM leaves the old host and joins the new one, where these are known.
update_hostdata_vm(hosts, u, old_host, new_host) ==
  [h \in DOMAIN hosts |-> [hosts[h] EXCEPT !.Vms =
     IF h = new_host THEN @ \cup {u}
     ELSE IF h = old_host THEN @ \ {u} ELSE @]]

\* The VM leaves both the host it was on and the one that reports its end.
delete_hostdata_vm(hosts, u, old_host, new_host) ==
  [h \in DOMAIN hosts |-> [hosts[h] EXCEPT !.Vms =
     IF h \in {old_host, new_host} THEN @ \ {u} ELSE @]]

\* A variant of update_vm_state: the entry keeps its host.
update_vm_state_host(inv, e) ==
  LET u == e.Uuid IN
  IF u \notin DOMAIN inv.vms \/ inv.vms[u].Ts > e.Ts THEN inv
  ELSE IF e.Runstate = "DELETED"
  THEN [hosts |-> delete_hostdata_vm(inv.hosts, u, inv.vms[u].Host, e.Host),
        vms |-> Delete(inv.vms, u)]
  ELSE [inv EXCEPT !.vms[u].Runstate = e.Runstate]

\* A VmEvent.  The entry takes the event's host and run state and keeps its
\* own timestamp.
update_vm_state(inv, e) ==
  LET u == e.Uuid
      vminfo == inv.vms[u]
  IN
  IF u \notin DOMAIN inv.vms THEN inv                          \* no such VM
  ELSE IF vminfo.Ts > e.Ts THEN inv    \* ignoring obsolete Vm state information
  ELSE IF e.Runstate = "DELETED"
  THEN [hosts |-> delete_hostdata_vm(inv.hosts, u, vminfo.Host, e.Host),
        vms |-> Delete(inv.vms, u)]
  ELSE [hosts |-> update_hostdata_vm(inv.hosts, u, vminfo.Host, e.Host),
        vms |-> [inv.vms EXCEPT ![u].Host = e.Host,
                                ![u].Runstate = e.Runstate]]

\* A variant of update_vm: the timestamp is not looked at.
update_vm_any(inv, vi) ==
  [hosts |-> update_hostdata_vm(inv.hosts, vi.Uuid,
               IF vi.Uuid \in DOMAIN inv.vms THEN inv.vms[vi.Uuid].Host ELSE NoHost, vi.Host),
   vms |-> Put(inv.vms, vi.Uuid, vi)]

\* A VmInfo.  It replaces the entry unless the entry is newer.
update_vm(inv, vi) ==
  LET u == vi.Uuid
      present == u \in DOMAIN inv.vms
      old_host == IF present THEN inv.vms[u].Host ELSE NoHost
  IN
  IF present /\ inv.vms[u].Ts > vi.Ts
  THEN inv                                          \* Ignoring old guest info
  ELSE [hosts |-> update_hostdata_vm(inv.hosts, u, old_host, vi.Host),
        vms |-> Put(inv.vms, u, vi)]

-----------------------------------------------------------------------------

\* The keys of both maps are the uuids of what they hold.
KeysAgree(inv) ==
  /\ \A h \in DOMAIN inv.hosts : inv.hosts[h].Info.Uuid = h
  /\ \A u \in DOMAIN inv.vms : inv.vms[u].Uuid = u

\* A VM listed under a host is known, and known to be on that host: so a VM is
\* listed under one host at most, and no host lists a VM that was deleted.
HostVmsAgree(inv) ==
  \A h \in DOMAIN inv.hosts : \A u \in inv.hosts[h].Vms :
    u \in DOMAIN inv.vms /\ inv.vms[u].Host = h
=============================================================================
