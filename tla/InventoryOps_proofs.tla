------------------------ MODULE InventoryOps_proofs ------------------------
(***************************************************************************)
(* Facts about the operations of InventoryOps, for every set of hosts,     *)
(* VMs, run states and timestamps.                                         *)
(*                                                                         *)
(* An inventory is Good when it is well formed and its host lists agree    *)
(* with its VM entries.  Each operation, given a well-formed event, leads  *)
(* from a Good inventory to a Good one, and lets no entry go back in time. *)
(* The lemmas are about values, so that the proofs about one inventory     *)
(* (Requests_proofs) and about those of a cluster (Cluster_proofs) share   *)
(* them.                                                                   *)
(***************************************************************************)
EXTENDS InventoryOps, TLAPS

Good(i) == i \in Inventories /\ KeysAgree(i) /\ HostVmsAgree(i)

\* f is a map from some of the elements of S to elements of T.
Map(f, S, T) ==
  /\ f = [x \in DOMAIN f |-> f[x]]
  /\ DOMAIN f \subseteq S
  /\ \A x \in DOMAIN f : f[x] \in T

\* The inventory type, stated entry by entry.
LEMMA MapTypes ==
  ASSUME NEW i
  PROVE  i \in Inventories <=>
           /\ i = [hosts |-> i.hosts, vms |-> i.vms]
           /\ Map(i.hosts, Host, Hostdata)
           /\ Map(i.vms, Vm, VmInfo)
<1>1. \A f, S, T : f \in UNION {[K -> T] : K \in SUBSET S} <=> Map(f, S, T)
  BY DEF Map
<1> QED
  BY <1>1 DEF Inventories, HostsInventory, VmsInventory

\* The empty inventory a process starts with is Good.
LEMMA InitGood == Good(init)
<1>1. init \in Inventories
  BY MapTypes DEF Map, init
<1> QED
  BY <1>1 DEF Good, init, KeysAgree, HostVmsAgree

\* A HostInfo event keeps the inventory Good: the VMs listed under the host are
\* kept, and a host seen for the first time lists none.
LEMMA UpdateHostGood ==
  ASSUME NEW i, Good(i), NEW hi \in HostInfo
  PROVE  Good(update_host(i, hi))
<1> DEFINE j == update_host(i, hi)
<1>1. CASE j = i
  BY <1>1 DEF Good
<1>2. CASE j # i
  <2> DEFINE d == [Info |-> hi, Vms |-> IF hi.Uuid \in DOMAIN i.hosts
                                        THEN i.hosts[hi.Uuid].Vms ELSE {}]
  <2>1. i = [hosts |-> i.hosts, vms |-> i.vms]
    BY MapTypes DEF Map, Good
  <2>2. j = [i EXCEPT !.hosts = Put(i.hosts, hi.Uuid, d)]
    BY <1>2, <2>1 DEF update_host
  <2>3. j = [hosts |-> Put(i.hosts, hi.Uuid, d), vms |-> i.vms]
    BY <2>1, <2>2
  <2>4. d \in Hostdata /\ hi.Uuid \in Host
    BY MapTypes DEF Map, Good, Hostdata, HostInfo
  <2>5. /\ DOMAIN j.hosts = DOMAIN i.hosts \cup {hi.Uuid}
        /\ \A h \in DOMAIN j.hosts :
             j.hosts[h] = IF h = hi.Uuid THEN d ELSE i.hosts[h]
        /\ j.hosts = [h \in DOMAIN j.hosts |-> j.hosts[h]]
    BY <2>3 DEF Put
  <2>6. /\ j = [hosts |-> j.hosts, vms |-> j.vms]
        /\ j.vms = i.vms
    BY <2>3
  <2>7. /\ d.Info.Uuid = hi.Uuid
        /\ d.Vms = IF hi.Uuid \in DOMAIN i.hosts
                   THEN i.hosts[hi.Uuid].Vms ELSE {}
    OBVIOUS
  <2> HIDE DEF j, d
  <2>8. j \in Inventories
    BY <2>4, <2>5, <2>6, MapTypes DEF Map, Good
  <2>9. KeysAgree(j)
    BY <2>5, <2>6, <2>7 DEF Good, KeysAgree
  <2>10. HostVmsAgree(j)
    BY <2>5, <2>6, <2>7 DEF Good, HostVmsAgree
  <2> QED
    BY <2>8, <2>9, <2>10 DEF Good, j
<1> QED
  BY <1>1, <1>2

\* A member event changes the Cstate of one known host and nothing else.
LEMMA SetHostStateGood ==
  ASSUME NEW i, Good(i), NEW h \in Host, NEW c \in Cstate
  PROVE  Good(set_host_state(i, h, c))
<1> DEFINE j == set_host_state(i, h, c)
<1>1. CASE h \notin DOMAIN i.hosts
  BY <1>1 DEF set_host_state
<1>2. CASE h \in DOMAIN i.hosts
  <2>1. /\ i = [hosts |-> i.hosts, vms |-> i.vms]
        /\ i.hosts = [x \in DOMAIN i.hosts |-> i.hosts[x]]
        /\ i.hosts[h] \in Hostdata
    BY <1>2, MapTypes DEF Map, Good
  <2>2. /\ j = [hosts |-> j.hosts, vms |-> j.vms]
        /\ j.vms = i.vms
        /\ j.hosts = [i.hosts EXCEPT ![h].Info.Cstate = c]
    BY <1>2, <2>1 DEF set_host_state
  <2>3. /\ DOMAIN j.hosts = DOMAIN i.hosts
        /\ j.hosts = [x \in DOMAIN j.hosts |-> j.hosts[x]]
        /\ \A x \in DOMAIN i.hosts : x # h => j.hosts[x] = i.hosts[x]
        /\ j.hosts[h] = [i.hosts[h] EXCEPT !.Info.Cstate = c]
    BY <1>2, <2>1, <2>2
  <2>4. /\ j.hosts[h] \in Hostdata
        /\ j.hosts[h].Vms = i.hosts[h].Vms
        /\ j.hosts[h].Info.Uuid = i.hosts[h].Info.Uuid
    BY <2>1, <2>3 DEF Hostdata, HostInfo
  <2> HIDE DEF j
  <2>5. j \in Inventories
    BY <2>2, <2>3, <2>4, MapTypes DEF Map, Good
  <2>6. KeysAgree(j)
    BY <2>2, <2>3, <2>4 DEF Good, KeysAgree
  <2>7. HostVmsAgree(j)
    BY <2>2, <2>3, <2>4 DEF Good, HostVmsAgree
  <2> QED
    BY <2>5, <2>6, <2>7 DEF Good, j
<1> QED
  BY <1>1, <1>2

\* k is the host map hosts with the VM lists changed to lists[h].
Relisted(k, hosts, lists) ==
  /\ Map(k, Host, Hostdata)
  /\ DOMAIN k = DOMAIN hosts
  /\ \A h \in DOMAIN k : k[h].Info = hosts[h].Info /\ k[h].Vms = lists[h]

\* The VM lists after a move and after a deletion.
Moved(hosts, u, old, new) ==
  [h \in DOMAIN hosts |->
     IF h = new THEN hosts[h].Vms \cup {u}
     ELSE IF h = old THEN hosts[h].Vms \ {u} ELSE hosts[h].Vms]

Removed(hosts, u, old, new) ==
  [h \in DOMAIN hosts |->
     IF h \in {old, new} THEN hosts[h].Vms \ {u} ELSE hosts[h].Vms]

\* What moving a VM between the host lists does, host by host.
LEMMA UpdateHostdataVm ==
  ASSUME NEW hosts, Map(hosts, Host, Hostdata), NEW u \in Vm, NEW old, NEW new
  PROVE  Relisted(update_hostdata_vm(hosts, u, old, new), hosts,
                  Moved(hosts, u, old, new))
BY DEF Relisted, Moved, Map, update_hostdata_vm, Hostdata

\* The same for a deletion.
LEMMA DeleteHostdataVm ==
  ASSUME NEW hosts, Map(hosts, Host, Hostdata), NEW u \in Vm, NEW old, NEW new
  PROVE  Relisted(delete_hostdata_vm(hosts, u, old, new), hosts,
                  Removed(hosts, u, old, new))
BY DEF Relisted, Removed, Map, delete_hostdata_vm, Hostdata

\* Replacing or removing one entry of the VM map.
LEMMA PutVm ==
  ASSUME NEW vms, Map(vms, Vm, VmInfo), NEW u \in Vm, NEW v \in VmInfo
  PROVE  Map(Put(vms, u, v), Vm, VmInfo)
BY DEF Map, Put

\* And one removed.
LEMMA DeleteVm ==
  ASSUME NEW vms, Map(vms, Vm, VmInfo), NEW u \in Vm
  PROVE  Map(Delete(vms, u), Vm, VmInfo)
BY DEF Map, Delete

\* An entry that moves to new: whoever listed the VM was its old host, which
\* no longer does, so the lists agree with the entry's new Host.
LEMMA MoveGood ==
  ASSUME NEW i, Good(i), NEW vi \in VmInfo, NEW old,
         \A h \in DOMAIN i.hosts : vi.Uuid \in i.hosts[h].Vms => h = old
  PROVE  Good([hosts |-> update_hostdata_vm(i.hosts, vi.Uuid, old, vi.Host),
               vms |-> Put(i.vms, vi.Uuid, vi)])
<1> DEFINE hs == update_hostdata_vm(i.hosts, vi.Uuid, old, vi.Host)
           vs == Put(i.vms, vi.Uuid, vi)
           j == [hosts |-> hs, vms |-> vs]
           lists == Moved(i.hosts, vi.Uuid, old, vi.Host)
<1>1. vi.Uuid \in Vm
  BY DEF VmInfo, VmEvent
<1>2. j = [hosts |-> j.hosts, vms |-> j.vms] /\ j.hosts = hs /\ j.vms = vs
  OBVIOUS
<1>3. Map(i.hosts, Host, Hostdata) /\ Map(i.vms, Vm, VmInfo)
  BY MapTypes DEF Good
<1>4. Relisted(hs, i.hosts, lists)
  BY <1>1, <1>3, UpdateHostdataVm
<1>5. Map(vs, Vm, VmInfo)
  BY <1>1, <1>3, PutVm
<1>6. /\ DOMAIN vs = DOMAIN i.vms \cup {vi.Uuid}
      /\ vs[vi.Uuid] = vi
      /\ \A u \in DOMAIN vs : u # vi.Uuid => vs[u] = i.vms[u]
  BY DEF Put
<1> HIDE DEF j, hs, vs
<1>7. j \in Inventories
  BY <1>2, <1>4, <1>5, MapTypes DEF Relisted
<1>8. KeysAgree(j)
  BY <1>2, <1>4, <1>6 DEF Good, KeysAgree, Relisted
<1>9. HostVmsAgree(j)
  <2> SUFFICES ASSUME NEW h \in DOMAIN hs, NEW u \in hs[h].Vms
               PROVE  u \in DOMAIN vs /\ vs[u].Host = h
    BY <1>2 DEF HostVmsAgree
  <2>1. h \in DOMAIN i.hosts /\ u \in lists[h]
    BY <1>4 DEF Relisted
  <2>2. CASE u = vi.Uuid
    BY <1>6, <2>1, <2>2 DEF Moved
  <2>3. CASE u # vi.Uuid
    BY <1>6, <2>1, <2>3 DEF Moved, Good, HostVmsAgree
  <2> QED
    BY <2>2, <2>3
<1> QED
  BY <1>7, <1>8, <1>9 DEF Good, j, hs, vs

\* A VmEvent keeps the inventory Good: a deletion removes the entry and the only
\* listing there can be; any other event moves the VM to the event's host.
LEMMA UpdateVmStateGood ==
  ASSUME NEW i, Good(i), NEW e \in VmEvent
  PROVE  Good(update_vm_state(i, e))
<1> DEFINE u == e.Uuid
           v == i.vms[u]
<1>1. u \in Vm /\ e.Host \in Host /\ e.Runstate \in Runstate
  BY DEF VmEvent
<1>2. Map(i.hosts, Host, Hostdata) /\ Map(i.vms, Vm, VmInfo)
  BY MapTypes DEF Good
<1>3. CASE u \notin DOMAIN i.vms \/ v.Ts > e.Ts
  BY <1>3 DEF update_vm_state
<1>4. CASE u \in DOMAIN i.vms /\ ~(v.Ts > e.Ts) /\ e.Runstate = "DELETED"
  <2> DEFINE hs == delete_hostdata_vm(i.hosts, u, v.Host, e.Host)
             vs == Delete(i.vms, u)
             j == [hosts |-> hs, vms |-> vs]
             lists == Removed(i.hosts, u, v.Host, e.Host)
  <2>1. update_vm_state(i, e) = j
    BY <1>4 DEF update_vm_state
  <2>2. j = [hosts |-> j.hosts, vms |-> j.vms] /\ j.hosts = hs /\ j.vms = vs
    OBVIOUS
  <2>3. Relisted(hs, i.hosts, lists)
    BY <1>1, <1>2, DeleteHostdataVm
  <2>4. Map(vs, Vm, VmInfo)
    BY <1>1, <1>2, DeleteVm
  <2>5. /\ DOMAIN vs = DOMAIN i.vms \ {u}
        /\ \A x \in DOMAIN vs : vs[x] = i.vms[x]
    BY DEF Delete
  <2> HIDE DEF j, hs, vs
  <2>6. j \in Inventories
    BY <2>2, <2>3, <2>4, MapTypes DEF Relisted
  <2>7. KeysAgree(j)
    BY <2>2, <2>3, <2>5 DEF Good, KeysAgree, Relisted
  <2>8. HostVmsAgree(j)
    <3> SUFFICES ASSUME NEW h \in DOMAIN hs, NEW x \in hs[h].Vms
                 PROVE  x \in DOMAIN vs /\ vs[x].Host = h
      BY <2>2 DEF HostVmsAgree
    <3>1. h \in DOMAIN i.hosts /\ x \in lists[h]
      BY <2>3 DEF Relisted
    <3>2. x \in i.hosts[h].Vms
      BY <3>1 DEF Removed
    <3>3. x \in DOMAIN i.vms /\ i.vms[x].Host = h
      BY <3>1, <3>2 DEF Good, HostVmsAgree
    <3>4. x # u
      BY <3>1, <3>3 DEF Removed
    <3> QED
      BY <2>5, <3>3, <3>4
  <2> QED
    BY <2>1, <2>6, <2>7, <2>8 DEF Good
<1>5. CASE u \in DOMAIN i.vms /\ ~(v.Ts > e.Ts) /\ e.Runstate # "DELETED"
  <2> DEFINE vi == [v EXCEPT !.Host = e.Host, !.Runstate = e.Runstate]
  <2>1. v \in VmInfo /\ v.Uuid = u
    BY <1>2, <1>5 DEF Map, Good, KeysAgree
  <2>2. vi \in VmInfo /\ vi.Uuid = u /\ vi.Host = e.Host
    BY <1>1, <2>1 DEF VmInfo, VmEvent
  <2>3. [i.vms EXCEPT ![u].Host = e.Host, ![u].Runstate = e.Runstate]
          = Put(i.vms, u, vi)
    BY <1>2, <1>5 DEF Put, Map
  <2>4. update_vm_state(i, e)
          = [hosts |-> update_hostdata_vm(i.hosts, u, v.Host, e.Host),
             vms |-> Put(i.vms, u, vi)]
    BY <1>5, <2>3 DEF update_vm_state
  <2>5. \A h \in DOMAIN i.hosts : u \in i.hosts[h].Vms => h = v.Host
    BY DEF Good, HostVmsAgree
  <2> HIDE DEF vi
  <2> QED
    BY <2>2, <2>4, <2>5, MoveGood
<1> QED
  BY <1>3, <1>4, <1>5

\* A VmInfo keeps the inventory Good: it moves the VM from the host of the entry
\* it replaces, and a VM without an entry is listed nowhere.
LEMMA UpdateVmGood ==
  ASSUME NEW i, Good(i), NEW vi \in VmInfo
  PROVE  Good(update_vm(i, vi))
<1> DEFINE u == vi.Uuid
           old == IF u \in DOMAIN i.vms THEN i.vms[u].Host ELSE NoHost
<1>1. CASE u \in DOMAIN i.vms /\ i.vms[u].Ts > vi.Ts
  BY <1>1 DEF update_vm
<1>2. CASE ~(u \in DOMAIN i.vms /\ i.vms[u].Ts > vi.Ts)
  <2>1. update_vm(i, vi) = [hosts |-> update_hostdata_vm(i.hosts, u, old, vi.Host),
                            vms |-> Put(i.vms, u, vi)]
    BY <1>2 DEF update_vm
  <2>2. \A h \in DOMAIN i.hosts : u \in i.hosts[h].Vms => h = old
    BY DEF Good, HostVmsAgree
  <2> HIDE DEF old
  <2> QED
    BY <2>1, <2>2, MoveGood
<1> QED
  BY <1>1, <1>2

-----------------------------------------------------------------------------

\* i's entries are not newer than the entries of j under the same uuids.
NoOlder(i, j) ==
  /\ \A h \in DOMAIN i.hosts : h \in DOMAIN j.hosts
       /\ i.hosts[h].Info.Ts <= j.hosts[h].Info.Ts
  /\ \A u \in DOMAIN i.vms \cap DOMAIN j.vms : i.vms[u].Ts <= j.vms[u].Ts

\* The timestamps of a well-formed inventory are integers.
LEMMA GoodTs ==
  ASSUME NEW i, Good(i)
  PROVE  /\ \A h \in DOMAIN i.hosts : i.hosts[h].Info.Ts \in Int
         /\ \A u \in DOMAIN i.vms : i.vms[u].Ts \in Int
BY MapTypes, TsAssumption DEF Good, Map, Hostdata, HostInfo, VmInfo, VmEvent

\* No operation lets an entry go back in time.
LEMMA OperationsNoOlder ==
  ASSUME NEW i, Good(i)
  PROVE  /\ \A hi \in HostInfo : NoOlder(i, update_host(i, hi))
         /\ \A h \in Host, c \in Cstate : NoOlder(i, set_host_state(i, h, c))
         /\ \A e \in VmEvent : NoOlder(i, update_vm_state(i, e))
         /\ \A vi \in VmInfo : NoOlder(i, update_vm(i, vi))
<1>0. /\ \A h \in DOMAIN i.hosts : i.hosts[h].Info.Ts \in Int
      /\ \A u \in DOMAIN i.vms : i.vms[u].Ts \in Int
  BY GoodTs
<1>1. /\ Map(i.hosts, Host, Hostdata) /\ Map(i.vms, Vm, VmInfo)
      /\ i = [hosts |-> i.hosts, vms |-> i.vms]
  BY MapTypes DEF Good
<1>2. NoOlder(i, i)
  BY <1>0 DEF NoOlder
<1>3. ASSUME NEW hi \in HostInfo
      PROVE  NoOlder(i, update_host(i, hi))
  <2> DEFINE j == update_host(i, hi)
             d == [Info |-> hi, Vms |-> IF hi.Uuid \in DOMAIN i.hosts
                                        THEN i.hosts[hi.Uuid].Vms ELSE {}]
  <2>1. CASE j = i
    BY <1>2, <2>1
  <2>2. CASE j # i
    <3>1. /\ j.hosts = Put(i.hosts, hi.Uuid, d)
          /\ j.vms = i.vms
          /\ hi.Uuid \in DOMAIN i.hosts => ~(i.hosts[hi.Uuid].Info.Ts > hi.Ts)
      BY <1>1, <2>2 DEF update_host
    <3>2. hi.Ts \in Int
      BY TsAssumption DEF HostInfo
    <3>3. /\ DOMAIN j.hosts = DOMAIN i.hosts \cup {hi.Uuid}
          /\ \A h \in DOMAIN i.hosts :
               j.hosts[h].Info = IF h = hi.Uuid THEN hi ELSE i.hosts[h].Info
      BY <3>1 DEF Put
    <3> HIDE DEF j, d
    <3>5. NoOlder(i, j)
      BY <3>1, <3>2, <3>3, <1>0 DEF NoOlder
    <3> QED
      BY <3>5 DEF j
  <2> QED
    BY <2>1, <2>2
<1>4. ASSUME NEW h \in Host, NEW c \in Cstate
      PROVE  NoOlder(i, set_host_state(i, h, c))
  <2> DEFINE j == set_host_state(i, h, c)
  <2>1. CASE h \notin DOMAIN i.hosts
    BY <1>2, <2>1 DEF set_host_state
  <2>2. CASE h \in DOMAIN i.hosts
    <3>1. j.vms = i.vms /\ j.hosts = [i.hosts EXCEPT ![h].Info.Cstate = c]
      BY <1>1, <2>2 DEF set_host_state
    <3>2. /\ DOMAIN j.hosts = DOMAIN i.hosts
          /\ \A x \in DOMAIN i.hosts : j.hosts[x].Info.Ts = i.hosts[x].Info.Ts
      BY <1>1, <2>2, <3>1 DEF Map, Hostdata, HostInfo
    <3> HIDE DEF j
    <3>5. NoOlder(i, j)
      BY <3>1, <3>2, <1>0 DEF NoOlder
    <3> QED
      BY <3>5 DEF j
  <2> QED
    BY <2>1, <2>2
<1>5. ASSUME NEW e \in VmEvent
      PROVE  NoOlder(i, update_vm_state(i, e))
  <2> DEFINE u == e.Uuid
             j == update_vm_state(i, e)
             old == i.vms[u].Host
  <2>1. CASE j = i
    BY <1>2, <2>1
  <2>2. CASE j # i /\ e.Runstate = "DELETED"
    <3>1. /\ j.hosts = delete_hostdata_vm(i.hosts, u, old, e.Host)
          /\ j.vms = Delete(i.vms, u)
      BY <2>2 DEF update_vm_state
    <3>2. Relisted(j.hosts, i.hosts, Removed(i.hosts, u, old, e.Host))
      BY <1>1, <3>1, DeleteHostdataVm DEF VmEvent
    <3>3. \A x \in DOMAIN j.vms : j.vms[x] = i.vms[x]
      BY <3>1 DEF Delete
    <3> HIDE DEF j
    <3>5. NoOlder(i, j)
      BY <3>2, <3>3, <1>0 DEF NoOlder, Relisted
    <3> QED
      BY <3>5 DEF j
  <2>3. CASE j # i /\ e.Runstate # "DELETED"
    <3>1. /\ u \in DOMAIN i.vms
          /\ j.hosts = update_hostdata_vm(i.hosts, u, old, e.Host)
          /\ j.vms = [i.vms EXCEPT ![u].Host = e.Host, ![u].Runstate = e.Runstate]
      BY <2>3 DEF update_vm_state
    <3>2. Relisted(j.hosts, i.hosts, Moved(i.hosts, u, old, e.Host))
      BY <1>1, <3>1, UpdateHostdataVm DEF VmEvent
    <3>3. \A x \in DOMAIN i.vms : j.vms[x].Ts = i.vms[x].Ts
      BY <1>1, <3>1 DEF Map, VmInfo, VmEvent
    <3> HIDE DEF j
    <3>5. NoOlder(i, j)
      BY <3>2, <3>3, <1>0 DEF NoOlder, Relisted
    <3> QED
      BY <3>5 DEF j
  <2> QED
    BY <2>1, <2>2, <2>3
<1>6. ASSUME NEW vi \in VmInfo
      PROVE  NoOlder(i, update_vm(i, vi))
  <2> DEFINE u == vi.Uuid
             j == update_vm(i, vi)
             old == IF u \in DOMAIN i.vms THEN i.vms[u].Host ELSE NoHost
  <2>1. CASE j = i
    BY <1>2, <2>1
  <2>2. CASE j # i
    <3>1. /\ j.hosts = update_hostdata_vm(i.hosts, u, old, vi.Host)
          /\ j.vms = Put(i.vms, u, vi)
          /\ u \in DOMAIN i.vms => ~(i.vms[u].Ts > vi.Ts)
      BY <2>2 DEF update_vm
    <3>2. u \in Vm /\ vi.Ts \in Int
      BY TsAssumption DEF VmInfo, VmEvent
    <3> HIDE DEF old
    <3>3. Relisted(j.hosts, i.hosts, Moved(i.hosts, u, old, vi.Host))
      BY <1>1, <3>1, <3>2, UpdateHostdataVm
    <3>4. \A x \in DOMAIN i.vms : j.vms[x] = IF x = u THEN vi ELSE i.vms[x]
      BY <3>1 DEF Put
    <3> HIDE DEF j
    <3>5. NoOlder(i, j)
      BY <3>1, <3>2, <3>3, <3>4, <1>0 DEF NoOlder, Relisted
    <3> QED
      BY <3>5 DEF j
  <2> QED
    BY <2>1, <2>2
<1> QED
  BY <1>3, <1>4, <1>5, <1>6
=============================================================================
