---------------------------- MODULE Cluster_proofs ----------------------------
(***************************************************************************)
(* What Cluster promises of the inventories, proved for any hosts, VMs and *)
(* times, any number of operations, messages and faults.                   *)
(*                                                                         *)
(*   CInv   every observation on its way, and every inventory, is well     *)
(*          formed (Good, of module InventoryOps_proofs);                  *)
(*   WInv   what is on its way and what the inventories show has been true *)
(*          of the domains.                                                *)
(***************************************************************************)
EXTENDS Cluster, InventoryOps_proofs

\* The libvirt side.
DomainsOK ==
  /\ clock \in Ts
  /\ dom \in [Host -> [Vm -> DomainState]]
  /\ events \in [Host -> Seq(Event)]
  /\ ops \in 0..MaxOps /\ faults \in 0..MaxFaults

\* The virtxd side.
InventoriesOK ==
  /\ loop \in [Host -> Loop]
  /\ inv \in [Host -> Inventories]
  /\ \A h \in Host : Good(inv[h])

\* The type invariant and what makes it inductive.
CInv == DomainsOK /\ InventoriesOK /\ net \subseteq Message

-----------------------------------------------------------------------------
(* Messages                                                                 *)

\* There is a first time.
LEMMA FirstTsType == FirstTs \in Ts
BY FirstTsAssumption DEF FirstTs

\* The state of the loop between snapshots.
LEMMA IdleType == ASSUME NEW d \in BOOLEAN PROVE Idle(d) \in Loop
BY FirstTsType DEF Idle, Loop

\* What a message carries is what its label says.
LEMMA MessageTypes ==
  ASSUME NEW m \in Message
  PROVE  /\ m.to \in Host /\ m.label \in {"host-info", "vm-info", "vm-event"}
         /\ m.label = "host-info" => m.body \in HostInfo
         /\ m.label = "vm-info" => m.body \in VmInfo
         /\ m.label = "vm-event" => m.body \in VmEvent
BY DEF Message

\* Copies are messages.
LEMMA CopiesTypes ==
  ASSUME NEW label, NEW bodies,
         \/ label = "host-info" /\ bodies \subseteq HostInfo
         \/ label = "vm-info" /\ bodies \subseteq VmInfo
         \/ label = "vm-event" /\ bodies \subseteq VmEvent
  PROVE  /\ Copies(label, bodies) \subseteq Message
         /\ \A m \in Copies(label, bodies) : m.label = label /\ m.body \in bodies
BY ReachedAssumption DEF Copies, Message

\* The run state of a domain is one, and is not DELETED.
LEMMA RunstateTypes ==
  ASSUME NEW s \in DomainState, s # "undefined"
  PROVE  RunstateOf(s) \in Runstate /\ RunstateOf(s) # "DELETED"
BY RunstatesAssumption DEF DomainState, RunstateOf

\* A report of a domain that is there, and of one that is not.
LEMMA ReportTypes ==
  ASSUME CInv, NEW h \in Host, NEW u \in Vm
  PROVE  /\ u \in Defined(h) =>
              [Uuid |-> u, Host |-> h, Runstate |-> get_domain_info(h, u), Ts |-> clock] \in VmEvent
         /\ \A t \in Ts : [Uuid |-> u, Host |-> h, Runstate |-> "DELETED", Ts |-> t] \in VmEvent
<1>1. clock \in Ts /\ dom[h][u] \in DomainState BY DEF CInv, DomainsOK
<1>2. u \in Defined(h) => get_domain_info(h, u) \in Runstate
  BY <1>1, RunstateTypes DEF Defined, get_domain_info
<1> QED BY <1>1, <1>2, RunstateAssumption DEF VmEvent

-----------------------------------------------------------------------------
(* Steps keep the types                                                     *)

\* Nothing is wrong at first.
LEMMA InitTypes == Init => CInv
<1> SUFFICES ASSUME Init PROVE CInv OBVIOUS
<1>1. clock \in Ts BY FirstTsType DEF Init
<1>2. dom \in [Host -> [Vm -> DomainState]]
  <2>1. PICK s \in HomeStates :
          dom = [h \in Host |-> [u \in Vm |-> IF h = Home THEN s ELSE "undefined"]]
    BY DEF Init
  <2>2. s \in DomainState BY HomeAssumption DEF DomainState
  <2> QED BY <2>1, <2>2 DEF DomainState
<1>3. events \in [Host -> Seq(Event)] BY DEF Init
<1>4. ops \in 0..MaxOps /\ faults \in 0..MaxFaults BY BoundsAssumption DEF Init
<1>5. loop \in [Host -> Loop] BY IdleType DEF Init
<1>6. inv \in [Host -> Inventories] /\ \A h \in Host : Good(inv[h])
  BY InitGood DEF Init, Good
<1> QED BY <1>1, <1>2, <1>3, <1>4, <1>5, <1>6 DEF Init, CInv, DomainsOK, InventoriesOK

\* A fault is counted within its bound.
LEMMA FaultBound == ASSUME CInv, NEW kind, Fault(kind) PROVE faults' \in 0..MaxFaults
BY BoundsAssumption DEF Fault, CInv, DomainsOK

\* An operation on a domain leaves well-formed domains and events.
LEMMA OperateTypes ==
  ASSUME CInv, NEW h \in Host, NEW u \in Vm, NEW from, NEW to \in DomainState,
         NEW k \in {"DEFINED", "UNDEFINED", "CHANGED"}, Operate(h, u, from, to, <<k>>)
  PROVE  CInv'
<1>1. dom' \in [Host -> [Vm -> DomainState]] BY DEF Operate, CInv, DomainsOK
<1>2. [n \in 1..Len(<<k>>) |-> [kind |-> <<k>>[n], Uuid |-> u]] \in Seq(Event)
  <2>1. Len(<<k>>) = 1 /\ <<k>>[1] = k OBVIOUS
  <2>2. \A n \in 1..Len(<<k>>) : [kind |-> <<k>>[n], Uuid |-> u] \in Event
    BY <2>1 DEF Event
  <2> QED BY <2>1, <2>2
<1>3. events' \in [Host -> Seq(Event)]
  BY <1>2 DEF Operate, CInv, DomainsOK
<1>4. ops' \in 0..MaxOps BY BoundsAssumption DEF Operate, CInv, DomainsOK
<1> QED BY <1>1, <1>3, <1>4 DEF Operate, CInv, DomainsOK, InventoriesOK

\* So do the operations of libvirt.
LEMMA DomainTypes ==
  ASSUME CInv, NEW h \in Host, NEW u \in Vm,
         \/ Define(h, u) \/ Boot(h, u) \/ Stop(h, u) \/ Undefine(h, u)
         \/ \E g \in Host : MigrateFinish(h, g, u)
         \/ MigrateConfirm(h, u)
  PROVE  CInv'
<1>0. {"undefined", "SHUTOFF", "RUNNING", "PAUSED_MIGRATION"} \subseteq DomainState
  BY DEF DomainState
<1>1. CASE Define(h, u) \/ Boot(h, u) \/ Stop(h, u) \/ Undefine(h, u)
  BY <1>0, <1>1, OperateTypes DEF Define, Boot, Stop, Undefine
<1>2. ASSUME NEW g \in Host, MigrateFinish(h, g, u) PROVE CInv'
  <2>1. dom' \in [Host -> [Vm -> DomainState]]
    BY <1>0, <1>2 DEF MigrateFinish, CInv, DomainsOK
  <2>2. [kind |-> "CHANGED", Uuid |-> u] \in Event /\ [kind |-> "DEFINED", Uuid |-> u] \in Event
    BY DEF Event
  <2>3. <<[kind |-> "CHANGED", Uuid |-> u], [kind |-> "DEFINED", Uuid |-> u]>> \in Seq(Event)
    BY <2>2
  <2>4. events' \in [Host -> Seq(Event)]
    <3>1. events' = [events EXCEPT
            ![h] = Append(@, [kind |-> "CHANGED", Uuid |-> u]),
            ![g] = @ \o <<[kind |-> "CHANGED", Uuid |-> u], [kind |-> "DEFINED", Uuid |-> u]>>]
      BY <1>2 DEF MigrateFinish
    <3>2. events \in [Host -> Seq(Event)] BY DEF CInv, DomainsOK
    <3>3. \A q \in Seq(Event) :
            /\ Append(q, [kind |-> "CHANGED", Uuid |-> u]) \in Seq(Event)
            /\ q \o <<[kind |-> "CHANGED", Uuid |-> u], [kind |-> "DEFINED", Uuid |-> u]>>
                 \in Seq(Event)
      BY <2>2, <2>3
    <3> HIDE DEF Event
    <3> QED BY <1>2, <3>1, <3>2, <3>3 DEF MigrateFinish
  <2>5. ops' \in 0..MaxOps BY <1>2, BoundsAssumption DEF MigrateFinish, CInv, DomainsOK
  <2> QED BY <1>2, <2>1, <2>4, <2>5 DEF MigrateFinish, CInv, DomainsOK, InventoriesOK
<1>3. CASE MigrateConfirm(h, u)
  <2>1. dom' \in [Host -> [Vm -> DomainState]]
    BY <1>0, <1>3 DEF MigrateConfirm, CInv, DomainsOK
  <2>2. [kind |-> "UNDEFINED", Uuid |-> u] \in Event BY DEF Event
  <2>3. events' \in [Host -> Seq(Event)] BY <1>3, <2>2 DEF MigrateConfirm, CInv, DomainsOK
  <2> QED BY <1>3, <2>1, <2>3 DEF MigrateConfirm, CInv, DomainsOK, InventoriesOK
<1> QED BY <1>1, <1>2, <1>3

\* What lifecycle_cb sends: nothing, the end of a VM, or the state of one that is there.
LEMMA CallbackSends ==
  ASSUME CInv, NEW h \in Host, lifecycle_cb(h)
  PROVE  \/ net' = net
         \/ \E u \in Vm : net' = net \cup Copies("vm-event",
              {[Uuid |-> u, Host |-> h, Runstate |-> "DELETED", Ts |-> clock]})
         \/ \E u \in Defined(h), label \in {"vm-info", "vm-event"} : net' = net \cup Copies(label,
              {[Uuid |-> u, Host |-> h, Runstate |-> get_domain_info(h, u), Ts |-> clock]})
<1>1. PICK e \in Event : e = Head(events[h]) BY DEF lifecycle_cb, CInv, DomainsOK
<1>2. e.Uuid \in Vm BY DEF Event
<1>3. CASE ~loop[h].done BY <1>3 DEF lifecycle_cb, Send
<1>4. CASE loop[h].done /\ e.kind = "UNDEFINED"
  BY <1>1, <1>2, <1>4 DEF lifecycle_cb, Send
<1>5. CASE loop[h].done /\ e.kind # "UNDEFINED" /\ e.Uuid \notin Defined(h)
  BY <1>1, <1>5 DEF lifecycle_cb, Send
<1>6. CASE loop[h].done /\ e.kind # "UNDEFINED" /\ e.Uuid \in Defined(h)
  BY <1>1, <1>6 DEF lifecycle_cb, Send
<1> QED BY <1>3, <1>4, <1>5, <1>6

\* The callback keeps the types.
LEMMA CallbackTypes == ASSUME CInv, NEW h \in Host, lifecycle_cb(h) PROVE CInv'
<1>1. net' \subseteq Message
  <2>1. CASE net' = net BY <2>1 DEF CInv
  <2>2. ASSUME NEW u \in Vm, NEW label \in {"vm-info", "vm-event"}, NEW b \in VmEvent,
               net' = net \cup Copies(label, {b})
        PROVE  net' \subseteq Message
    <3>1. {b} \subseteq VmInfo /\ {b} \subseteq VmEvent BY DEF VmInfo
    <3> QED BY <2>2, <3>1, CopiesTypes DEF CInv
  <2>3. clock \in Ts /\ \A u \in Defined(h) : u \in Vm BY DEF CInv, DomainsOK, Defined
  <2> QED BY <2>1, <2>2, <2>3, CallbackSends, ReportTypes
<1>2. events' \in [Host -> Seq(Event)]
  <2>1. Tail(events[h]) \in Seq(Event) BY DEF lifecycle_cb, CInv, DomainsOK
  <2> QED BY <2>1 DEF lifecycle_cb, CInv, DomainsOK
<1> QED BY <1>1, <1>2 DEF lifecycle_cb, CInv, DomainsOK, InventoriesOK

\* What a snapshot sends.
SnapshotOf(h, s) ==
  Copies("host-info", {[Uuid |-> h, Cstate |-> "ACTIVE", Ts |-> clock]}) \cup
  Copies("vm-info", {[Uuid |-> u, Host |-> h, Runstate |-> get_domain_info(h, u),
                      Ts |-> clock] : u \in Defined(h) \ s})

\* It is well formed.
LEMMA SnapshotTypes ==
  ASSUME CInv, NEW h \in Host, NEW s
  PROVE  SnapshotOf(h, s) \subseteq Message
<1>1. {[Uuid |-> h, Cstate |-> "ACTIVE", Ts |-> clock]} \subseteq HostInfo
  BY DEF CInv, DomainsOK, HostInfo, Cstate
<1>2. {[Uuid |-> u, Host |-> h, Runstate |-> get_domain_info(h, u),
        Ts |-> clock] : u \in Defined(h) \ s} \subseteq VmInfo
  BY ReportTypes DEF Defined, VmInfo
<1> QED BY <1>1, <1>2, CopiesTypes DEF SnapshotOf

\* The snapshot keeps the types.
LEMMA SnapshotStep ==
  ASSUME CInv, NEW h \in Host, NEW s \in Unread(h), system_info_get(h, s)
  PROVE  CInv'
<1>1. net' \subseteq Message
  BY SnapshotTypes DEF system_info_get, SnapshotOf, Send, CInv
<1>2. loop' \in [Host -> Loop]
  <2>1. [pc |-> "ghosts", done |-> TRUE, ts |-> clock, snap |-> Defined(h) \ s, left |-> Vm] \in Loop
    BY DEF Loop, Defined, CInv, DomainsOK
  <2> QED BY <2>1, IdleType DEF system_info_get, CInv, InventoriesOK
<1>3. faults' \in 0..MaxFaults BY FaultBound DEF system_info_get, CInv, DomainsOK
<1> QED BY <1>1, <1>2, <1>3 DEF system_info_get, CInv, DomainsOK, InventoriesOK

\* What delete_ghosts sends: nothing, or the end of a VM.
LEMMA GhostsSend ==
  ASSUME CInv, NEW h \in Host, delete_ghosts(h)
  PROVE  \/ net' = net
         \/ \E u \in Vm : net' = net \cup Copies("vm-event", {GhostEvent(h, u)})
BY DEF delete_ghosts, Send, CInv, InventoriesOK, Loop

\* delete_ghosts keeps the types.
LEMMA GhostsTypes == ASSUME CInv, NEW h \in Host, delete_ghosts(h) PROVE CInv'
<1>1. net' \subseteq Message
  <2>1. ASSUME NEW u \in Vm PROVE Copies("vm-event", {GhostEvent(h, u)}) \subseteq Message
    <3>1. loop[h].ts \in Ts BY DEF CInv, InventoriesOK, Loop
    <3>2. {GhostEvent(h, u)} \subseteq VmEvent BY <3>1, ReportTypes DEF GhostEvent
    <3> QED BY <3>2, CopiesTypes
  <2> QED BY <2>1, GhostsSend DEF CInv
<1>2. loop' \in [Host -> Loop]
  <2>1. PICK u \in loop[h].left : loop' = [loop EXCEPT ![h] =
            IF loop[h].left = {u} THEN Idle(TRUE) ELSE [loop[h] EXCEPT !.left = @ \ {u}]]
    BY DEF delete_ghosts
  <2>2. [loop[h] EXCEPT !.left = @ \ {u}] \in Loop BY DEF CInv, InventoriesOK, Loop
  <2>3. CASE loop[h].left = {u}
    <3>1. loop' = [loop EXCEPT ![h] = Idle(TRUE)] BY <2>1, <2>3
    <3> QED BY <3>1, IdleType DEF CInv, InventoriesOK
  <2>4. CASE loop[h].left # {u}
    <3>1. loop' = [loop EXCEPT ![h] = [loop[h] EXCEPT !.left = @ \ {u}]] BY <2>1, <2>4
    <3> QED BY <2>2, <3>1 DEF CInv, InventoriesOK
  <2> QED BY <2>3, <2>4
<1> QED BY <1>1, <1>2 DEF delete_ghosts, CInv, DomainsOK, InventoriesOK

\* An inventory takes in a well-formed message.
LEMMA HandleGood ==
  ASSUME NEW i, Good(i), NEW m \in Message
  PROVE  Good(handle_user_event(i, m))
BY MessageTypes, UpdateHostGood, UpdateVmStateGood, UpdateVmGood DEF handle_user_event

\* Receiving keeps the types.
LEMMA ReceiveTypes == ASSUME CInv, NEW m \in net, recv_serf_events(m) PROVE CInv'
<1>1. m \in Message /\ m.to \in Host BY MessageTypes DEF CInv
<1>2. Good(handle_user_event(inv[m.to], m)) BY <1>1, HandleGood DEF CInv, InventoriesOK
<1>3. inv' \in [Host -> Inventories] /\ \A h \in Host : Good(inv'[h])
  BY <1>1, <1>2 DEF recv_serf_events, CInv, InventoriesOK, Good
<1> QED BY <1>3 DEF recv_serf_events, CInv, DomainsOK, InventoriesOK

\* Losses, reconnections and restarts keep the types.
LEMMA FaultTypes ==
  ASSUME CInv, (\E m \in net : Lose(m)) \/ (\E h \in Host : reconnect(h) \/ Restart(h))
  PROVE  CInv'
<1>1. CASE \E m \in net : Lose(m)
  BY <1>1, FaultBound DEF Lose, CInv, DomainsOK, InventoriesOK
<1>2. ASSUME NEW h \in Host, reconnect(h) \/ Restart(h) PROVE CInv'
  <2>1. faults' \in 0..MaxFaults BY <1>2, FaultBound DEF reconnect, Restart
  <2>2. events' \in [Host -> Seq(Event)]
    <3>1. <<>> \in Seq(Event) OBVIOUS
    <3>2. events' = [events EXCEPT ![h] = <<>>] BY <1>2 DEF reconnect, Restart
    <3> QED BY <3>1, <3>2 DEF CInv, DomainsOK
  <2>3. loop' \in [Host -> Loop]
    <3>1. loop[h].done \in BOOLEAN BY DEF CInv, InventoriesOK, Loop
    <3> QED BY <1>2, <3>1, IdleType DEF reconnect, Restart, CInv, InventoriesOK
  <2>4. inv' \in [Host -> Inventories] /\ \A g \in Host : Good(inv'[g])
    BY <1>2, InitGood DEF reconnect, Restart, CInv, InventoriesOK, Good
  <2> QED BY <1>2, <2>1, <2>2, <2>3, <2>4 DEF reconnect, Restart, CInv, DomainsOK, InventoriesOK
<1> QED BY <1>1, <1>2

\* Every step keeps the types.
LEMMA NextTypes == ASSUME CInv, [Next]_vars PROVE CInv'
<1>1. CASE Tick BY <1>1 DEF Tick, CInv, DomainsOK, InventoriesOK
<1>2. CASE UNCHANGED vars BY <1>2 DEF vars, CInv, DomainsOK, InventoriesOK
<1> QED BY <1>1, <1>2, DomainTypes, CallbackTypes, SnapshotStep, GhostsTypes, ReceiveTypes,
           FaultTypes DEF Next

\* CInv holds throughout.
LEMMA ClusterInvariant == Spec => []CInv
BY InitTypes, NextTypes, PTL DEF Spec

\* Everything that the hosts of a cluster observe, send and keep is well formed, whatever is
\* lost, restarted or reordered.
THEOREM ClusterTypeCorrect == Spec => []ClusterTypeOK
<1>1. CInv => ClusterTypeOK
  BY DEF CInv, DomainsOK, InventoriesOK, ClusterTypeOK, Good
<1> QED BY <1>1, ClusterInvariant, PTL

-----------------------------------------------------------------------------
(* The inventories are those of module Inventory                            *)

\* The operations of the instances are those of module InventoryOps.
LEMMA StoreOps ==
  ASSUME NEW h \in Host, NEW i
  PROVE  /\ Store(h)!HostInfo = HostInfo /\ Store(h)!VmEvent = VmEvent /\ Store(h)!VmInfo = VmInfo
         /\ Store(h)!init = init
         /\ \A hi \in HostInfo : Store(h)!update_host(i, hi) = update_host(i, hi)
         /\ \A e \in VmEvent : Store(h)!update_vm_state(i, e) = update_vm_state(i, e)
         /\ \A vi \in VmInfo : Store(h)!update_vm(i, vi) = update_vm(i, vi)
<1>1. Store(h)!HostInfo = HostInfo /\ Store(h)!VmEvent = VmEvent /\ Store(h)!VmInfo = VmInfo
  BY DEF Store!HostInfo, HostInfo, Store!VmEvent, VmEvent, Store!VmInfo, VmInfo,
         Store!Cstate, Cstate
<1>2. Store(h)!init = init BY DEF Store!init, init
<1>3. \A m, k, v : Store(h)!Put(m, k, v) = Put(m, k, v) BY DEF Store!Put, Put
<1>4. \A m, k : Store(h)!Delete(m, k) = Delete(m, k) BY DEF Store!Delete, Delete
<1>5. \A hosts, u, a, b :
        Store(h)!update_hostdata_vm(hosts, u, a, b) = update_hostdata_vm(hosts, u, a, b)
  BY DEF Store!update_hostdata_vm, update_hostdata_vm
<1>6. \A hosts, u, a, b :
        Store(h)!delete_hostdata_vm(hosts, u, a, b) = delete_hostdata_vm(hosts, u, a, b)
  BY DEF Store!delete_hostdata_vm, delete_hostdata_vm
<1>7. \A hi \in HostInfo : Store(h)!update_host(i, hi) = update_host(i, hi)
  BY <1>3 DEF Store!update_host, update_host
<1>8. \A e \in VmEvent : Store(h)!update_vm_state(i, e) = update_vm_state(i, e)
  BY <1>4, <1>5, <1>6 DEF Store!update_vm_state, update_vm_state
<1>9. \A vi \in VmInfo : Store(h)!update_vm(i, vi) = update_vm(i, vi)
  BY <1>3, <1>5 DEF Store!update_vm, update_vm
<1> QED BY <1>1, <1>2, <1>7, <1>8, <1>9

\* A message is one of the calls that module Inventory knows.
LEMMA HandleStep ==
  ASSUME NEW h \in Host, NEW m \in Message, inv[h]' = handle_user_event(inv[h], m)
  PROVE  Store(h)!Next
BY MessageTypes, StoreOps
   DEF handle_user_event, Store!Next, Store!Update_host, Store!Update_vm_state, Store!Update_vm

\* Every step of the cluster is, for every virtxd, a step of its inventory or none.
LEMMA StoreSteps ==
  ASSUME CInv, [Next]_vars, NEW h \in Host
  PROVE  [Store(h)!Next]_(inv[h])
<1>1. CASE inv' = inv BY <1>1
<1>2. ASSUME NEW m \in net, recv_serf_events(m) PROVE [Store(h)!Next]_(inv[h])
  <2>1. m \in Message BY DEF CInv
  <2>2. CASE h = m.to
    <3>1. inv[h]' = handle_user_event(inv[h], m)
      BY <1>2, <2>2 DEF recv_serf_events, CInv, InventoriesOK
    <3> QED BY <2>1, <3>1, HandleStep
  <2>3. CASE h # m.to BY <1>2, <2>3 DEF recv_serf_events, CInv, InventoriesOK
  <2> QED BY <2>2, <2>3
<1>3. ASSUME NEW g \in Host, Restart(g) PROVE [Store(h)!Next]_(inv[h])
  <2>1. CASE h = g
    <3>1. inv[h]' = init BY <1>3, <2>1 DEF Restart, CInv, InventoriesOK
    <3> QED BY <3>1, StoreOps DEF Store!Next, Store!Restart
  <2>2. CASE h # g BY <1>3, <2>2 DEF Restart, CInv, InventoriesOK
  <2> QED BY <2>1, <2>2
<1>4. ASSUME NEW g \in Host, NEW u \in Vm,
             \/ Define(g, u) \/ Boot(g, u) \/ Stop(g, u) \/ Undefine(g, u)
             \/ MigrateConfirm(g, u) \/ \E k \in Host : MigrateFinish(g, k, u)
      PROVE  inv' = inv
  BY <1>4 DEF Define, Boot, Stop, Undefine, Operate, MigrateFinish, MigrateConfirm
<1>5. CASE UNCHANGED vars BY <1>1, <1>5 DEF vars
<1>6. CASE Next
  BY <1>1, <1>2, <1>3, <1>4, <1>6
     DEF Next, Tick, lifecycle_cb, system_info_get, delete_ghosts, reconnect, Lose
<1> QED BY <1>5, <1>6

\* Each virtxd's inventory is one of module Inventory: gossip and restarts change it by
\* the operations of that module and in no other way.
THEOREM InventoriesCorrect == Spec => InventoriesImplemented
<1>1. Init => \A h \in Host : Store(h)!Init BY StoreOps DEF Init, Store!Init
<1>2. ASSUME CInv, [Next]_vars PROVE [\A h \in Host : [Store(h)!Next]_(inv[h])]_vars
  BY <1>2, StoreSteps
<1> QED BY <1>1, <1>2, ClusterInvariant, PTL DEF Spec, InventoriesImplemented

-----------------------------------------------------------------------------
(* Nothing is invented                                                      *)

\* What an observation says of a VM.
Fact(b) == [Uuid |-> b.Uuid, Host |-> b.Host, Runstate |-> b.Runstate]

\* What is, what is on its way and what is shown has been.
WInv ==
  /\ Facts(dom) \subseteq was
  /\ \A m \in net :
       /\ m.label = "vm-info" => Fact(m.body) \in was
       /\ m.label = "vm-event" => m.body.Runstate = "DELETED" \/ Fact(m.body) \in was
  /\ NothingInvented

\* The history only grows.
LEMMA WasGrows == ASSUME [Next]_vars PROVE was \subseteq was'
<1>1. CASE UNCHANGED was BY <1>1
<1>2. ASSUME NEW h \in Host, NEW u \in Vm,
             \/ Define(h, u) \/ Boot(h, u) \/ Stop(h, u) \/ Undefine(h, u)
             \/ \E g \in Host : MigrateFinish(h, g, u)
      PROVE  was \subseteq was'
  BY <1>2 DEF Define, Boot, Stop, Undefine, Operate, MigrateFinish
<1>3. CASE UNCHANGED vars BY <1>1, <1>3 DEF vars
<1>4. CASE Next
  BY <1>1, <1>2, <1>4
     DEF Next, Tick, MigrateConfirm, lifecycle_cb, system_info_get, delete_ghosts,
         reconnect, Restart, recv_serf_events, Lose
<1> QED BY <1>3, <1>4

\* The domains are facts after the step.
LEMMA FactsKept == ASSUME CInv, WInv, [Next]_vars PROVE Facts(dom') \subseteq was'
<1>1. CASE UNCHANGED <<dom, was>> BY <1>1 DEF WInv
<1>2. ASSUME NEW h \in Host, NEW u \in Vm, MigrateConfirm(h, u) PROVE Facts(dom') \subseteq was'
  <2>1. dom' = [dom EXCEPT ![h][u] = "undefined"] /\ was' = was BY <1>2 DEF MigrateConfirm
  <2>2. \A g \in Host, v \in Vm : dom'[g][v] # "undefined" => dom'[g][v] = dom[g][v]
    BY <2>1 DEF CInv, DomainsOK
  <2>3. Facts(dom') \subseteq Facts(dom) BY <2>2 DEF Facts
  <2> QED BY <2>1, <2>3 DEF WInv
<1>3. ASSUME NEW h \in Host, NEW u \in Vm,
             \/ Define(h, u) \/ Boot(h, u) \/ Stop(h, u) \/ Undefine(h, u)
             \/ \E g \in Host : MigrateFinish(h, g, u)
      PROVE  Facts(dom') \subseteq was'
  BY <1>3 DEF Define, Boot, Stop, Undefine, Operate, MigrateFinish
<1>4. CASE UNCHANGED vars BY <1>1, <1>4 DEF vars
<1>5. CASE Next
  BY <1>1, <1>2, <1>3, <1>5
     DEF Next, Tick, lifecycle_cb, system_info_get, delete_ghosts, reconnect, Restart,
         recv_serf_events, Lose
<1> QED BY <1>4, <1>5

\* A message says what has been.
Told(m) ==
  /\ m.label = "vm-info" => Fact(m.body) \in was
  /\ m.label = "vm-event" => m.body.Runstate = "DELETED" \/ Fact(m.body) \in was

\* What a host reports of a domain that is there has been.
LEMMA ReportTold ==
  ASSUME CInv, WInv, NEW h \in Host, NEW u \in Defined(h)
  PROVE  Fact([Uuid |-> u, Host |-> h, Runstate |-> get_domain_info(h, u), Ts |-> clock]) \in was
<1>1. [Uuid |-> u, Host |-> h, Runstate |-> get_domain_info(h, u)] \in Facts(dom)
  BY DEF Facts, Defined, get_domain_info
<1> QED BY <1>1 DEF Fact, WInv

\* What is sent says what has been.
LEMMA MessagesTold ==
  ASSUME CInv, WInv, [Next]_vars, NEW m \in net'
  PROVE  Told(m)
<1>0. \A k \in net : Told(k) BY DEF WInv, Told
<1>1. CASE net' \subseteq net BY <1>0, <1>1
<1>2. ASSUME NEW h \in Host, lifecycle_cb(h) PROVE Told(m)
  <2>1. ASSUME NEW u \in Vm, NEW b, b.Runstate = "DELETED" \/ Fact(b) \in was,
               NEW label \in {"vm-info", "vm-event"}, label = "vm-info" => Fact(b) \in was,
               net' = net \cup Copies(label, {b})
        PROVE  Told(m)
    BY <1>0, <2>1 DEF Copies, Told
  <2>2. \A u \in Defined(h) : u \in Vm BY DEF Defined
  <2>3. CASE net' = net BY <1>1, <2>3
  <2>4. ASSUME NEW u \in Vm, net' = net \cup Copies("vm-event",
                 {[Uuid |-> u, Host |-> h, Runstate |-> "DELETED", Ts |-> clock]})
        PROVE  Told(m)
    BY <2>1, <2>4
  <2>5. ASSUME NEW u \in Defined(h), NEW label \in {"vm-info", "vm-event"},
               net' = net \cup Copies(label,
                 {[Uuid |-> u, Host |-> h, Runstate |-> get_domain_info(h, u), Ts |-> clock]})
        PROVE  Told(m)
    BY <2>1, <2>2, <2>5, ReportTold
  <2> QED BY <1>2, <2>3, <2>4, <2>5, CallbackSends
<1>3. ASSUME NEW h \in Host, NEW s \in Unread(h), system_info_get(h, s) PROVE Told(m)
  <2>1. net' = net \cup SnapshotOf(h, s) BY <1>3 DEF system_info_get, Send, SnapshotOf
  <2>2. CASE m \in Copies("host-info", {[Uuid |-> h, Cstate |-> "ACTIVE", Ts |-> clock]})
    BY <2>2 DEF Copies, Told
  <2>3. CASE m \in Copies("vm-info", {[Uuid |-> u, Host |-> h, Runstate |-> get_domain_info(h, u),
                                       Ts |-> clock] : u \in Defined(h) \ s})
    <3>1. PICK u \in Defined(h) :
            /\ m.label = "vm-info"
            /\ m.body = [Uuid |-> u, Host |-> h, Runstate |-> get_domain_info(h, u), Ts |-> clock]
      BY <2>3 DEF Copies
    <3> QED BY <3>1, ReportTold DEF Told
  <2> QED BY <1>0, <2>1, <2>2, <2>3 DEF SnapshotOf
<1>4. ASSUME NEW h \in Host, delete_ghosts(h) PROVE Told(m)
  <2>1. ASSUME NEW u \in Vm, net' = net \cup Copies("vm-event", {GhostEvent(h, u)})
        PROVE  Told(m)
    BY <1>0, <2>1 DEF Copies, Told, GhostEvent
  <2> QED BY <1>1, <1>4, <2>1, GhostsSend
<1>5. ASSUME NEW h \in Host, NEW u \in Vm,
             \/ Define(h, u) \/ Boot(h, u) \/ Stop(h, u) \/ Undefine(h, u)
             \/ MigrateConfirm(h, u) \/ \E g \in Host : MigrateFinish(h, g, u)
      PROVE  net' = net
  BY <1>5 DEF Define, Boot, Stop, Undefine, Operate, MigrateFinish, MigrateConfirm
<1>6. CASE UNCHANGED vars BY <1>1, <1>6 DEF vars
<1>7. CASE Next
  BY <1>1, <1>2, <1>3, <1>4, <1>5, <1>7
     DEF Next, Tick, reconnect, Restart, recv_serf_events, Lose
<1> QED BY <1>6, <1>7

\* An inventory that shows what has been still does once it has taken in a message that
\* says what has been: an entry takes its host and its run state from one observation.
LEMMA HandleTold ==
  ASSUME NEW i, Good(i), NEW m \in Message, Told(m),
         \A v \in DOMAIN i.vms :
           [Uuid |-> v, Host |-> i.vms[v].Host, Runstate |-> i.vms[v].Runstate] \in was,
         NEW u \in DOMAIN handle_user_event(i, m).vms
  PROVE  [Uuid |-> u, Host |-> handle_user_event(i, m).vms[u].Host,
          Runstate |-> handle_user_event(i, m).vms[u].Runstate] \in was
<1> DEFINE j == handle_user_event(i, m)
<1>0. i \in Inventories /\ Map(i.vms, Vm, VmInfo) BY MapTypes DEF Good
<1>1. CASE j.vms = i.vms BY <1>1
<1>2. CASE m.label = "host-info"
  <2>1. j = update_host(i, m.body) BY <1>2 DEF handle_user_event
  <2>2. j.vms = i.vms BY <1>0, <2>1 DEF update_host, Inventories
  <2> QED BY <1>1, <2>2
<1>3. CASE m.label = "vm-event"
  <2> DEFINE e == m.body
  <2>1. j = update_vm_state(i, e) BY <1>3 DEF handle_user_event
  <2>2. e \in VmEvent BY <1>3, MessageTypes
  <2>3. CASE j = i BY <1>1, <2>3
  <2>4. CASE j # i /\ e.Runstate = "DELETED"
    <3>1. j.vms = Delete(i.vms, e.Uuid) BY <2>1, <2>4 DEF update_vm_state
    <3> QED BY <3>1 DEF Delete
  <2>5. CASE j # i /\ e.Runstate # "DELETED"
    <3>1. /\ e.Uuid \in DOMAIN i.vms
          /\ j.vms = [i.vms EXCEPT ![e.Uuid].Host = e.Host, ![e.Uuid].Runstate = e.Runstate]
      BY <2>1, <2>5 DEF update_vm_state
    <3>2. Fact(e) \in was BY <1>3, <2>5 DEF Told
    <3>3. \A v \in DOMAIN i.vms : i.vms[v] \in VmInfo BY <1>0 DEF Map
    <3>4. CASE u = e.Uuid
      <4>1. j.vms[u].Host = e.Host /\ j.vms[u].Runstate = e.Runstate
        BY <1>0, <3>1, <3>3, <3>4 DEF Map, VmInfo, VmEvent
      <4> QED BY <3>2, <3>4, <4>1 DEF Fact
    <3>5. CASE u # e.Uuid
      <4>1. u \in DOMAIN i.vms /\ j.vms[u] = i.vms[u] BY <1>0, <3>1, <3>5 DEF Map
      <4> QED BY <4>1
    <3> QED BY <3>4, <3>5
  <2> QED BY <2>3, <2>4, <2>5
<1>4. CASE m.label = "vm-info"
  <2> DEFINE vi == m.body
  <2>1. j = update_vm(i, vi) BY <1>4 DEF handle_user_event
  <2>2. CASE j = i BY <1>1, <2>2
  <2>3. CASE j # i
    <3>1. j.vms = Put(i.vms, vi.Uuid, vi) BY <2>1, <2>3 DEF update_vm
    <3>2. Fact(vi) \in was BY <1>4 DEF Told
    <3> QED BY <3>1, <3>2 DEF Put, Fact
  <2> QED BY <2>2, <2>3
<1> QED BY <1>2, <1>3, <1>4, MessageTypes

\* What the inventories show has been, after the step.
LEMMA NothingInventedKept == ASSUME CInv, WInv, [Next]_vars PROVE NothingInvented'
<1>0. was \subseteq was' BY WasGrows
<1>1. CASE inv' = inv BY <1>0, <1>1 DEF WInv, NothingInvented
<1>2. ASSUME NEW m \in net, recv_serf_events(m) PROVE NothingInvented'
  <2> SUFFICES ASSUME NEW i \in Host, NEW u \in DOMAIN inv'[i].vms
               PROVE  [Uuid |-> u, Host |-> inv'[i].vms[u].Host,
                       Runstate |-> inv'[i].vms[u].Runstate] \in was
    BY <1>0 DEF NothingInvented
  <2>1. CASE i = m.to
    <3>1. inv'[i] = handle_user_event(inv[i], m)
      BY <1>2, <2>1 DEF recv_serf_events, CInv, InventoriesOK
    <3>2. m \in Message /\ Told(m) /\ Good(inv[i])
      BY DEF CInv, InventoriesOK, WInv, Told
    <3>3. \A v \in DOMAIN inv[i].vms :
            [Uuid |-> v, Host |-> inv[i].vms[v].Host, Runstate |-> inv[i].vms[v].Runstate] \in was
      BY DEF WInv, NothingInvented
    <3> QED BY <3>1, <3>2, <3>3, HandleTold
  <2>2. CASE i # m.to
    <3>1. inv'[i] = inv[i] BY <1>2, <2>2 DEF recv_serf_events, CInv, InventoriesOK
    <3> QED BY <3>1 DEF WInv, NothingInvented
  <2> QED BY <2>1, <2>2
<1>3. ASSUME NEW g \in Host, Restart(g) PROVE NothingInvented'
  <2>1. \A i \in Host : inv'[i] \in {inv[i], init} BY <1>3 DEF Restart, CInv, InventoriesOK
  <2>2. DOMAIN init.vms = {} BY DEF init
  <2> QED BY <1>0, <2>1, <2>2 DEF WInv, NothingInvented
<1>4. ASSUME NEW h \in Host, NEW u \in Vm,
             \/ Define(h, u) \/ Boot(h, u) \/ Stop(h, u) \/ Undefine(h, u)
             \/ MigrateConfirm(h, u) \/ \E g \in Host : MigrateFinish(h, g, u)
      PROVE  inv' = inv
  BY <1>4 DEF Define, Boot, Stop, Undefine, Operate, MigrateFinish, MigrateConfirm
<1>5. CASE UNCHANGED vars BY <1>1, <1>5 DEF vars
<1>6. CASE Next
  BY <1>1, <1>2, <1>3, <1>4, <1>6
     DEF Next, Tick, lifecycle_cb, system_info_get, delete_ghosts, reconnect, Lose
<1> QED BY <1>5, <1>6

\* WInv is inductive.
LEMMA NextWas == ASSUME CInv, WInv, [Next]_vars PROVE WInv'
<1>1. was \subseteq was' BY WasGrows
<1>2. Facts(dom') \subseteq was' BY FactsKept
<1>3. ASSUME NEW m \in net'
      PROVE  /\ m.label = "vm-info" => Fact(m.body) \in was'
             /\ m.label = "vm-event" => m.body.Runstate = "DELETED" \/ Fact(m.body) \in was'
  BY <1>1, <1>3, MessagesTold DEF Told
<1>4. NothingInvented' BY NothingInventedKept
<1> QED BY <1>2, <1>3, <1>4 DEF WInv

\* No inventory of the cluster ever shows a VM where, or in a state in which, it has not
\* been: late, lost and reordered events mix no two observations.
THEOREM NothingInventedCorrect == Spec => []NothingInvented
<1>1. Init => WInv
  <2>1. DOMAIN init.vms = {} BY DEF init
  <2> QED BY <2>1 DEF Init, WInv, NothingInvented
<1>2. WInv => NothingInvented BY DEF WInv
<1> QED BY <1>1, <1>2, ClusterInvariant, NextWas, PTL DEF Spec
=============================================================================
