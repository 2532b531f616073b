------------------------------- MODULE Cluster -------------------------------
(***************************************************************************)
(* How the inventories of all the virtxd of a cluster follow the libvirt   *)
(* domains: pkg/hypervisor observes the domains of its own host, pkg/      *)
(* serfcomm gossips the observations to every virtxd, its own included,    *)
(* and pkg/inventory applies what arrives.                                 *)
(*                                                                         *)
(* A host makes two kinds of observations:                                 *)
(*  - system_info_loop: every 15 s, a snapshot of all persistent domains,  *)
(*    sent as one HostInfo and a VmInfo per domain, and then delete_ghosts;*)
(*  - lifecycle_cb: called by libvirt for each domain event, sends a       *)
(*    VmInfo for a definition and a VmEvent for all else.                  *)
(* Both run under hv.m, the callback as a reader, the loop as the writer,  *)
(* so on one host they exclude each other.                                 *)
(*                                                                         *)
(* The channels, the two sender goroutines and the serf agents are one     *)
(* unordered network that may lose: a message dropped because serf is      *)
(* disconnected is a loss like any other.                                  *)
(***************************************************************************)
EXTENDS InventoryOps, Sequences, FiniteSets

CONSTANTS
  MaxOps,       \* bound on the operations on domains
  MaxFaults,    \* bound on the faults
  MaxInFlight,  \* bound on the messages in transit
  FaultKinds,   \* the faults that may happen
  Home,         \* the host of the domains there are at first
  HomeStates,   \* and the states these may be in
  Reached       \* the hosts gossip reaches; the others are cut off from it

ASSUME BoundsAssumption ==
  MaxOps \in Nat /\ MaxFaults \in Nat /\ MaxInFlight \in Nat
ASSUME FaultKindsAssumption ==
  FaultKinds \subseteq {"lose", "stats", "reconnect", "restart"}
ASSUME VmAssumption == Vm # {}
ASSUME ReachedAssumption == Reached \subseteq Host
ASSUME RunstatesAssumption == {"RUNNING", "MIGRATING", "POWEROFF"} \subseteq Runstate
ASSUME FirstTsAssumption == \E t \in Ts : \A s \in Ts : t <= s
ASSUME HomeAssumption ==
  Home \in Host /\ HomeStates \subseteq {"undefined", "RUNNING", "SHUTOFF"}

VARIABLES
  clock,     \* the hosts' wall clocks, assumed synchronised
  dom,       \* dom[h][u]: the state of domain u in the libvirt of host h
  events,    \* events[h]: lifecycle events libvirt has yet to call back for
  loop,      \* loop[h]: where system_info_loop of host h is
  net,       \* messages in transit, one copy per receiver
  inv,       \* inv[h]: the inventory of the virtxd of host h
  was,       \* history: every VM, host and run state that has been true
  ops, faults

vars == <<clock, dom, events, loop, net, inv, was, ops, faults>>

-----------------------------------------------------------------------------

\* libvirt's states and reasons of a persistent domain, and none.
DomainState == {"undefined", "RUNNING", "PAUSED_MIGRATION", "SHUTOFF"}

Event == [kind : {"DEFINED", "UNDEFINED", "CHANGED"}, Uuid : Vm]

\* done: system_info_loop_done.  The loop waits for the ticker, or compares the
\* inventory with the snapshot it has taken at ts; left are the VMs still to do.
Loop == [pc : {"wait", "ghosts"}, done : BOOLEAN, ts : Ts, snap : SUBSET Vm, left : SUBSET Vm]

Message ==
  [to : Host, label : {"host-info"}, body : HostInfo] \cup
  [to : Host, label : {"vm-info"}, body : VmInfo] \cup
  [to : Host, label : {"vm-event"}, body : VmEvent]

\* hv.m is held by delete_ghosts, from its first look at the inventory to its
\* last: callbacks have to wait.
Locked(h) == loop[h].pc = "ghosts" /\ loop[h].left # Vm

\* The run state reported for a domain state.
RunstateOf(s) ==
  CASE s = "RUNNING" -> "RUNNING"
    [] s = "PAUSED_MIGRATION" -> "MIGRATING"
    [] s = "SHUTOFF" -> "POWEROFF"

get_domain_info(h, u) == RunstateOf(dom[h][u])

\* What is true of the domains d now.
Facts(d) ==
  UNION {{[Uuid |-> u, Host |-> h, Runstate |-> RunstateOf(d[h][u])] :
            u \in {v \in Vm : d[h][v] # "undefined"}} : h \in Host}

Defined(h) == {u \in Vm : dom[h][u] # "undefined"}

\* One copy of each message to every virtxd, the sender's included.
Copies(label, bodies) ==
  {[to |-> i, label |-> label, body |-> b] : i \in Reached, b \in bodies}

Send(msgs) ==
  /\ net' = net \cup msgs
  /\ Cardinality(net') <= MaxInFlight

Fault(kind) ==
  /\ kind \in FaultKinds
  /\ faults < MaxFaults
  /\ faults' = faults + 1

-----------------------------------------------------------------------------

FirstTs == CHOOSE t \in Ts : \A s \in Ts : t <= s

\* Between two snapshots nothing of the last one is used again.
Idle(done) == [pc |-> "wait", done |-> done, ts |-> FirstTs, snap |-> {}, left |-> {}]

Init ==
  /\ clock = FirstTs
  /\ \E s \in HomeStates :
       dom = [h \in Host |-> [u \in Vm |-> IF h = Home THEN s ELSE "undefined"]]
  /\ events = [h \in Host |-> <<>>]
  /\ loop = [h \in Host |-> Idle(FALSE)]
  /\ net = {}
  /\ inv = [h \in Host |-> init]
  /\ was = Facts(dom)
  /\ ops = 0
  /\ faults = 0

Tick ==
  /\ clock + 1 \in Ts
  /\ clock' = clock + 1
  /\ UNCHANGED <<dom, events, loop, net, inv, was, ops, faults>>

-----------------------------------------------------------------------------
(* libvirt: operations on domains, each queueing its lifecycle events.      *)

Operate(h, u, from, to, kinds) ==
  /\ ops < MaxOps
  /\ ops' = ops + 1
  /\ dom[h][u] = from
  /\ dom' = [dom EXCEPT ![h][u] = to]
  /\ events' = [events EXCEPT ![h] = @ \o [n \in 1..Len(kinds) |-> [kind |-> kinds[n], Uuid |-> u]]]
  /\ was' = was \cup Facts(dom')
  /\ UNCHANGED <<clock, loop, net, inv, faults>>

Define(h, u) ==
  /\ \A g \in Host : dom[g][u] = "undefined"
  /\ Operate(h, u, "undefined", "SHUTOFF", <<"DEFINED">>)

Boot(h, u) == Operate(h, u, "SHUTOFF", "RUNNING", <<"CHANGED">>)

Stop(h, u) == Operate(h, u, "RUNNING", "SHUTOFF", <<"CHANGED">>)

Undefine(h, u) == Operate(h, u, "SHUTOFF", "undefined", <<"UNDEFINED">>)

\* A live migration reaches its end on the destination g, where the domain
\* becomes persistent (MIGRATE_PERSIST_DEST); on the source it is paused.
MigrateFinish(h, g, u) ==
  /\ h # g
  /\ ops < MaxOps
  /\ ops' = ops + 1
  /\ dom[h][u] = "RUNNING" /\ dom[g][u] = "undefined"
  /\ dom' = [dom EXCEPT ![h][u] = "PAUSED_MIGRATION", ![g][u] = "RUNNING"]
  /\ events' = [events EXCEPT
       ![h] = Append(@, [kind |-> "CHANGED", Uuid |-> u]),
       ![g] = @ \o <<[kind |-> "CHANGED", Uuid |-> u], [kind |-> "DEFINED", Uuid |-> u]>>]
  /\ was' = was \cup Facts(dom')
  /\ UNCHANGED <<clock, loop, net, inv, faults>>

\* The source confirms and forgets the domain (MIGRATE_UNDEFINE_SOURCE).
MigrateConfirm(h, u) ==
  /\ dom[h][u] = "PAUSED_MIGRATION"
  /\ dom' = [dom EXCEPT ![h][u] = "undefined"]
  /\ events' = [events EXCEPT ![h] = Append(@, [kind |-> "UNDEFINED", Uuid |-> u])]
  /\ UNCHANGED <<clock, loop, net, inv, was, ops, faults>>

-----------------------------------------------------------------------------
(* pkg/hypervisor                                                           *)

\* The callback looks at the domain as it is by now, not as it was.
lifecycle_cb(h) ==
  /\ events[h] # <<>>
  /\ ~Locked(h)
  /\ LET e == Head(events[h])
         report(state) == {[Uuid |-> e.Uuid, Host |-> h, Runstate |-> state, Ts |-> clock]}
     IN Send(CASE ~loop[h].done -> {}                                \* too early
               [] loop[h].done /\ e.kind = "UNDEFINED" ->
                    Copies("vm-event", report("DELETED"))
               [] loop[h].done /\ e.kind # "UNDEFINED" /\ e.Uuid \notin Defined(h) ->
                    {}                                       \* IsPersistent fails
               [] OTHER ->
                    Copies(IF e.kind = "DEFINED" THEN "vm-info" ELSE "vm-event",
                           report(get_domain_info(h, e.Uuid))))
  /\ events' = [events EXCEPT ![h] = Tail(@)]
  /\ UNCHANGED <<clock, dom, loop, inv, was, ops, faults>>

\* The sets of domains get_domain_stats may fail for.
Unread(h) == SUBSET Defined(h)

\* system_info_get stamps and lists the domains under hv.m, so that no callback
\* of this host falls in between; a domain whose statistics fail is left out of
\* the snapshot.  The loop sends it and goes on to delete_ghosts, which returns
\* at once on a host gossip never told of itself.
system_info_get(h, skipped) ==
  /\ loop[h].pc = "wait"
  /\ IF skipped = {} THEN UNCHANGED faults ELSE Fault("stats")
  /\ LET snap == Defined(h) \ skipped
         hi == [Uuid |-> h, Cstate |-> "ACTIVE", Ts |-> clock]
         vi(u) == [Uuid |-> u, Host |-> h, Runstate |-> get_domain_info(h, u), Ts |-> clock]
     IN /\ Send(Copies("host-info", {hi}) \cup Copies("vm-info", {vi(u) : u \in snap}))
        /\ loop' = [loop EXCEPT ![h] =
             IF h \in Reached
             THEN [pc |-> "ghosts", done |-> TRUE, ts |-> clock, snap |-> snap, left |-> Vm]
             ELSE Idle(TRUE)]
  /\ UNCHANGED <<clock, dom, events, inv, was, ops>>

\* A variant of GhostEvent: the event has an old timestamp.
GhostEventOld(h, u) == [Uuid |-> u, Host |-> h, Runstate |-> "DELETED", Ts |-> FirstTs]

\* What delete_ghosts sends, with the time of the snapshot.
GhostEvent(h, u) == [Uuid |-> u, Host |-> h, Runstate |-> "DELETED", Ts |-> loop[h].ts]

\* delete_ghosts ranges over the inventory's own Vms map without its mutex, so
\* each VM is looked up at a time of its own.  The last one ends the round.
delete_ghosts(h) ==
  /\ loop[h].pc = "ghosts"
  /\ \E u \in loop[h].left :
       /\ loop' = [loop EXCEPT ![h] =
            IF loop[h].left = {u} THEN Idle(TRUE) ELSE [loop[h] EXCEPT !.left = @ \ {u}]]
       /\ Send(IF /\ h \in DOMAIN inv[h].hosts
                  /\ u \in inv[h].hosts[h].Vms \ loop[h].snap
               THEN Copies("vm-event", {GhostEvent(h, u)})
               ELSE {})
  /\ UNCHANGED <<clock, dom, events, inv, was, ops, faults>>

\* A libvirt error ends system_info_loop; Connect registers the callback anew
\* and the events of the old connection are gone.
reconnect(h) ==
  /\ Fault("reconnect")
  /\ loop[h].pc = "wait"
  /\ events' = [events EXCEPT ![h] = <<>>]
  /\ loop' = [loop EXCEPT ![h] = Idle(@.done)]
  /\ UNCHANGED <<clock, dom, net, inv, was, ops>>

-----------------------------------------------------------------------------
(* pkg/serfcomm and the serf agents                                         *)

\* A variant of handle_user_event: a VmInfo goes to one of the two maps only.
handle_user_event_vms(i, m) ==
  CASE m.label = "host-info" -> update_host(i, m.body)
    [] m.label = "vm-event" -> update_vm_state(i, m.body)
    [] m.label = "vm-info" -> [i EXCEPT !.vms = update_vm(i, m.body).vms]

handle_user_event(i, m) ==
  CASE m.label = "host-info" -> update_host(i, m.body)
    [] m.label = "vm-event" -> update_vm_state(i, m.body)
    [] m.label = "vm-info" -> update_vm(i, m.body)

recv_serf_events(m) ==
  /\ m \in net
  /\ net' = net \ {m}
  /\ inv' = [inv EXCEPT ![m.to] = handle_user_event(@, m)]
  /\ UNCHANGED <<clock, dom, events, loop, was, ops, faults>>

Lose(m) ==
  /\ m \in net
  /\ Fault("lose")
  /\ net' = net \ {m}
  /\ UNCHANGED <<clock, dom, events, loop, inv, was, ops>>

\* virtxd of host h ends and starts again.
Restart(h) ==
  /\ Fault("restart")
  /\ inv' = [inv EXCEPT ![h] = init]
  /\ loop' = [loop EXCEPT ![h] = Idle(FALSE)]
  /\ events' = [events EXCEPT ![h] = <<>>]
  /\ UNCHANGED <<clock, dom, net, was, ops>>

-----------------------------------------------------------------------------

Next ==
  \/ Tick
  \/ \E h \in Host, u \in Vm :
       \/ Define(h, u) \/ Boot(h, u) \/ Stop(h, u) \/ Undefine(h, u)
       \/ \E g \in Host : MigrateFinish(h, g, u)
       \/ MigrateConfirm(h, u)
  \/ \E h \in Host :
       \/ lifecycle_cb(h)
       \/ \E skipped \in Unread(h) : system_info_get(h, skipped)
       \/ delete_ghosts(h)
       \/ reconnect(h)
       \/ Restart(h)
  \/ \E m \in net : recv_serf_events(m) \/ Lose(m)

Spec == Init /\ [][Next]_vars

\* A user event of host h reaches host i.
Receive(i, h, label) ==
  \E m \in net :
    /\ m.to = i
    /\ m.label = label
    /\ h = IF label = "host-info" THEN m.body.Uuid ELSE m.body.Host
    /\ recv_serf_events(m)

\* The clock and the migrations go on, the ticker fires, libvirt calls back, and
\* gossip that is not lost arrives.  The fairness of sending is strong for the
\* bound MaxInFlight only: without it, sending is always enabled.  On a host that is
\* not reached delete_ghosts has no steps.
Fairness ==
  /\ WF_vars(Tick)
  /\ WF_vars(\E h \in Host, u \in Vm : MigrateConfirm(h, u))
  /\ \A h \in Host : SF_vars(lifecycle_cb(h)) /\ SF_vars(system_info_get(h, {}))
  /\ \A h \in Reached : SF_vars(delete_ghosts(h))
  /\ \A i \in Reached, h \in Host, label \in {"host-info", "vm-info", "vm-event"} :
       WF_vars(Receive(i, h, label))

FairSpec == Spec /\ Fairness

-----------------------------------------------------------------------------

Store(h) == INSTANCE Inventory WITH inv <- inv[h]

\* Each virtxd uses its inventory as module Inventory describes: gossip and
\* restarts are the only things that change it, one operation at a time.
InventoriesImplemented ==
  /\ \A h \in Host : Store(h)!Init
  /\ [][\A h \in Host : [Store(h)!Next]_(inv[h])]_vars

\* Domains, callbacks, messages and inventories have the values their declarations
\* say; what system_info_get, lifecycle_cb and delete_ghosts send is well formed.
ClusterTypeOK ==
  /\ clock \in Ts
  /\ dom \in [Host -> [Vm -> DomainState]]
  /\ \A h \in Host : events[h] \in Seq(Event)
  /\ loop \in [Host -> Loop]
  /\ net \subseteq Message
  /\ \A h \in Host : inv[h] \in Inventories /\ KeysAgree(inv[h])
  /\ ops \in 0..MaxOps /\ faults \in 0..MaxFaults

\* An inventory never shows a VM on a host, or in a run state on that host, where
\* it has not been: the two fields of an entry come from one observation.
NothingInvented ==
  \A i \in Host : \A u \in DOMAIN inv[i].vms :
    [Uuid |-> u, Host |-> inv[i].vms[u].Host, Runstate |-> inv[i].vms[u].Runstate] \in was

\* i shows every domain where it is and in its run state, listed under its host.
ShowsDomains(i) ==
  \A h \in Host : \A u \in Defined(h) :
    /\ u \in DOMAIN inv[i].vms
    /\ inv[i].vms[u].Host = h
    /\ inv[i].vms[u].Runstate = get_domain_info(h, u)
    /\ h \in DOMAIN inv[i].hosts
    /\ u \in inv[i].hosts[h].Vms

\* The list h has of its own VMs holds none that its libvirt does not have.
ShowsNoGhosts(h) == h \in DOMAIN inv[h].hosts => inv[h].hosts[h].Vms \subseteq Defined(h)

\* Once the domains are left alone, every inventory comes to show every one of them as it
\* is, and no ghost under its own host, and goes on to: the snapshots of system_info_loop
\* and delete_ghosts repair what late and reordered events, reports that have overtaken
\* the end of a VM, and callbacks that came too early, have left behind.
EventuallyShown == <>[](\A i \in Reached : ShowsDomains(i) /\ ShowsNoGhosts(i))
=============================================================================
