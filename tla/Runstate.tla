------------------------------ MODULE Runstate ------------------------------
(***************************************************************************)
(* The run state of one VM on its host: booted, with or without a          *)
(* cloud-init ISO, paused, resumed and shut down by requests that may      *)
(* overlap; stopping or crashing by itself; and observed by pkg/hypervisor *)
(* through lifecycle events, which come late, and through snapshots.       *)
(*                                                                         *)
(* Every operation leaves a record in the metadata of the domain (oplog).  *)
(* A cloud-init boot makes an ISO with a resource of its own, which is to  *)
(* be removed when the domain stops.                                       *)
(*                                                                         *)
(* What happens to the leases of the disks, and migrations, are in Storage *)
(* and in Migration.                                                       *)
(***************************************************************************)
EXTENDS Naturals, Sequences

CONSTANTS
  Req,        \* requests that may be served at one time
  Worlds,     \* sets of operations clients use
  MaxEvents,  \* how many events libvirt may have queued
  MaxCrashes, \* how often virtxd may end
  None

Op == {"boot", "cloud-init boot", "pause", "resume", "shutdown"}

ASSUME RunstateAssumption ==
  /\ Worlds \subseteq SUBSET Op
  /\ MaxEvents \in Nat \ {0} /\ MaxCrashes \in Nat
  /\ None \notin Req
  /\ {"domain", "observer"} \cap (Req \cup {None}) = {}

VARIABLES
  ops,      \* the operations of this behaviour
  dom,      \* the domain in libvirt: "off", "running" or "paused"
  reason,   \* why it is off: libvirt's reason
  log,      \* log[o]: the state in the record of operation o
  events,   \* lifecycle events libvirt has not delivered: is it a STOPPED one?
  res,      \* the resource of the ISO is there
  lease,    \* its lease: None, "domain", "observer" or the request that holds it
  req,      \* req[r]: the handler serving request r
  obs,      \* the observer, lifecycle_cb or system_info_get: hv.m lets one in
  up,       \* virtxd runs
  crashes,
  missed    \* virtxd ended, or the domain did while its ISO was made

vars == <<ops, dom, reason, log, events, res, lease, req, obs, up, crashes, missed>>
libvirt == <<dom, reason, events>>

Record == {"none", "STARTED", "FAILED", "COMPLETED"}

\* The record an operation goes by.
Logged(o) == IF o = "cloud-init boot" THEN "boot" ELSE o

Task == [pc : {"idle", "act", "create", "build", "undo", "attach", "destroy", "fail", "complete"},
         op : Op \cup {None}]

Idle == [pc |-> "idle", op |-> None]

Observer == [pc : {"idle", "look", "record", "delete", "rm"}, stopped : BOOLEAN]

Asleep == [pc |-> "idle", stopped |-> FALSE]

Init ==
  /\ ops \in Worlds
  /\ dom \in {"off", "running"} /\ reason = "none"
  /\ log = [o \in {Logged(p) : p \in Op} |-> "none"]
  /\ events = <<>>
  /\ res = FALSE /\ lease = None
  /\ req = [r \in Req |-> Idle]
  /\ obs = Asleep
  /\ up = TRUE /\ crashes = 0 /\ missed = FALSE

Become(r, t) == req' = [req EXCEPT ![r] = t]

Goto(r, pc) == Become(r, [req[r] EXCEPT !.pc = pc])

oplog_record(o, state) == log' = [log EXCEPT ![Logged(o)] = state]

-----------------------------------------------------------------------------
(* libvirt                                                                  *)

Tell(stopped) == Len(events) < MaxEvents /\ events' = Append(events, stopped)

\* A request is between the creation of the domain and that of an ISO for it.
MakesIso(r) == req[r].pc \in {"create", "build", "undo", "attach"}

\* The domain stops: its leases are free, and an event will tell.
Stops(why) ==
  /\ dom' = "off" /\ reason' = why
  /\ Tell(TRUE)
  /\ lease' = IF lease = "domain" THEN None ELSE lease
  /\ missed' = (missed \/ \E r \in Req : MakesIso(r))

\* The guest powers off, asked to or not, or QEMU ends.
GuestStops ==
  /\ dom # "off"
  /\ \E why \in {"shutdown", "crashed"} : Stops(why)
  /\ UNCHANGED <<ops, log, res, req, obs, up, crashes>>

-----------------------------------------------------------------------------
(* Boot_domain, Pause_domain, Resume_domain, Shutdown_domain                *)

\* The handler is called and records STARTED.
Begin(r, o) ==
  /\ up /\ o \in ops
  /\ req[r].pc = "idle"
  /\ Become(r, [Idle EXCEPT !.pc = "act", !.op = o])
  /\ oplog_record(o, "STARTED")
  /\ UNCHANGED <<ops, libvirt, res, lease, obs, up, crashes, missed>>

\* domain.Create; a plain boot ends with it.
Create(r) ==
  /\ req[r].pc = "act" /\ req[r].op \in {"boot", "cloud-init boot"}
  /\ \/ /\ dom = "off"
        /\ dom' = "running" /\ Tell(FALSE)
        /\ Goto(r, IF req[r].op = "boot" THEN "complete" ELSE "create")
     \/ /\ dom # "off"
        /\ Goto(r, "fail")
        /\ UNCHANGED <<dom, events>>
  /\ UNCHANGED <<ops, reason, log, res, lease, obs, up, crashes, missed>>

\* An option nobody knows: the domain is not created.
UnknownOption(r) ==
  /\ req[r].pc = "act" /\ req[r].op = "cloud-init boot"
  /\ Goto(r, "fail")
  /\ UNCHANGED <<ops, libvirt, log, res, lease, obs, up, crashes, missed>>

\* Suspend and Resume.
SetPaused(r) ==
  /\ req[r].pc = "act" /\ req[r].op \in {"pause", "resume"}
  /\ \/ /\ dom # "off"
        /\ dom' = IF req[r].op = "pause" THEN "paused" ELSE "running"
        /\ IF dom' = dom THEN UNCHANGED events ELSE Tell(FALSE)
        /\ Goto(r, "complete")
     \/ /\ dom = "off"
        /\ Goto(r, "fail")
        /\ UNCHANGED <<dom, events>>
  /\ UNCHANGED <<ops, reason, log, res, lease, obs, up, crashes, missed>>

\* The guest is asked to power off, or destroyed.  Success is not recorded here.
Shutdown(r) ==
  /\ req[r].pc = "act" /\ req[r].op = "shutdown"
  /\ \/ /\ dom # "off"
        /\ Stops("destroyed") \/ UNCHANGED <<libvirt, lease, missed>>
        /\ Become(r, Idle)
     \/ /\ dom = "off"
        /\ Goto(r, "fail")
        /\ UNCHANGED <<libvirt, lease, missed>>
  /\ UNCHANGED <<ops, log, res, obs, up, crashes>>

RecordFailed(r) ==
  /\ req[r].pc = "fail"
  /\ oplog_record(req[r].op, "FAILED")
  /\ Become(r, Idle)
  /\ UNCHANGED <<ops, libvirt, res, lease, obs, up, crashes, missed>>

RecordCompleted(r) ==
  /\ req[r].pc = "complete"
  /\ oplog_record(req[r].op, "COMPLETED")
  /\ Become(r, Idle)
  /\ UNCHANGED <<ops, libvirt, res, lease, obs, up, crashes, missed>>

-----------------------------------------------------------------------------
(* cloudinit_boot_domain, after domain.Create                               *)

\* Create_disk up to Create_resource: the options are no good, a directory cannot be
\* made, or there is a resource already.
Create_disk(r) ==
  /\ req[r].pc = "create"
  /\ \/ ~res /\ res' = TRUE /\ Goto(r, "build")
     \/ UNCHANGED res /\ Goto(r, "destroy")
  /\ UNCHANGED <<ops, libvirt, log, lease, obs, up, crashes, missed>>

\* xorrisofs; if it fails the resource is removed under its lease.
build_iso(r) ==
  /\ req[r].pc = "build"
  /\ \/ Goto(r, "attach") /\ UNCHANGED lease
     \/ /\ lease = None /\ res
        /\ lease' = r /\ Goto(r, "undo")
     \/ /\ ~(lease = None /\ res)
        /\ Goto(r, "destroy") /\ UNCHANGED lease
  /\ UNCHANGED <<ops, libvirt, log, res, obs, up, crashes, missed>>

UndoResource(r) ==
  /\ req[r].pc = "undo"
  /\ res' = FALSE /\ lease' = None
  /\ Goto(r, "destroy")
  /\ UNCHANGED <<ops, libvirt, log, obs, up, crashes, missed>>

\* The lease, which QEMU's lock manager takes, and the disk.
cloudinit_attach(r) ==
  /\ req[r].pc = "attach"
  /\ \/ /\ dom # "off" /\ res /\ lease = None
        /\ lease' = "domain"
        /\ Goto(r, "complete")
     \/ /\ Goto(r, "destroy")
        /\ UNCHANGED lease
  /\ UNCHANGED <<ops, libvirt, log, res, obs, up, crashes, missed>>

\* A variant of Destroy: the domain goes on without its ISO.
DestroyNothing(r) ==
  /\ req[r].pc = "destroy"
  /\ Goto(r, "fail")
  /\ UNCHANGED <<ops, libvirt, log, res, lease, obs, up, crashes, missed>>

\* DestroyFlags(0), whatever it returns.
Destroy(r) ==
  /\ req[r].pc = "destroy"
  /\ IF dom # "off" THEN Stops("destroyed") ELSE UNCHANGED <<libvirt, lease, missed>>
  /\ Goto(r, "fail")
  /\ UNCHANGED <<ops, log, res, obs, up, crashes>>

-----------------------------------------------------------------------------
(* The observer: get_domain_info, then what else lifecycle_cb does          *)

Watch(pc) == obs' = [obs EXCEPT !.pc = pc]

\* libvirt delivers an event.
Deliver ==
  /\ up /\ obs.pc = "idle" /\ events # <<>>
  /\ obs' = [pc |-> "look", stopped |-> Head(events)]
  /\ events' = Tail(events)
  /\ UNCHANGED <<ops, dom, reason, log, res, lease, req, up, crashes, missed>>

\* A snapshot begins.
Look ==
  /\ up /\ obs.pc = "idle"
  /\ obs' = [pc |-> "look", stopped |-> FALSE]
  /\ UNCHANGED <<ops, libvirt, log, res, lease, req, up, crashes, missed>>

\* A variant of Rest: nothing is cleaned up.
RestIdle == "idle"

\* After get_domain_info: the cleanup, if the event was a STOPPED one.
Rest == IF obs.stopped THEN "delete" ELSE "idle"

\* oplog_complete is called if the domain is off because it was shut down or
\* destroyed.  It loads the record first.
get_domain_info ==
  /\ obs.pc = "look"
  /\ Watch(IF /\ dom = "off" /\ reason \in {"shutdown", "destroyed"}
              /\ log["shutdown"] = "STARTED"
           THEN "record" ELSE Rest)
  /\ UNCHANGED <<ops, libvirt, log, res, lease, req, up, crashes, missed>>

\* A variant of oplog_complete: nothing is written.
oplog_complete_not ==
  /\ obs.pc = "record"
  /\ Watch(Rest)
  /\ UNCHANGED <<ops, libvirt, log, res, lease, req, up, crashes, missed>>

\* And writes it.
oplog_complete ==
  /\ obs.pc = "record"
  /\ oplog_record("shutdown", "COMPLETED")
  /\ Watch(Rest)
  /\ UNCHANGED <<ops, libvirt, res, lease, req, up, crashes, missed>>

\* A variant of Delete_disk: the resource is removed without its lease.
Delete_disk_unlocked ==
  /\ obs.pc = "delete"
  /\ res' = FALSE
  /\ Watch("idle")
  /\ UNCHANGED <<ops, libvirt, log, lease, req, up, crashes, missed>>

\* Delete_disk: a resource that is there is removed under its lease.
Delete_disk ==
  /\ obs.pc = "delete"
  /\ IF res /\ lease = None
     THEN lease' = "observer" /\ Watch("rm")
     ELSE Watch("idle") /\ UNCHANGED lease
  /\ UNCHANGED <<ops, libvirt, log, res, req, up, crashes, missed>>

RemoveResource ==
  /\ obs.pc = "rm"
  /\ res' = FALSE /\ lease' = None
  /\ Watch("idle")
  /\ UNCHANGED <<ops, libvirt, log, req, up, crashes, missed>>

-----------------------------------------------------------------------------

\* virtxd ends with its goroutines and its leases, and misses the events that follow.
Crash ==
  /\ up /\ crashes < MaxCrashes
  /\ up' = FALSE /\ crashes' = crashes + 1 /\ missed' = TRUE
  /\ req' = [r \in Req |-> Idle]
  /\ obs' = Asleep
  /\ lease' = IF lease = "domain" THEN lease ELSE None
  /\ UNCHANGED <<ops, libvirt, log, res>>

Start ==
  /\ ~up
  /\ up' = TRUE /\ events' = <<>>
  /\ UNCHANGED <<ops, dom, reason, log, res, lease, req, obs, crashes, missed>>

Handle(r) ==
  \/ Create(r) \/ UnknownOption(r) \/ SetPaused(r) \/ Shutdown(r)
  \/ RecordFailed(r) \/ RecordCompleted(r)
  \/ Create_disk(r) \/ build_iso(r) \/ UndoResource(r) \/ cloudinit_attach(r) \/ Destroy(r)

Observe ==
  \/ Deliver \/ Look \/ get_domain_info \/ oplog_complete \/ Delete_disk \/ RemoveResource

Next ==
  \/ GuestStops
  \/ \E r \in Req : Handle(r) \/ \E o \in Op : Begin(r, o)
  \/ Observe
  \/ Crash \/ Start

Spec == Init /\ [][Next]_vars

\* Handlers and the observer go on, snapshots are taken again and again, and events
\* are delivered: hv.m keeps neither out.
FairSpec ==
  /\ Spec
  /\ \A r \in Req : WF_vars(Handle(r))
  /\ SF_vars(Deliver) /\ WF_vars(Observe)
  /\ WF_vars(Start)

-----------------------------------------------------------------------------

\* Every variable has the values its declaration says.
TypeOK ==
  /\ ops \in Worlds
  /\ dom \in {"off", "running", "paused"}
  /\ reason \in {"none", "shutdown", "destroyed", "crashed"}
  /\ log \in [{Logged(o) : o \in Op} -> Record]
  /\ events \in Seq(BOOLEAN) /\ Len(events) <= MaxEvents
  /\ res \in BOOLEAN
  /\ lease \in Req \cup {None, "domain", "observer"}
  /\ req \in [Req -> Task]
  /\ obs \in Observer
  /\ up \in BOOLEAN /\ crashes \in 0..MaxCrashes /\ missed \in BOOLEAN

Quiet == \A r \in Req : req[r].pc = "idle"

\* The resource of an attached ISO stays as long as the domain runs, though STOPPED
\* events of earlier runs, failed boots and retries remove it by name.
AttachedIsoHasResource == lease = "domain" => res /\ dom # "off"

\* "we will wait for the lifecycle event to set the operation to completed": a domain
\* that was shut down and is left alone gets its record, be it that the event is lost
\* with virtxd, overtaken, or handled while another request is served.
ShutdownGetsRecorded ==
  dom = "off" /\ reason = "destroyed" /\ Quiet
    ~> log["shutdown"] # "STARTED" \/ dom # "off" \/ ~Quiet

\* Everything libvirt had to tell is known.
Seen == up /\ events = <<>> /\ obs.pc = "idle"

\* "so that domain destruction is detected and the ISO resource is removed": when all
\* is over there is no resource, unless virtxd missed the end of the domain, or the
\* domain ended while its ISO was made.
NoIsoLeft == Seen /\ Quiet /\ dom = "off" /\ ~missed => ~res

\* A resource left behind makes one cloud-init boot fail and not the next: the domain
\* is destroyed, and the event of that removes the resource.
LeftoverRemoved ==
  res /\ lease # "domain" /\ dom # "off" /\ (\E r \in Req : req[r].pc = "destroy")
    ~> ~res \/ lease = "domain" \/ ~up
=============================================================================
