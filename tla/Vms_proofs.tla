----------------------------- MODULE Vms_proofs -----------------------------
(***************************************************************************)
(* What Runstate, Vmdef and Figures promise: a VM's run state, its         *)
(* definition and its figures.                                             *)
(*                                                                         *)
(* Runstate, for any number of handlers at once, any room for undelivered  *)
(* events and any number of crashes:                                       *)
(*   IsoInv    the lease of the ISO's resource is held by the handler that *)
(*             undoes, by the observer that removes or by the domain, and  *)
(*             an ISO that is attached has its resource;                   *)
(*   Watched   as long as virtxd has missed nothing: ISOs are made for a   *)
(*             domain that runs, and once it does not, the event that      *)
(*             removes the resource is queued or being handled.            *)
(*                                                                         *)
(* Vmdef, for every definition of the model's types:                       *)
(*   Good      what To_xml's loop has made of some disks: nothing collides *)
(*             and every element can be read back, by induction over them; *)
(*   VmdefInv  the XML was made from the definition that was asked for, or *)
(*             from what is kept of it.                                    *)
(*                                                                         *)
(* Figures, for any number of VMs and any widths that are enough:          *)
(*   Accounted every counter is where the last snapshot found it, plus     *)
(*             what happened since, modulo its width;                      *)
(*   InTime    and no more happened than there was time for.               *)
(***************************************************************************)
EXTENDS Runstate, Vmdef, Figures, FiniteSetTheorems, SequenceTheorems, WellFoundedInduction, TLAPS

-----------------------------------------------------------------------------
(* Runstate: the types                                                      *)

\* The initial state has the types.
LEMMA InitTypes == Init => TypeOK
<1> SUFFICES ASSUME Init PROVE TypeOK OBVIOUS
<1>1. req \in [Req -> Task] /\ obs \in Observer BY DEF Init, Idle, Task, Asleep, Observer
<1>2. log \in [{Logged(o) : o \in Op} -> Record] BY DEF Init, Record
<1>3. events \in Seq(BOOLEAN) /\ Len(events) <= MaxEvents BY RunstateAssumption DEF Init
<1>4. res \in BOOLEAN /\ up \in BOOLEAN /\ missed \in BOOLEAN BY DEF Init
<1>5. crashes \in 0..MaxCrashes BY RunstateAssumption DEF Init
<1> QED BY <1>1, <1>2, <1>3, <1>4, <1>5 DEF Init, TypeOK

\* A handler goes on: its record is well-formed, the others are as before.
LEMMA GotoTypes ==
  ASSUME TypeOK, NEW r \in Req,
         NEW pc \in {"act", "create", "build", "undo", "attach", "destroy", "fail", "complete"},
         Goto(r, pc)
  PROVE  /\ req' \in [Req -> Task] /\ req'[r].pc = pc
         /\ \A q \in Req : q # r => req'[q] = req[q]
<1>1. req[r] \in Task BY DEF TypeOK
<1>2. [req[r] EXCEPT !.pc = pc] \in Task /\ [req[r] EXCEPT !.pc = pc].pc = pc
  BY <1>1 DEF Task
<1> QED BY <1>2 DEF Goto, Become, TypeOK

\* A handler ends.
LEMMA IdleTypes ==
  ASSUME TypeOK, NEW r \in Req, Become(r, Idle)
  PROVE  /\ req' \in [Req -> Task] /\ req'[r].pc = "idle"
         /\ \A q \in Req : q # r => req'[q] = req[q]
<1>1. Idle \in Task /\ Idle.pc = "idle" BY DEF Idle, Task
<1> QED BY <1>1 DEF Become, TypeOK

\* A handler starts.
LEMMA BeginTypes ==
  ASSUME TypeOK, NEW r \in Req, NEW o \in Op, Begin(r, o)
  PROVE  /\ req' \in [Req -> Task] /\ req'[r].pc = "act"
         /\ \A q \in Req : q # r => req'[q] = req[q]
<1> DEFINE t == [Idle EXCEPT !.pc = "act", !.op = o]
<1>1. t \in Task /\ t.pc = "act" BY DEF Idle, Task
<1> HIDE DEF t
<1>2. Become(r, t) BY DEF Begin, t
<1> QED BY <1>1, <1>2 DEF Become, TypeOK

\* A record is written.
LEMMA LogTypes ==
  ASSUME TypeOK, NEW o, NEW s \in Record, oplog_record(o, s)
  PROVE  log' \in [{Logged(p) : p \in Op} -> Record]
BY DEF oplog_record, TypeOK

\* libvirt queues an event; it is the last one of the queue.
LEMMA TellTypes ==
  ASSUME TypeOK, NEW s \in BOOLEAN, Tell(s)
  PROVE  /\ events' \in Seq(BOOLEAN) /\ Len(events') <= MaxEvents
         /\ Len(events') = Len(events) + 1 /\ events'[Len(events) + 1] = s
         /\ \A i \in 1..Len(events) : events'[i] = events[i]
BY RunstateAssumption DEF Tell, TypeOK

\* The domain stops.
LEMMA StopsTypes ==
  ASSUME TypeOK, NEW why \in {"shutdown", "destroyed", "crashed"}, Stops(why)
  PROVE  /\ dom' \in {"off", "running", "paused"}
         /\ reason' \in {"none", "shutdown", "destroyed", "crashed"}
         /\ events' \in Seq(BOOLEAN) /\ Len(events') <= MaxEvents
         /\ lease' \in Req \cup {None, "domain", "observer"}
         /\ missed' \in BOOLEAN
<1>1. Tell(TRUE) BY DEF Stops
<1>2. missed' \in BOOLEAN BY DEF Stops, TypeOK
<1> QED BY <1>1, <1>2, TellTypes DEF Stops, TypeOK

\* The observer goes on.
LEMMA WatchTypes ==
  ASSUME TypeOK, NEW pc \in {"idle", "look", "record", "delete", "rm"}, Watch(pc)
  PROVE  obs' \in Observer /\ obs'.pc = pc /\ obs'.stopped = obs.stopped
BY DEF Watch, TypeOK, Observer

\* Handler r is at pc after the step, the others where they were.
At(r, pc) == req'[r].pc = pc /\ \A q \in Req : q # r => req'[q] = req[q]

\* The types, and the place of each handler, after a step of one of them.
LEMMA HandleTypes ==
  ASSUME TypeOK, NEW r \in Req
  PROVE  /\ Create(r) => TypeOK' /\ \E pc \in {"complete", "create", "fail"} : At(r, pc)
         /\ UnknownOption(r) => TypeOK' /\ At(r, "fail")
         /\ SetPaused(r) => TypeOK' /\ \E pc \in {"complete", "fail"} : At(r, pc)
         /\ Shutdown(r) => TypeOK' /\ \E pc \in {"idle", "fail"} : At(r, pc)
         /\ RecordFailed(r) => TypeOK' /\ At(r, "idle")
         /\ RecordCompleted(r) => TypeOK' /\ At(r, "idle")
<1>1. ASSUME Create(r) PROVE TypeOK' /\ \E pc \in {"complete", "create", "fail"} : At(r, pc)
  <2>1. PICK pc \in {"complete", "create", "fail"} : Goto(r, pc) BY <1>1 DEF Create
  <2>2. req' \in [Req -> Task] /\ At(r, pc) BY <2>1, GotoTypes DEF At
  <2>3. events' \in Seq(BOOLEAN) /\ Len(events') <= MaxEvents
    BY <1>1, TellTypes DEF Create, TypeOK
  <2> QED BY <1>1, <2>2, <2>3 DEF Create, TypeOK
<1>2. ASSUME UnknownOption(r) PROVE TypeOK' /\ At(r, "fail")
  BY <1>2, GotoTypes DEF UnknownOption, libvirt, TypeOK, At
<1>3. ASSUME SetPaused(r) PROVE TypeOK' /\ \E pc \in {"complete", "fail"} : At(r, pc)
  <2>1. PICK pc \in {"complete", "fail"} : Goto(r, pc) BY <1>3 DEF SetPaused
  <2>2. req' \in [Req -> Task] /\ At(r, pc) BY <2>1, GotoTypes DEF At
  <2>3. events' \in Seq(BOOLEAN) /\ Len(events') <= MaxEvents
    BY <1>3, TellTypes DEF SetPaused, TypeOK
  <2> QED BY <1>3, <2>2, <2>3 DEF SetPaused, TypeOK
<1>4. ASSUME Shutdown(r) PROVE TypeOK' /\ \E pc \in {"idle", "fail"} : At(r, pc)
  <2>1. /\ req' \in [Req -> Task] /\ \E pc \in {"idle", "fail"} : At(r, pc)
    BY <1>4, GotoTypes, IdleTypes DEF Shutdown, At
  <2>2. CASE Stops("destroyed") BY <1>4, <2>1, <2>2, StopsTypes DEF Shutdown, TypeOK
  <2>3. CASE UNCHANGED <<libvirt, lease, missed>>
    BY <1>4, <2>1, <2>3 DEF Shutdown, TypeOK, libvirt
  <2> QED BY <1>4, <2>2, <2>3 DEF Shutdown
<1>5. ASSUME RecordFailed(r) PROVE TypeOK' /\ At(r, "idle")
  <2>1. log' \in [{Logged(p) : p \in Op} -> Record]
    BY <1>5, LogTypes DEF RecordFailed, Record
  <2> QED BY <1>5, <2>1, IdleTypes DEF RecordFailed, libvirt, TypeOK, At
<1>6. ASSUME RecordCompleted(r) PROVE TypeOK' /\ At(r, "idle")
  <2>1. log' \in [{Logged(p) : p \in Op} -> Record]
    BY <1>6, LogTypes DEF RecordCompleted, Record
  <2> QED BY <1>6, <2>1, IdleTypes DEF RecordCompleted, libvirt, TypeOK, At
<1> QED BY <1>1, <1>2, <1>3, <1>4, <1>5, <1>6

\* The same of the steps that make and attach the ISO.
LEMMA IsoTypes ==
  ASSUME TypeOK, NEW r \in Req
  PROVE  /\ Create_disk(r) => TypeOK' /\ \E pc \in {"build", "destroy"} : At(r, pc)
         /\ build_iso(r) =>
              /\ TypeOK'
              /\ \/ lease = None /\ lease' = r /\ At(r, "undo")
                 \/ lease' = lease /\ \E pc \in {"attach", "destroy"} : At(r, pc)
         /\ UndoResource(r) => TypeOK' /\ At(r, "destroy")
         /\ cloudinit_attach(r) => TypeOK' /\ \E pc \in {"complete", "destroy"} : At(r, pc)
         /\ Destroy(r) => TypeOK' /\ At(r, "fail")
<1>1. ASSUME Create_disk(r) PROVE TypeOK' /\ \E pc \in {"build", "destroy"} : At(r, pc)
  <2>1. PICK pc \in {"build", "destroy"} : Goto(r, pc) BY <1>1 DEF Create_disk
  <2>2. req' \in [Req -> Task] /\ At(r, pc) BY <2>1, GotoTypes DEF At
  <2>3. res' \in BOOLEAN BY <1>1 DEF Create_disk, TypeOK
  <2> QED BY <1>1, <2>2, <2>3 DEF Create_disk, libvirt, TypeOK
<1>2. ASSUME build_iso(r)
      PROVE  /\ TypeOK'
             /\ \/ lease = None /\ lease' = r /\ At(r, "undo")
                \/ lease' = lease /\ \E pc \in {"attach", "destroy"} : At(r, pc)
  <2>1. CASE lease = None /\ lease' = r /\ Goto(r, "undo")
    BY <1>2, <2>1, GotoTypes DEF build_iso, libvirt, TypeOK, At
  <2>2. CASE lease' = lease /\ (Goto(r, "attach") \/ Goto(r, "destroy"))
    BY <1>2, <2>2, GotoTypes DEF build_iso, libvirt, TypeOK, At
  <2> QED BY <1>2, <2>1, <2>2 DEF build_iso
<1>3. ASSUME UndoResource(r) PROVE TypeOK' /\ At(r, "destroy")
  <2>1. res' \in BOOLEAN BY <1>3 DEF UndoResource
  <2> QED BY <1>3, <2>1, GotoTypes DEF UndoResource, libvirt, TypeOK, At
<1>4. ASSUME cloudinit_attach(r) PROVE TypeOK' /\ \E pc \in {"complete", "destroy"} : At(r, pc)
  <2>1. PICK pc \in {"complete", "destroy"} : Goto(r, pc) BY <1>4 DEF cloudinit_attach
  <2>2. req' \in [Req -> Task] /\ At(r, pc) BY <2>1, GotoTypes DEF At
  <2> QED BY <1>4, <2>2 DEF cloudinit_attach, libvirt, TypeOK
<1>5. ASSUME Destroy(r) PROVE TypeOK' /\ At(r, "fail")
  <2>1. req' \in [Req -> Task] /\ At(r, "fail") BY <1>5, GotoTypes DEF Destroy, At
  <2>2. CASE Stops("destroyed") BY <1>5, <2>1, <2>2, StopsTypes DEF Destroy, TypeOK
  <2>3. CASE UNCHANGED <<libvirt, lease, missed>>
    BY <1>5, <2>1, <2>3 DEF Destroy, TypeOK, libvirt
  <2> QED BY <1>5, <2>2, <2>3 DEF Destroy
<1> QED BY <1>1, <1>2, <1>3, <1>4, <1>5

\* The same of the observer.
LEMMA ObserveTypes ==
  ASSUME TypeOK, Observe
  PROVE  TypeOK'
<1>1. CASE Deliver
  <2>1. events' \in Seq(BOOLEAN) /\ Len(events') <= MaxEvents /\ Head(events) \in BOOLEAN
    BY <1>1, RunstateAssumption DEF Deliver, TypeOK
  <2>2. obs' \in Observer BY <1>1, <2>1 DEF Deliver, Observer
  <2> QED BY <1>1, <2>1, <2>2 DEF Deliver, TypeOK
<1>2. CASE Look
  <2>1. obs' \in Observer BY <1>2 DEF Look, Observer
  <2> QED BY <1>2, <2>1 DEF Look, libvirt, TypeOK
<1>3. CASE get_domain_info
  <2>1. obs' \in Observer BY <1>3, WatchTypes DEF get_domain_info, Rest
  <2> QED BY <1>3, <2>1 DEF get_domain_info, libvirt, TypeOK
<1>4. CASE oplog_complete
  <2>1. obs' \in Observer BY <1>4, WatchTypes DEF oplog_complete, Rest
  <2>2. log' \in [{Logged(p) : p \in Op} -> Record]
    BY <1>4, LogTypes DEF oplog_complete, Record
  <2> QED BY <1>4, <2>1, <2>2 DEF oplog_complete, libvirt, TypeOK
<1>5. CASE Delete_disk
  <2>1. obs' \in Observer BY <1>5, WatchTypes DEF Delete_disk
  <2> QED BY <1>5, <2>1 DEF Delete_disk, libvirt, TypeOK
<1>6. CASE RemoveResource
  <2>1. obs' \in Observer BY <1>6, WatchTypes DEF RemoveResource
  <2>2. res' \in BOOLEAN BY <1>6 DEF RemoveResource
  <2> QED BY <1>6, <2>1, <2>2 DEF RemoveResource, libvirt, TypeOK
<1> QED BY <1>1, <1>2, <1>3, <1>4, <1>5, <1>6 DEF Observe

\* The same of the world and of virtxd itself.
LEMMA RestTypes ==
  ASSUME TypeOK, GuestStops \/ Crash \/ Start
  PROVE  TypeOK'
<1>1. CASE GuestStops
  BY <1>1, StopsTypes DEF GuestStops, TypeOK
<1>2. CASE Crash
  <2>1. req' \in [Req -> Task] /\ obs' \in Observer
    BY <1>2 DEF Crash, Idle, Task, Asleep, Observer
  <2>2. up' \in BOOLEAN /\ missed' \in BOOLEAN BY <1>2 DEF Crash
  <2>3. crashes' \in 0..MaxCrashes BY <1>2, RunstateAssumption DEF Crash, TypeOK
  <2> QED BY <1>2, <2>1, <2>2, <2>3 DEF Crash, libvirt, TypeOK
<1>3. CASE Start
  <2>1. up' \in BOOLEAN BY <1>3 DEF Start
  <2>2. events' \in Seq(BOOLEAN) /\ Len(events') <= MaxEvents
    BY <1>3, RunstateAssumption DEF Start
  <2> QED BY <1>3, <2>1, <2>2 DEF Start, TypeOK
<1> QED BY <1>1, <1>2, <1>3

\* Every step keeps the types.
LEMMA NextTypes == TypeOK /\ [Next]_vars => TypeOK'
<1> SUFFICES ASSUME TypeOK, [Next]_vars PROVE TypeOK' OBVIOUS
<1>1. CASE UNCHANGED vars BY <1>1 DEF vars, TypeOK
<1>2. ASSUME NEW r \in Req, Handle(r) PROVE TypeOK'
  BY <1>2, HandleTypes, IsoTypes DEF Handle
<1>3. ASSUME NEW r \in Req, NEW o \in Op, Begin(r, o) PROVE TypeOK'
  <2>1. log' \in [{Logged(p) : p \in Op} -> Record] BY <1>3, LogTypes DEF Begin, Record
  <2> QED BY <1>3, <2>1, BeginTypes DEF Begin, libvirt, TypeOK
<1> QED BY <1>1, <1>2, <1>3, ObserveTypes, RestTypes DEF Next

\* Every variable keeps the values its declaration says.
THEOREM RunstateTypeCorrect == Spec => []TypeOK
BY InitTypes, NextTypes, PTL DEF Spec

-----------------------------------------------------------------------------
(* Runstate: the lease of the ISO's resource                                *)

\* Who removes the resource holds its lease, and who holds the lease, other than the
\* domain, removes it.
Leased ==
  /\ \A r \in Req : req[r].pc = "undo" <=> lease = r
  /\ obs.pc = "rm" <=> lease = "observer"

\* What makes AttachedIsoHasResource inductive.
IsoInv == TypeOK /\ Leased /\ AttachedIsoHasResource

\* A handler that does not hold the lease goes on without touching the resource.
LEMMA PlainStep ==
  ASSUME IsoInv, NEW r \in Req, req[r].pc # "undo", NEW pc, pc # "undo", At(r, pc),
         UNCHANGED <<res, obs>>,
         \/ lease' = lease /\ (dom' # "off" \/ dom' = dom)
         \/ lease' = (IF lease = "domain" THEN None ELSE lease)
  PROVE  Leased' /\ AttachedIsoHasResource'
<1>1. Leased' BY RunstateAssumption DEF IsoInv, Leased, At
<1>2. AttachedIsoHasResource'
  BY RunstateAssumption DEF IsoInv, AttachedIsoHasResource
<1> QED BY <1>1, <1>2

\* Handlers keep it.
LEMMA HandleIso ==
  ASSUME IsoInv, NEW r \in Req, Handle(r)
  PROVE  Leased' /\ AttachedIsoHasResource'
<1>0. TypeOK /\ Leased /\ AttachedIsoHasResource BY DEF IsoInv
<1>1. CASE Create(r) \/ UnknownOption(r) \/ SetPaused(r) \/ RecordFailed(r) \/ RecordCompleted(r)
  <2>1. \E pc \in {"complete", "create", "fail", "idle"} : At(r, pc)
    BY <1>0, <1>1, HandleTypes
  <2>2. /\ req[r].pc # "undo" /\ UNCHANGED <<res, obs, lease>>
        /\ dom' # "off" \/ dom' = dom
    BY <1>1 DEF Create, UnknownOption, SetPaused, RecordFailed, RecordCompleted, libvirt
  <2> QED BY <2>1, <2>2, PlainStep
<1>2. CASE Shutdown(r) \/ Destroy(r)
  <2>1. \E pc \in {"idle", "fail"} : At(r, pc) BY <1>0, <1>2, HandleTypes, IsoTypes
  <2>2. /\ req[r].pc # "undo" /\ UNCHANGED <<res, obs>>
        /\ \/ lease' = lease /\ dom' = dom
           \/ lease' = (IF lease = "domain" THEN None ELSE lease)
    BY <1>2 DEF Shutdown, Destroy, Stops, libvirt
  <2> QED BY <2>1, <2>2, PlainStep
<1>3. CASE Create_disk(r)
  <2>1. \E pc \in {"build", "destroy"} : At(r, pc) BY <1>0, <1>3, IsoTypes
  <2>2. req[r].pc # "undo" /\ UNCHANGED <<obs, lease, dom>> /\ (res => res')
    BY <1>3 DEF Create_disk, libvirt
  <2>3. Leased' BY <1>0, <2>1, <2>2 DEF Leased, At
  <2>4. AttachedIsoHasResource' BY <1>0, <2>2 DEF AttachedIsoHasResource
  <2> QED BY <2>3, <2>4
<1>4. CASE build_iso(r)
  <2>1. req[r].pc = "build" /\ UNCHANGED <<obs, res, dom>> BY <1>4 DEF build_iso, libvirt
  <2>2. CASE lease = None /\ lease' = r /\ At(r, "undo")
    <3>1. Leased' BY <1>0, <2>1, <2>2, RunstateAssumption DEF Leased, At
    <3>2. AttachedIsoHasResource' BY <2>2, RunstateAssumption DEF AttachedIsoHasResource
    <3> QED BY <3>1, <3>2
  <2>3. CASE lease' = lease /\ \E pc \in {"attach", "destroy"} : At(r, pc)
    BY <2>1, <2>3, PlainStep
  <2> QED BY <1>0, <1>4, <2>2, <2>3, IsoTypes
<1>5. CASE UndoResource(r)
  <2>1. At(r, "destroy") BY <1>0, <1>5, IsoTypes
  <2>2. lease = r /\ lease' = None /\ obs' = obs
    BY <1>0, <1>5 DEF UndoResource, Leased
  <2>3. Leased' BY <1>0, <2>1, <2>2, RunstateAssumption DEF Leased, At
  <2>4. AttachedIsoHasResource' BY <2>2, RunstateAssumption DEF AttachedIsoHasResource
  <2> QED BY <2>3, <2>4
<1>6. CASE cloudinit_attach(r)
  <2>1. \E pc \in {"complete", "destroy"} : At(r, pc) BY <1>0, <1>6, IsoTypes
  <2>2. req[r].pc = "attach" /\ UNCHANGED <<obs, res, dom>>
    BY <1>6 DEF cloudinit_attach, libvirt
  <2>3. CASE dom # "off" /\ res /\ lease = None /\ lease' = "domain"
    <3>1. Leased' BY <1>0, <2>1, <2>2, <2>3, RunstateAssumption DEF Leased, At
    <3>2. AttachedIsoHasResource' BY <2>2, <2>3 DEF AttachedIsoHasResource
    <3> QED BY <3>1, <3>2
  <2>4. CASE lease' = lease BY <2>1, <2>2, <2>4, PlainStep
  <2> QED BY <1>6, <2>3, <2>4 DEF cloudinit_attach
<1> QED BY <1>1, <1>2, <1>3, <1>4, <1>5, <1>6 DEF Handle

\* The observer keeps it.
LEMMA ObserveIso ==
  ASSUME IsoInv, Observe
  PROVE  Leased' /\ AttachedIsoHasResource'
<1>0. TypeOK /\ Leased /\ AttachedIsoHasResource BY DEF IsoInv
<1>1. CASE Deliver \/ Look \/ get_domain_info \/ oplog_complete
  <2>1. UNCHANGED <<req, lease, res, dom>>
    BY <1>1 DEF Deliver, Look, get_domain_info, oplog_complete, libvirt
  <2>2. obs.pc # "rm" /\ obs'.pc # "rm"
    BY <1>0, <1>1, WatchTypes DEF Deliver, Look, get_domain_info, oplog_complete, Rest
  <2> QED BY <1>0, <2>1, <2>2 DEF Leased, AttachedIsoHasResource
<1>2. CASE Delete_disk
  <2>1. UNCHANGED <<req, res, dom>> /\ obs.pc = "delete" BY <1>2 DEF Delete_disk, libvirt
  <2>2. CASE lease = None /\ lease' = "observer" /\ Watch("rm")
    <3>1. obs'.pc = "rm" BY <1>0, <2>2, WatchTypes
    <3> QED BY <1>0, <2>1, <2>2, <3>1, RunstateAssumption DEF Leased, AttachedIsoHasResource
  <2>3. CASE lease' = lease /\ Watch("idle")
    <3>1. obs'.pc = "idle" BY <1>0, <2>3, WatchTypes
    <3> QED BY <1>0, <2>1, <2>3, <3>1 DEF Leased, AttachedIsoHasResource
  <2> QED BY <1>2, <2>2, <2>3 DEF Delete_disk
<1>3. CASE RemoveResource
  <2>1. lease = "observer" /\ lease' = None /\ UNCHANGED req
    BY <1>0, <1>3 DEF RemoveResource, Leased
  <2>2. obs'.pc = "idle" BY <1>0, <1>3, WatchTypes DEF RemoveResource
  <2> QED BY <1>0, <2>1, <2>2, RunstateAssumption DEF Leased, AttachedIsoHasResource
<1> QED BY <1>1, <1>2, <1>3 DEF Observe

\* Every step keeps it.
LEMMA NextIso == IsoInv /\ [Next]_vars => IsoInv'
<1> SUFFICES ASSUME IsoInv, [Next]_vars PROVE IsoInv' OBVIOUS
<1>0. TypeOK /\ Leased /\ AttachedIsoHasResource /\ TypeOK' BY NextTypes DEF IsoInv
<1>1. CASE UNCHANGED vars BY <1>0, <1>1 DEF vars, IsoInv, Leased, AttachedIsoHasResource
<1>2. ASSUME NEW r \in Req, NEW o \in Op, Begin(r, o) PROVE IsoInv'
  <2>1. At(r, "act") BY <1>0, <1>2, BeginTypes DEF At
  <2>2. req[r].pc # "undo" /\ UNCHANGED <<res, obs, lease, dom>> BY <1>2 DEF Begin, libvirt
  <2> QED BY <1>0, <2>1, <2>2, PlainStep DEF IsoInv
<1>3. CASE GuestStops
  <2>1. UNCHANGED <<res, obs, req>> /\ lease' = (IF lease = "domain" THEN None ELSE lease)
    BY <1>3 DEF GuestStops, Stops
  <2> QED BY <1>0, <2>1, RunstateAssumption DEF IsoInv, Leased, AttachedIsoHasResource
<1>4. CASE Crash
  <2>1. \A r \in Req : req'[r].pc = "idle" BY <1>4 DEF Crash, Idle
  <2>2. obs'.pc = "idle" BY <1>4 DEF Crash, Asleep
  <2>3. UNCHANGED <<res, dom>> /\ lease' = IF lease = "domain" THEN lease ELSE None
    BY <1>4 DEF Crash, libvirt
  <2> QED BY <1>0, <2>1, <2>2, <2>3, RunstateAssumption DEF IsoInv, Leased, AttachedIsoHasResource
<1>5. CASE Start BY <1>0, <1>5 DEF Start, IsoInv, Leased, AttachedIsoHasResource
<1> QED BY <1>0, <1>1, <1>2, <1>3, <1>4, <1>5, HandleIso, ObserveIso DEF Next, IsoInv

\* It holds initially.
LEMMA InitIso == Init => IsoInv
<1> SUFFICES ASSUME Init PROVE IsoInv OBVIOUS
<1>1. lease = None /\ obs.pc = "idle" /\ \A r \in Req : req[r].pc = "idle"
  BY DEF Init, Idle, Asleep
<1> QED BY <1>1, InitTypes, RunstateAssumption DEF IsoInv, Leased, AttachedIsoHasResource

\* The resource of an attached ISO is there as long as the domain runs: no undone boot
\* and no late STOPPED event of an earlier run removes it, with any number of requests,
\* queued events and crashes.
THEOREM AttachedIsoKept == Spec => []AttachedIsoHasResource
<1>1. IsoInv => AttachedIsoHasResource BY DEF IsoInv
<1> QED BY <1>1, InitIso, NextIso, PTL DEF Spec

-----------------------------------------------------------------------------
(* Runstate: the removal of the resource                                    *)

\* A STOPPED event is queued, and one is being handled whose cleanup is still to come.
Queued == \E i \in 1..Len(events) : events[i] = TRUE
Handled == obs.pc = "rm" \/ (obs.stopped = TRUE /\ obs.pc \in {"look", "record", "delete"})

\* As long as virtxd has missed nothing: ISOs are made for a domain that runs, and once
\* it does not, the event that removes the resource is on its way.
Watched ==
  missed = FALSE =>
    /\ up = TRUE
    /\ \A r \in Req : MakesIso(r) => dom # "off"
    /\ res = TRUE => dom # "off" \/ Queued \/ Handled

\* A stop queues the event, and is missed if an ISO is being made.
LEMMA StopsWatched ==
  ASSUME IsoInv, Watched, NEW why, Stops(why), UNCHANGED up,
         \A r \in Req : MakesIso(r)' => MakesIso(r)
  PROVE  Watched'
<1>1. Tell(TRUE) /\ TypeOK BY DEF Stops, IsoInv
<1>2. Len(events) \in Nat BY <1>1 DEF TypeOK
<1>3. Queued'
  <2>1. Len(events') = Len(events) + 1 /\ events'[Len(events) + 1] = TRUE
    BY <1>1, TellTypes
  <2>2. Len(events) + 1 \in 1..Len(events') BY <1>2, <2>1
  <2> QED BY <2>1, <2>2 DEF Queued
<1>4. missed' = FALSE => missed = FALSE /\ \A r \in Req : ~MakesIso(r)
  BY <1>1 DEF Stops, TypeOK
<1> QED BY <1>3, <1>4 DEF Watched

\* The domain runs on or starts, or nothing is made for it; an event may come on top.
LEMMA RunsWatched ==
  ASSUME IsoInv, Watched, UNCHANGED <<obs, up, missed>>,
         dom' # "off" \/ (dom' = dom /\ events' = events /\ (res' = TRUE => res = TRUE)),
         dom' = "off" => \A r \in Req : MakesIso(r)' => MakesIso(r)
  PROVE  Watched'
BY DEF Watched, Queued, Handled

\* Handlers keep it.
LEMMA HandleWatched ==
  ASSUME IsoInv, Watched, NEW r \in Req, Handle(r)
  PROVE  Watched'
<1>0. TypeOK BY DEF IsoInv
<1>1. CASE Create(r) \/ UnknownOption(r) \/ SetPaused(r) \/ RecordFailed(r) \/ RecordCompleted(r)
  <2>1. PICK pc \in {"complete", "create", "fail", "idle"} :
          At(r, pc) /\ (pc = "create" => Create(r))
    BY <1>0, <1>1, HandleTypes
  <2>2. CASE dom' # "off"
    <3>1. UNCHANGED <<obs, up, missed>>
      BY <1>1 DEF Create, UnknownOption, SetPaused, RecordFailed, RecordCompleted
    <3> QED BY <2>2, <3>1, RunsWatched
  <2>3. CASE dom' = "off"
    <3>1. UNCHANGED <<obs, up, missed, dom, events, res>>
      BY <1>1, <2>3 DEF Create, UnknownOption, SetPaused, RecordFailed, RecordCompleted, libvirt
    <3>2. At(r, "complete") \/ At(r, "fail") \/ At(r, "idle")
      <4>1. CASE Create(r)
        BY <1>0, <2>3, <4>1, GotoTypes DEF Create, At
      <4> QED BY <2>1, <4>1
    <3>3. \A q \in Req : MakesIso(q)' => MakesIso(q) BY <3>2 DEF At, MakesIso
    <3> QED BY <3>1, <3>3, RunsWatched
  <2> QED BY <2>2, <2>3
<1>2. CASE Shutdown(r) \/ Destroy(r)
  <2>1. \E pc \in {"idle", "fail"} : At(r, pc) BY <1>0, <1>2, HandleTypes, IsoTypes
  <2>2. \A q \in Req : MakesIso(q)' => MakesIso(q) BY <2>1 DEF At, MakesIso
  <2>3. UNCHANGED <<res, obs, up>> BY <1>2 DEF Shutdown, Destroy
  <2>4. CASE Stops("destroyed") BY <2>2, <2>3, <2>4, StopsWatched
  <2>5. CASE UNCHANGED <<libvirt, lease, missed>>
    BY <2>2, <2>3, <2>5, RunsWatched DEF libvirt
  <2> QED BY <1>2, <2>4, <2>5 DEF Shutdown, Destroy
<1>3. CASE Create_disk(r)
  <2>1. \E pc \in {"build", "destroy"} : At(r, pc) BY <1>0, <1>3, IsoTypes
  <2>2. MakesIso(r) /\ UNCHANGED <<obs, up, missed, dom, events>>
    BY <1>3 DEF Create_disk, libvirt, MakesIso
  <2>3. \A q \in Req : MakesIso(q)' => MakesIso(q) BY <2>1, <2>2 DEF At, MakesIso
  <2> QED BY <2>2, <2>3 DEF Watched, Queued, Handled
<1>4. CASE build_iso(r) \/ cloudinit_attach(r)
  <2>1. \E pc \in {"undo", "attach", "destroy", "complete"} : At(r, pc)
    BY <1>0, <1>4, IsoTypes
  <2>2. MakesIso(r) /\ UNCHANGED <<obs, up, missed, dom, events, res>>
    BY <1>4 DEF build_iso, cloudinit_attach, libvirt, MakesIso
  <2>3. \A q \in Req : MakesIso(q)' => MakesIso(q) BY <2>1, <2>2 DEF At, MakesIso
  <2> QED BY <2>2, <2>3, RunsWatched
<1>5. CASE UndoResource(r)
  <2>1. At(r, "destroy") BY <1>0, <1>5, IsoTypes
  <2>2. UNCHANGED <<obs, up, missed, dom, events>> /\ res' = FALSE
    BY <1>5 DEF UndoResource, libvirt
  <2>3. \A q \in Req : MakesIso(q)' => MakesIso(q) BY <2>1 DEF At, MakesIso
  <2> QED BY <2>2, <2>3, RunsWatched
<1> QED BY <1>1, <1>2, <1>3, <1>4, <1>5 DEF Handle

\* The observer keeps it: a cleanup that finds the lease taken finds a domain that runs.
LEMMA ObserveWatched ==
  ASSUME IsoInv, Watched, Observe
  PROVE  Watched'
<1>0. TypeOK /\ UNCHANGED <<req, up, missed, dom>>
  BY DEF IsoInv, Observe, Deliver, Look, get_domain_info, oplog_complete, Delete_disk,
         RemoveResource, libvirt
<1>1. \A r \in Req : MakesIso(r)' => MakesIso(r) BY <1>0 DEF MakesIso
<1>2. CASE Deliver
  <2>1. UNCHANGED res /\ obs.pc = "idle" /\ events # <<>> BY <1>2 DEF Deliver
  <2>2. obs'.pc = "look" /\ obs'.stopped = Head(events) /\ events' = Tail(events)
    BY <1>2 DEF Deliver
  <2>3. Queued => Queued' \/ Handled'
    <3> SUFFICES ASSUME NEW i \in 1..Len(events), events[i] = TRUE PROVE Queued' \/ Handled'
      BY DEF Queued
    <3>1. CASE i = 1 BY <2>1, <2>2, <3>1 DEF Handled
    <3>2. CASE i # 1
      <4>1. i - 1 \in 1..Len(events') /\ events'[i - 1] = TRUE
        BY <1>0, <2>1, <2>2, <3>2 DEF TypeOK
      <4> QED BY <4>1 DEF Queued
    <3> QED BY <3>1, <3>2
  <2> QED BY <1>0, <1>1, <2>1, <2>3 DEF Watched, Handled
<1>3. CASE Look
  <2>1. UNCHANGED <<res, events>> /\ obs.pc = "idle" BY <1>3 DEF Look, libvirt
  <2> QED BY <1>0, <1>1, <2>1 DEF Watched, Handled, Queued
<1>4. CASE get_domain_info \/ oplog_complete
  <2>1. UNCHANGED <<res, events>> /\ obs.pc \in {"look", "record"}
    BY <1>4 DEF get_domain_info, oplog_complete, libvirt
  <2>2. obs.stopped \in BOOLEAN BY <1>0 DEF TypeOK, Observer
  <2>3. Watch("record") \/ Watch(Rest) BY <1>4 DEF get_domain_info, oplog_complete
  <2>4. obs.stopped = TRUE => obs'.stopped = TRUE /\ obs'.pc \in {"record", "delete"}
    BY <1>0, <2>2, <2>3, WatchTypes DEF Rest
  <2> QED BY <1>0, <1>1, <2>1, <2>4 DEF Watched, Handled, Queued
<1>5. CASE Delete_disk
  <2>1. UNCHANGED <<res, events>> /\ obs.pc = "delete" BY <1>5 DEF Delete_disk, libvirt
  <2>2. CASE Watch("rm")
    <3>1. obs'.pc = "rm" BY <1>0, <2>2, WatchTypes
    <3> QED BY <1>0, <1>1, <2>1, <3>1 DEF Watched, Handled
  <2>3. CASE ~(res /\ lease = None)
    <3> SUFFICES ASSUME missed = FALSE, res = TRUE PROVE dom # "off"
      BY <1>0, <1>1, <2>1 DEF Watched, Handled, Queued
    <3>1. lease \in Req \cup {"domain", "observer"} BY <1>0, <2>3 DEF TypeOK
    <3>2. lease # "observer" BY <2>1 DEF IsoInv, Leased
    <3>3. CASE lease = "domain" BY <3>3 DEF IsoInv, AttachedIsoHasResource
    <3>4. ASSUME NEW r \in Req, lease = r PROVE dom # "off"
      <4>1. MakesIso(r) BY <3>4 DEF IsoInv, Leased, MakesIso
      <4> QED BY <4>1 DEF Watched
    <3> QED BY <3>1, <3>2, <3>3, <3>4
  <2> QED BY <1>5, <2>2, <2>3 DEF Delete_disk
<1>6. CASE RemoveResource
  <2>1. res' = FALSE BY <1>6 DEF RemoveResource
  <2> QED BY <1>0, <1>1, <2>1 DEF Watched
<1> QED BY <1>2, <1>3, <1>4, <1>5, <1>6 DEF Observe

\* Every step keeps it.
LEMMA NextWatched == IsoInv /\ Watched /\ [Next]_vars => Watched'
<1> SUFFICES ASSUME IsoInv, Watched, [Next]_vars PROVE Watched' OBVIOUS
<1>1. CASE UNCHANGED vars
  BY <1>1 DEF vars, Watched, Queued, Handled, MakesIso
<1>2. ASSUME NEW r \in Req, NEW o \in Op, Begin(r, o) PROVE Watched'
  <2>1. At(r, "act") BY <1>2, BeginTypes DEF At, IsoInv
  <2>2. UNCHANGED <<res, obs, up, missed, dom, events>> BY <1>2 DEF Begin, libvirt
  <2>3. \A q \in Req : MakesIso(q)' => MakesIso(q) BY <2>1 DEF At, MakesIso
  <2> QED BY <2>2, <2>3, RunsWatched
<1>3. CASE GuestStops
  <2>1. \E why : Stops(why) BY <1>3 DEF GuestStops
  <2>2. UNCHANGED <<up, req>> BY <1>3 DEF GuestStops
  <2>3. \A q \in Req : MakesIso(q)' => MakesIso(q) BY <2>2 DEF MakesIso
  <2> QED BY <2>1, <2>2, <2>3, StopsWatched
<1>4. CASE Crash BY <1>4 DEF Crash, Watched
<1>5. CASE Start BY <1>5 DEF Start, Watched
<1> QED BY <1>1, <1>2, <1>3, <1>4, <1>5, HandleWatched, ObserveWatched DEF Next

\* Unless virtxd has missed the end of the domain, or the domain ended while its ISO was
\* made, no resource of an ISO is left when all events have been handled: whatever the
\* order in which boots, failures, stops and the handling of their events come.
THEOREM IsoRemoved == Spec => []NoIsoLeft
<1>1. Init => Watched
  <2> SUFFICES ASSUME Init PROVE Watched OBVIOUS
  <2>1. \A r \in Req : ~MakesIso(r) BY DEF Init, Idle, MakesIso
  <2> QED BY <2>1 DEF Init, Watched
<1>2. IsoInv /\ Watched => NoIsoLeft
  <2> SUFFICES ASSUME IsoInv, Watched, Seen, dom = "off", ~missed PROVE ~res
    BY DEF NoIsoLeft
  <2>1. missed = FALSE /\ res \in BOOLEAN BY DEF IsoInv, TypeOK
  <2>2. events = <<>> /\ obs.pc = "idle" BY DEF Seen
  <2>3. ~Queued BY <2>2 DEF Queued
  <2>4. ~Handled BY <2>2 DEF Handled
  <2> QED BY <2>1, <2>3, <2>4 DEF Watched
<1> QED BY <1>1, <1>2, InitIso, NextIso, NextWatched, PTL DEF Spec

-----------------------------------------------------------------------------
(* Induction                                                                *)

\* Induction over the natural numbers, for a set.
LEMMA Induction ==
  ASSUME NEW S, 0 \in S, \A n \in Nat : n \in S => n + 1 \in S
  PROVE  Nat \subseteq S
<1> DEFINE T == Nat \ S
<1> SUFFICES ASSUME T # {} PROVE FALSE OBVIOUS
<1>1. PICK x \in T : \A y \in T : ~(<<y, x>> \in OpToRel(<, Nat))
  BY WFMin, NatLessThanWellFounded, T \subseteq Nat, Zenon
<1>2. \A y \in T : ~(y < x) BY <1>1, T \subseteq Nat DEF OpToRel
<1>3. x # 0 /\ x \in Nat /\ x \notin S OBVIOUS
<1>4. x - 1 \in Nat /\ x - 1 < x BY <1>3
<1>5. x - 1 \in S BY <1>2, <1>4
<1>6. (x - 1) + 1 = x BY <1>3
<1> QED BY <1>3, <1>4, <1>5, <1>6

\* The same up to a number.
LEMMA InductionUpTo ==
  ASSUME NEW N \in Nat, NEW S, 0 \in S, \A n \in 0..(N - 1) : n \in S => n + 1 \in S
  PROVE  N \in S
<1> DEFINE T == {n \in Nat : n <= N => n \in S}
<1>1. 0 \in T OBVIOUS
<1>2. \A n \in Nat : n \in T => n + 1 \in T
  <2> SUFFICES ASSUME NEW n \in Nat, n <= N => n \in S, n + 1 <= N PROVE n + 1 \in S OBVIOUS
  <2> QED BY n \in 0..(N - 1)
<1>3. Nat \subseteq T BY <1>1, <1>2, Induction
<1> QED BY <1>3

-----------------------------------------------------------------------------
(* Vmdef: the loops                                                         *)

\* st holds what the first n of the disks ds have added to the XML.
Builds(st, ds, n) ==
  st = [i \in 0..n |-> IF i = 0 THEN NoElements ELSE Disk_to_xml(st[i - 1], ds[i])]

\* To_xml's loop over the disks has a state after each of them.
LEMMA LoopOverDisks ==
  ASSUME NEW ds, Len(ds) \in Nat
  PROVE  \E st : /\ Elements(ds) = st[Len(ds)]
                 /\ st[0] = NoElements
                 /\ \A i \in 1..Len(ds) : st[i] = Disk_to_xml(st[i - 1], ds[i])
<1> DEFINE P == {n \in Nat : \E st : Builds(st, ds, n)}
<1>1. 0 \in P
  <2> DEFINE st == [i \in 0..0 |-> NoElements]
  <2>1. Builds(st, ds, 0) BY DEF Builds
  <2> QED BY <2>1
<1>2. \A n \in Nat : n \in P => n + 1 \in P
  <2> SUFFICES ASSUME NEW n \in Nat, n \in P PROVE n + 1 \in P OBVIOUS
  <2>1. PICK st : Builds(st, ds, n) OBVIOUS
  <2> DEFINE t == [i \in 0..(n + 1) |-> IF i = 0 THEN NoElements ELSE Disk_to_xml(st[i - 1], ds[i])]
  <2>2. \A i \in 0..n : t[i] = st[i] BY <2>1 DEF Builds
  <2>3. \A i \in 0..(n + 1) : t[i] = IF i = 0 THEN NoElements ELSE Disk_to_xml(t[i - 1], ds[i])
    <3> SUFFICES ASSUME NEW i \in 0..(n + 1), i # 0 PROVE t[i - 1] = st[i - 1] OBVIOUS
    <3> QED BY <2>2, i - 1 \in 0..n
  <2>4. Builds(t, ds, n + 1) BY <2>3 DEF Builds
  <2> QED BY <2>4, n + 1 \in Nat
<1>3. Nat \subseteq P BY <1>1, <1>2, Induction
<1>4. PICK st : Builds(st, ds, Len(ds)) BY <1>3
<1> DEFINE built == CHOOSE f : Builds(f, ds, Len(ds))
<1>5. Builds(built, ds, Len(ds)) BY <1>4
<1>6. Elements(ds) = built[Len(ds)] BY DEF Elements, Builds
<1> HIDE DEF built
<1> QED BY <1>5, <1>6 DEF Builds

\* meta holds what the first n of the fields cs have added to the metadata.
Names(meta, cs, n) ==
  meta = [i \in 0..n |-> IF i = 0 THEN <<>> ELSE AddField(meta[i - 1], cs[i])]

\* The same for the loop over the custom fields.
LEMMA LoopOverFields ==
  ASSUME NEW cs, Len(cs) \in Nat
  PROVE  \E meta : /\ MetaToXml(cs) = meta[Len(cs)]
                   /\ meta[0] = <<>>
                 /\ \A i \in 1..Len(cs) : meta[i] = AddField(meta[i - 1], cs[i])
<1> DEFINE P == {n \in Nat : \E meta : Names(meta, cs, n)}
<1>1. 0 \in P
  <2> DEFINE meta == [i \in 0..0 |-> <<>>]
  <2>1. Names(meta, cs, 0) BY DEF Names
  <2> QED BY <2>1
<1>2. \A n \in Nat : n \in P => n + 1 \in P
  <2> SUFFICES ASSUME NEW n \in Nat, n \in P PROVE n + 1 \in P OBVIOUS
  <2>1. PICK meta : Names(meta, cs, n) OBVIOUS
  <2> DEFINE t == [i \in 0..(n + 1) |-> IF i = 0 THEN <<>> ELSE AddField(meta[i - 1], cs[i])]
  <2>2. \A i \in 0..n : t[i] = meta[i] BY <2>1 DEF Names
  <2>3. \A i \in 0..(n + 1) : t[i] = IF i = 0 THEN <<>> ELSE AddField(t[i - 1], cs[i])
    <3> SUFFICES ASSUME NEW i \in 0..(n + 1), i # 0 PROVE t[i - 1] = meta[i - 1] OBVIOUS
    <3> QED BY <2>2, i - 1 \in 0..n
  <2>4. Names(t, cs, n + 1) BY <2>3 DEF Names
  <2> QED BY <2>4, n + 1 \in Nat
<1>3. Nat \subseteq P BY <1>1, <1>2, Induction
<1>4. PICK meta : Names(meta, cs, Len(cs)) BY <1>3
<1> DEFINE built == CHOOSE f : Names(f, cs, Len(cs))
<1>5. Names(built, cs, Len(cs)) BY <1>4
<1>6. MetaToXml(cs) = built[Len(cs)] BY DEF MetaToXml, Names
<1> HIDE DEF built
<1> QED BY <1>5, <1>6 DEF Names

\* got holds what From_xml has found in the first n of the elements es.
Reads(got, es, n) ==
  got = [i \in 0..n |-> IF i = 0 THEN NoDisks ELSE AddDisk(got[i - 1], es[i])]

\* The same for From_xml's loop over the disks.
LEMMA LoopOverElements ==
  ASSUME NEW es, Len(es) \in Nat
  PROVE  \E got : /\ DisksFromXml(es) = got[Len(es)]
                 /\ got[0] = NoDisks
                 /\ \A i \in 1..Len(es) : got[i] = AddDisk(got[i - 1], es[i])
<1> DEFINE P == {n \in Nat : \E got : Reads(got, es, n)}
<1>1. 0 \in P
  <2> DEFINE got == [i \in 0..0 |-> NoDisks]
  <2>1. Reads(got, es, 0) BY DEF Reads
  <2> QED BY <2>1
<1>2. \A n \in Nat : n \in P => n + 1 \in P
  <2> SUFFICES ASSUME NEW n \in Nat, n \in P PROVE n + 1 \in P OBVIOUS
  <2>1. PICK got : Reads(got, es, n) OBVIOUS
  <2> DEFINE t == [i \in 0..(n + 1) |-> IF i = 0 THEN NoDisks ELSE AddDisk(got[i - 1], es[i])]
  <2>2. \A i \in 0..n : t[i] = got[i] BY <2>1 DEF Reads
  <2>3. \A i \in 0..(n + 1) : t[i] = IF i = 0 THEN NoDisks ELSE AddDisk(t[i - 1], es[i])
    <3> SUFFICES ASSUME NEW i \in 0..(n + 1), i # 0 PROVE t[i - 1] = got[i - 1] OBVIOUS
    <3> QED BY <2>2, i - 1 \in 0..n
  <2>4. Reads(t, es, n + 1) BY <2>3 DEF Reads
  <2> QED BY <2>4, n + 1 \in Nat
<1>3. Nat \subseteq P BY <1>1, <1>2, Induction
<1>4. PICK got : Reads(got, es, Len(es)) BY <1>3
<1> DEFINE built == CHOOSE f : Reads(f, es, Len(es))
<1>5. Reads(built, es, Len(es)) BY <1>4
<1>6. DisksFromXml(es) = built[Len(es)] BY DEF DisksFromXml, Reads
<1> HIDE DEF built
<1> QED BY <1>5, <1>6 DEF Reads

\* What MetaToXml leaves of some fields: all of them have names, and are among them; and
\* it leaves all of them when they do.
LEMMA FieldsKept ==
  ASSUME NEW cs \in Seq(Custom)
  PROVE  /\ MetaToXml(cs) \in Seq(Custom)
         /\ \A k \in 1..Len(MetaToXml(cs)) :
              /\ MetaToXml(cs)[k].Name # ""
              /\ \E i \in 1..Len(cs) : MetaToXml(cs)[k] = cs[i]
         /\ (\A i \in 1..Len(cs) : cs[i].Name # "") => MetaToXml(cs) = cs
<1>0. Len(cs) \in Nat OBVIOUS
<1>1. PICK meta : /\ MetaToXml(cs) = meta[Len(cs)]
                  /\ meta[0] = <<>>
                  /\ \A i \in 1..Len(cs) : meta[i] = AddField(meta[i - 1], cs[i])
  BY <1>0, LoopOverFields, Zenon
<1> DEFINE Good(n) ==
             /\ meta[n] \in Seq(Custom)
             /\ \A k \in 1..Len(meta[n]) :
                  meta[n][k].Name # "" /\ \E i \in 1..Len(cs) : meta[n][k] = cs[i]
             /\ (\A i \in 1..Len(cs) : cs[i].Name # "") =>
                  Len(meta[n]) = n /\ \A k \in 1..n : meta[n][k] = cs[k]
<1>2. Good(0) BY <1>1
<1>3. ASSUME NEW n \in 0..(Len(cs) - 1), Good(n) PROVE Good(n + 1)
  <2> HIDE DEF Good
  <2>1. n + 1 \in 1..Len(cs) /\ n \in Nat /\ (n + 1) - 1 = n BY <1>0
  <2>2. meta[n + 1] = IF cs[n + 1].Name = "" THEN meta[n] ELSE Append(meta[n], cs[n + 1])
    BY <1>1, <2>1 DEF AddField
  <2>3. cs[n + 1] \in Custom BY <2>1
  <2>4. /\ meta[n] \in Seq(Custom)
        /\ \A k \in 1..Len(meta[n]) :
             meta[n][k].Name # "" /\ \E i \in 1..Len(cs) : meta[n][k] = cs[i]
        /\ (\A i \in 1..Len(cs) : cs[i].Name # "") =>
             Len(meta[n]) = n /\ \A k \in 1..n : meta[n][k] = cs[k]
    BY <1>3 DEF Good
  <2>5. CASE cs[n + 1].Name = ""
    <3>1. meta[n + 1] = meta[n] BY <2>2, <2>5
    <3>2. ~(\A i \in 1..Len(cs) : cs[i].Name # "") BY <2>1, <2>5
    <3> QED BY <2>4, <3>1, <3>2 DEF Good
  <2>6. CASE cs[n + 1].Name # ""
    <3> DEFINE old == meta[n]
               new == meta[n + 1]
    <3>1. new = Append(old, cs[n + 1]) BY <2>2, <2>6
    <3>2. old \in Seq(Custom) BY <2>4
    <3> HIDE DEF old, new
    <3>3. /\ new \in Seq(Custom) /\ Len(new) = Len(old) + 1 /\ Len(old) \in Nat
          /\ new[Len(old) + 1] = cs[n + 1]
          /\ \A k \in 1..Len(old) : new[k] = old[k]
      BY <2>3, <3>1, <3>2
    <3>4. \A k \in 1..Len(new) : new[k].Name # "" /\ \E i \in 1..Len(cs) : new[k] = cs[i]
      <4> SUFFICES ASSUME NEW k \in 1..(Len(old) + 1)
                   PROVE  new[k].Name # "" /\ \E i \in 1..Len(cs) : new[k] = cs[i]
        BY <3>3
      <4>1. CASE k \in 1..Len(old)
        <5>1. old[k].Name # "" /\ \E i \in 1..Len(cs) : old[k] = cs[i] BY <2>4, <4>1 DEF old
        <5>2. new[k] = old[k] BY <3>3, <4>1
        <5> QED BY <5>1, <5>2, Zenon
      <4>2. CASE k = Len(old) + 1 BY <2>1, <2>6, <3>3, <4>2
      <4>3. k \in 1..Len(old) \/ k = Len(old) + 1
        <5>1. Len(old) \in Nat BY <3>3
        <5> QED BY <5>1
      <4> QED BY <4>1, <4>2, <4>3
    <3>5. ASSUME \A i \in 1..Len(cs) : cs[i].Name # ""
          PROVE  Len(new) = n + 1 /\ \A k \in 1..(n + 1) : new[k] = cs[k]
      <4>1. Len(old) = n /\ \A k \in 1..n : old[k] = cs[k] BY <2>4, <3>5 DEF old
      <4> QED BY <2>1, <3>3, <4>1
    <3> QED BY <3>3, <3>4, <3>5 DEF Good, new
  <2> QED BY <2>5, <2>6
<1> HIDE DEF Good
<1>4. Good(Len(cs))
  <2> DEFINE S == {n \in Nat : Good(n)}
  <2>1. \A n \in 0..(Len(cs) - 1) : n \in S => n + 1 \in S BY <1>0, <1>3
  <2>2. 0 \in S BY <1>2
  <2> HIDE DEF S
  <2>3. Len(cs) \in S BY <1>0, <2>1, <2>2, InductionUpTo
  <2> QED BY <2>3 DEF S
<1> DEFINE out == meta[Len(cs)]
<1>5. /\ out \in Seq(Custom)
      /\ \A k \in 1..Len(out) : out[k].Name # "" /\ \E i \in 1..Len(cs) : out[k] = cs[i]
      /\ (\A i \in 1..Len(cs) : cs[i].Name # "") =>
           Len(out) = Len(cs) /\ \A k \in 1..Len(cs) : out[k] = cs[k]
  BY <1>4 DEF Good
<1>6. MetaToXml(cs) = out BY <1>1
<1> HIDE DEF out
<1>7. (\A i \in 1..Len(cs) : cs[i].Name # "") => out = cs
  <2> SUFFICES ASSUME \A i \in 1..Len(cs) : cs[i].Name # "" PROVE out = cs OBVIOUS
  <2>1. Len(out) = Len(cs) /\ \A k \in 1..Len(cs) : out[k] = cs[k] BY <1>5
  <2> QED BY <1>5, <2>1, SeqEqual
<1> QED BY <1>5, <1>6, <1>7

\* A word of the XML is understood as what it was written for.
LEMMA WordsUnderstood ==
  /\ \A x \in DiskDevice : DeviceParse[DeviceString[x]] = x
  /\ \A x \in NetModel : ModelParse[ModelString[x]] = x
  /\ \A x \in FirmwareType : FirmwareParse[FirmwareString[x]] = x
  /\ \A x \in DiskManMode : ManParse[ManString[x]] = x
  /\ \A x \in DiskProvMode : ProvParse[ProvString[x]] = x
  /\ \A x \in DiskBus : BusParse(CtrlType(x), CtrlModel(x)) = x
BY DEF DiskDevice, DeviceParse, DeviceString, NetModel, ModelParse, ModelString, FirmwareType,
       FirmwareParse, FirmwareString, DiskManMode, ManParse, ManString, DiskProvMode, ProvParse,
       ProvString, DiskBus, BusParse, CtrlType, CtrlModel

\* A disk is read back from its element.
LEMMA DiskReadBack ==
  ASSUME NEW st, NEW d \in Disk
  PROVE  vmdef_disk_from_xml(domain_disk(st, d)) = KeptDisk(d)
<1> DEFINE e == domain_disk(st, d)
<1>1. /\ d.Device \in DiskDevice /\ d.Bus \in DiskBus /\ d.Man \in DiskManMode /\ d.Prov \in DiskProvMode
  BY DEF Disk
<1>2. /\ e.device = DeviceString[d.Device]
      /\ e.block = IF d.Device = "LUN" THEN d.Path ELSE Absent
      /\ e.file = IF d.Device = "LUN" THEN Absent ELSE d.Path
      /\ e.alias[1] = ManString[d.Man] /\ e.alias[2] = ProvString[d.Prov]
      /\ e.alias[3] = CtrlType(d.Bus) /\ e.alias[4] = CtrlModel(d.Bus)
  BY DEF domain_disk
<1> HIDE DEF e
<1>3. /\ DeviceParse[e.device] = d.Device
      /\ BusParse(e.alias[3], e.alias[4]) = d.Bus
      /\ ManParse[e.alias[1]] = d.Man /\ ProvParse[e.alias[2]] = d.Prov
  BY <1>1, <1>2, WordsUnderstood
<1>4. vmdef_disk_from_xml(e) = KeptDisk(d) BY <1>2, <1>3 DEF vmdef_disk_from_xml, KeptDisk
<1> QED BY <1>4 DEF e

-----------------------------------------------------------------------------
(* Vmdef: the devices                                                       *)

\* The disks per type of controller; the leases disks can have.
Counts == [scsi : Nat, sata : Nat, virtio : Nat]
Leases == {vmdef_lease(d) : d \in Disk}

\* The type of the XML as it grows, with elements and controllers in E and C.
Growing(E, C) ==
  [count : Counts, io : Nat, boot : Nat, disks : Seq(E), leases : Seq(Leases), ctrls : Seq(C)]

\* The type and the model of the controller for a bus.
LEMMA ControllerTypes ==
  ASSUME NEW bus \in DiskBus
  PROVE  /\ CtrlType(bus) \in {"scsi", "sata", "virtio"}
         /\ CtrlModel(bus) # "" => CtrlType(bus) = "scsi"
         /\ CtrlType(bus) = "scsi" <=> CtrlModel(bus) # ""
         /\ CtrlType(bus) = "virtio" <=> bus = "VIRTIO_BLK"
BY DEF DiskBus, CtrlType, CtrlModel

\* A disk leaves the XML well-formed.
LEMMA DiskTypes ==
  ASSUME NEW E, NEW C, NEW st \in Growing(E, C), NEW d \in Disk,
         domain_disk(st, d) \in E, domain_controller(st, d) \in C
  PROVE  Disk_to_xml(st, d) \in Growing(E, C)
<1>1. /\ st.count \in Counts /\ st.io \in Nat /\ st.boot \in Nat /\ st.disks \in Seq(E)
      /\ st.leases \in Seq(Leases) /\ st.ctrls \in Seq(C)
  BY DEF Growing
<1> DEFINE type == CtrlType(d.Bus)
           model == CtrlModel(d.Bus)
<1>3. type \in {"scsi", "sata", "virtio"} BY ControllerTypes DEF Disk
<1> HIDE DEF type, model
<1>5. [st.count EXCEPT ![type] = @ + 1] \in Counts BY <1>1, <1>3 DEF Counts
<1>6. IoThreads(st, d) \in Nat BY <1>1 DEF IoThreads
<1>9. vmdef_lease(d) \in Leases BY DEF Leases
<1>10. Append(st.disks, domain_disk(st, d)) \in Seq(E) BY <1>1
<1>11. (IF model = "" THEN st.ctrls ELSE Append(st.ctrls, domain_controller(st, d))) \in Seq(C)
  <2>1. Append(st.ctrls, domain_controller(st, d)) \in Seq(C) BY <1>1
  <2> QED BY <1>1, <2>1
<1>12. (IF d.Man = "UNMANAGED" THEN st.leases ELSE Append(st.leases, vmdef_lease(d))) \in Seq(Leases)
  BY <1>1, <1>9
<1>13. (IF Boots(st, d) THEN st.boot + 1 ELSE st.boot) \in Nat BY <1>1
<1> QED BY <1>5, <1>6, <1>10, <1>11, <1>12, <1>13 DEF Disk_to_xml, Growing, type, model

\* A longer sequence: what Append makes of s.
Longer(s, t, e) ==
  /\ Len(s) \in Nat /\ Len(t) = Len(s) + 1 /\ t[Len(s) + 1] = e
  /\ DOMAIN s = 1..Len(s) /\ DOMAIN t = 1..(Len(s) + 1)
  /\ \A i \in 1..Len(s) : t[i] = s[i]

\* Append makes a sequence longer.
LEMMA AppendLonger == ASSUME NEW S, NEW s \in Seq(S), NEW e \in S PROVE Longer(s, Append(s, e), e)
BY DEF Longer

\* The device names so far: letters below the counts.
NamesFit(st) ==
  /\ \A i \in DOMAIN st.disks :
       LET dev == st.disks[i].target.dev IN
       \/ dev[1] = "vd" /\ dev[2] \in 0..(st.count.virtio - 1)
       \/ dev[1] = "sd" /\ dev[2] \in 1..((st.count.scsi + st.count.sata) - 1)
  /\ \A i, j \in DOMAIN st.disks : st.disks[i].target.dev = st.disks[j].target.dev => i = j

\* The controllers so far are for SCSI, with numbers below the count; the disks on SCSI
\* have theirs.
ControllersFit(st) ==
  /\ \A j \in DOMAIN st.ctrls : st.ctrls[j].type = "scsi" /\ st.ctrls[j].index \in 0..(st.count.scsi - 1)
  /\ \A i, j \in DOMAIN st.ctrls : st.ctrls[i].index = st.ctrls[j].index => i = j
  /\ \A i \in DOMAIN st.disks : st.disks[i].controller # Absent =>
       \E j \in DOMAIN st.ctrls : /\ st.ctrls[j].type = st.disks[i].target.bus
                                  /\ st.ctrls[j].index = st.disks[i].controller
                                  /\ st.ctrls[j].model = st.disks[i].alias[4]

\* The I/O threads so far: numbers up to the count, each with one user.
ThreadsFit(st) ==
  LET D == st.disks
      C == st.ctrls
  IN
  /\ \A i \in DOMAIN D : D[i].io # Absent => D[i].io \in 1..st.io
  /\ \A i \in DOMAIN C : C[i].io # Absent => C[i].io \in 1..st.io
  /\ \A i, j \in DOMAIN D : D[i].io # Absent /\ D[i].io = D[j].io => i = j
  /\ \A i, j \in DOMAIN C : C[i].io # Absent /\ C[i].io = C[j].io => i = j
  /\ \A i \in DOMAIN D, j \in DOMAIN C : D[i].io # Absent => D[i].io # C[j].io

\* The boot orders so far.
BootsFit(st) ==
  LET D == st.disks IN
  /\ st.boot >= 1 /\ (st.boot = 1 <=> Len(D) = 0)
  /\ \A i \in DOMAIN D : D[i].boot # Absent => D[i].boot \in 1..(st.boot - 1)
  /\ \A i, j \in DOMAIN D : D[i].boot # Absent /\ D[i].boot = D[j].boot => i = j
  /\ Len(D) > 0 => D[1].boot = 1
  /\ \A i \in DOMAIN D : D[i].device = "cdrom" => D[i].boot # Absent

\* Every disk is counted once, and the controller of cloud-init with them.
CountsFit(st) ==
  /\ st.count \in Counts /\ st.count.scsi >= 1 /\ st.io \in Nat
  /\ st.count.scsi + st.count.sata + st.count.virtio = Len(st.disks) + 1

\* All of it.
Fit(st) == CountsFit(st) /\ NamesFit(st) /\ ControllersFit(st) /\ ThreadsFit(st) /\ BootsFit(st)

\* The XML without disks has nothing that collides.
LEMMA NoElementsFit == Fit(NoElements)
<1>1. CountsFit(NoElements) BY DEF CountsFit, NoElements, Counts
<1>2. NamesFit(NoElements) BY DEF NamesFit, NoElements
<1>3. ControllersFit(NoElements) BY DEF ControllersFit, NoElements
<1>4. ThreadsFit(NoElements) BY DEF ThreadsFit, NoElements
<1>5. BootsFit(NoElements) BY DEF BootsFit, NoElements
<1> QED BY <1>1, <1>2, <1>3, <1>4, <1>5 DEF Fit

\* What a disk adds.
Adds(st, d, t) ==
  /\ Longer(st.disks, t.disks, domain_disk(st, d))
  /\ IF CtrlModel(d.Bus) = "" THEN t.ctrls = st.ctrls
     ELSE Longer(st.ctrls, t.ctrls, domain_controller(st, d))
  /\ DOMAIN st.ctrls = 1..Len(st.ctrls) /\ Len(st.ctrls) \in Nat
  /\ t.count = [st.count EXCEPT ![CtrlType(d.Bus)] = @ + 1]
  /\ t.io = IoThreads(st, d)
  /\ t.boot = IF Boots(st, d) THEN st.boot + 1 ELSE st.boot
  /\ st.count \in Counts /\ st.io \in Nat /\ st.boot \in Nat

\* Disk_to_xml adds a disk.
LEMMA DiskAdds ==
  ASSUME NEW E, NEW C, NEW st \in Growing(E, C), NEW d \in Disk,
         domain_disk(st, d) \in E, domain_controller(st, d) \in C
  PROVE  Adds(st, d, Disk_to_xml(st, d))
<1>1. /\ st.count \in Counts /\ st.io \in Nat /\ st.boot \in Nat /\ st.disks \in Seq(E)
      /\ st.ctrls \in Seq(C)
  BY DEF Growing
<1>2. Longer(st.disks, Append(st.disks, domain_disk(st, d)), domain_disk(st, d)) BY <1>1, AppendLonger
<1>3. Longer(st.ctrls, Append(st.ctrls, domain_controller(st, d)), domain_controller(st, d))
  BY <1>1, AppendLonger
<1>4. DOMAIN st.ctrls = 1..Len(st.ctrls) /\ Len(st.ctrls) \in Nat BY <1>1
<1> QED BY <1>1, <1>2, <1>3, <1>4 DEF Disk_to_xml, Adds

\* With one more disk the counts are right.
LEMMA CountsStayFit ==
  ASSUME NEW st, NEW t, NEW d \in Disk, Adds(st, d, t), CountsFit(st)
  PROVE  CountsFit(t)
<1>1. CtrlType(d.Bus) \in {"scsi", "sata", "virtio"} BY ControllerTypes DEF Disk
<1>2. t.count = [st.count EXCEPT ![CtrlType(d.Bus)] = @ + 1] BY DEF Adds
<1>3. /\ st.count \in Counts /\ st.count.scsi >= 1 /\ st.io \in Nat
      /\ st.count.scsi + st.count.sata + st.count.virtio = Len(st.disks) + 1
  BY DEF CountsFit
<1>4. Len(st.disks) \in Nat /\ Len(t.disks) = Len(st.disks) + 1 BY DEF Adds, Longer
<1>5. t.io \in Nat
  <2>1. t.io = IoThreads(st, d) BY DEF Adds
  <2> QED BY <1>3, <2>1 DEF IoThreads
<1>6. /\ t.count \in Counts /\ t.count.scsi >= 1
      /\ t.count.scsi + t.count.sata + t.count.virtio = (st.count.scsi + st.count.sata + st.count.virtio) + 1
  <2>1. CASE CtrlType(d.Bus) = "scsi" BY <1>2, <1>3, <2>1 DEF Counts
  <2>2. CASE CtrlType(d.Bus) = "sata" BY <1>2, <1>3, <2>2 DEF Counts
  <2>3. CASE CtrlType(d.Bus) = "virtio" BY <1>2, <1>3, <2>3 DEF Counts
  <2> QED BY <1>1, <2>1, <2>2, <2>3
<1> QED BY <1>3, <1>4, <1>5, <1>6 DEF CountsFit

\* The name of one more disk is new: its letter is the count there was before it.
LEMMA NamesStayFit ==
  ASSUME NEW st, NEW t, NEW d \in Disk, Adds(st, d, t), CountsFit(st), NamesFit(st)
  PROVE  NamesFit(t)
<1> DEFINE n == Len(st.disks)
           type == CtrlType(d.Bus)
           a == st.count.virtio
           b == st.count.scsi + st.count.sata
           name(i) == st.disks[i].target.dev
           new == DeviceName(st, type)
<1>1. type \in {"scsi", "sata", "virtio"} BY ControllerTypes DEF Disk
<1>2. a \in Nat /\ b \in Nat /\ b >= 1 BY DEF CountsFit, Counts
<1>3. n \in Nat /\ DOMAIN st.disks = 1..n /\ DOMAIN t.disks = 1..(n + 1)
      /\ t.disks[n + 1] = domain_disk(st, d) /\ \A i \in 1..n : t.disks[i] = st.disks[i]
  BY DEF Adds, Longer
<1>4. \/ type = "virtio" /\ t.count.virtio = a + 1 /\ t.count.scsi + t.count.sata = b
      \/ type # "virtio" /\ t.count.virtio = a /\ t.count.scsi + t.count.sata = b + 1
  <2>1. t.count = [st.count EXCEPT ![type] = @ + 1] /\ st.count \in Counts BY DEF Adds
  <2> QED BY <1>1, <2>1 DEF Counts
<1>5. new = IF type = "virtio" THEN <<"vd", a>> ELSE <<"sd", b>> BY DEF DeviceName
<1>6. domain_disk(st, d).target.dev = new BY DEF domain_disk
<1>7. \A i \in 1..n : \/ name(i)[1] = "vd" /\ name(i)[2] \in 0..(a - 1)
                      \/ name(i)[1] = "sd" /\ name(i)[2] \in 1..(b - 1)
  BY <1>3 DEF NamesFit
<1>8. \A i, j \in 1..n : name(i) = name(j) => i = j BY <1>3 DEF NamesFit
<1>9. /\ t.disks[n + 1].target.dev = new
      /\ \A i \in 1..n : t.disks[i].target.dev = name(i)
  BY <1>3, <1>6
<1> HIDE DEF n, type, a, b, name, new
<1>10. \A i \in 1..n : name(i) # new
  <2> SUFFICES ASSUME NEW i \in 1..n, name(i) = new PROVE FALSE OBVIOUS
  <2>1. CASE type = "virtio" BY <1>2, <1>5, <1>7, <2>1
  <2>2. CASE type # "virtio" BY <1>2, <1>5, <1>7, <2>2
  <2> QED BY <2>1, <2>2
<1>11. ASSUME NEW i \in 1..(n + 1)
       PROVE  LET dev == t.disks[i].target.dev IN
              \/ dev[1] = "vd" /\ dev[2] \in 0..(t.count.virtio - 1)
              \/ dev[1] = "sd" /\ dev[2] \in 1..((t.count.scsi + t.count.sata) - 1)
  <2> DEFINE A == t.count.virtio
             B == t.count.scsi + t.count.sata
             dev == t.disks[i].target.dev
  <2>1. (type = "virtio" /\ A = a + 1 /\ B = b) \/ (type # "virtio" /\ A = a /\ B = b + 1) BY <1>4
  <2>2. i \in 1..n \/ i = n + 1 BY <1>3
  <2> SUFFICES \/ dev[1] = "vd" /\ dev[2] \in 0..(A - 1)
               \/ dev[1] = "sd" /\ dev[2] \in 1..(B - 1)
    OBVIOUS
  <2> HIDE DEF A, B
  <2>3. CASE i \in 1..n
    <3>1. dev = name(i) BY <1>9, <2>3
    <3> QED BY <1>2, <1>7, <2>1, <2>3, <3>1
  <2>4. CASE i = n + 1
    <3>1. dev = new BY <1>9, <2>4
    <3> QED BY <1>2, <1>5, <2>1, <3>1
  <2> QED BY <2>2, <2>3, <2>4
<1>12. ASSUME NEW i \in 1..(n + 1), NEW j \in 1..(n + 1), t.disks[i].target.dev = t.disks[j].target.dev
       PROVE  i = j
  <2>1. (i \in 1..n \/ i = n + 1) /\ (j \in 1..n \/ j = n + 1) BY <1>3
  <2> QED BY <1>8, <1>9, <1>10, <1>12, <2>1
<1> QED BY <1>3, <1>11, <1>12 DEF NamesFit

\* The controller of one more disk is new, and the disk is addressed to it.
LEMMA ControllersStayFit ==
  ASSUME NEW st, NEW t, NEW d \in Disk, Adds(st, d, t), CountsFit(st), ControllersFit(st)
  PROVE  ControllersFit(t)
<1> DEFINE n == Len(st.disks)
           m == Len(st.ctrls)
           type == CtrlType(d.Bus)
           model == CtrlModel(d.Bus)
           k == st.count.scsi
           e == domain_disk(st, d)
           c == domain_controller(st, d)
<1>1. type \in {"scsi", "sata", "virtio"} /\ (type = "scsi" <=> model # "") BY ControllerTypes DEF Disk
<1>2. k \in Nat /\ k >= 1 BY DEF CountsFit, Counts
<1>3. n \in Nat /\ DOMAIN st.disks = 1..n /\ DOMAIN t.disks = 1..(n + 1)
      /\ t.disks[n + 1] = e /\ \A i \in 1..n : t.disks[i] = st.disks[i]
  BY DEF Adds, Longer
<1>4. m \in Nat /\ DOMAIN st.ctrls = 1..m BY DEF Adds
<1>5. t.count = [st.count EXCEPT ![type] = @ + 1] /\ st.count \in Counts BY DEF Adds
<1>6. /\ e.target.bus = type /\ e.alias[4] = model
      /\ e.controller = IF model = "" THEN Absent ELSE st.count[type]
  BY DEF domain_disk
<1>7. c.type = type /\ c.index = st.count[type] /\ c.model = model BY DEF domain_controller
<1>8. IF model = "" THEN t.ctrls = st.ctrls
      ELSE /\ DOMAIN t.ctrls = 1..(m + 1) /\ t.ctrls[m + 1] = c
           /\ \A i \in 1..m : t.ctrls[i] = st.ctrls[i]
  BY DEF Adds, Longer
<1>9. /\ \A j \in 1..m : st.ctrls[j].type = "scsi" /\ st.ctrls[j].index \in 0..(k - 1)
      /\ \A i, j \in 1..m : st.ctrls[i].index = st.ctrls[j].index => i = j
  BY <1>4 DEF ControllersFit
<1>10. \A i \in 1..n : st.disks[i].controller # Absent =>
         \E j \in 1..m : /\ st.ctrls[j].type = st.disks[i].target.bus
                         /\ st.ctrls[j].index = st.disks[i].controller
                         /\ st.ctrls[j].model = st.disks[i].alias[4]
  BY <1>3, <1>4 DEF ControllersFit
<1> HIDE DEF n, m, type, model, e, c
<1>11. CASE model = ""
  <2>1. t.count.scsi = k BY <1>1, <1>5, <1>11 DEF Counts
  <2>2. t.ctrls = st.ctrls /\ e.controller = Absent BY <1>6, <1>8, <1>11
  <2> HIDE DEF k
  <2>3. \A i \in 1..(n + 1) : t.disks[i].controller # Absent =>
          \E j \in 1..m : /\ st.ctrls[j].type = t.disks[i].target.bus
                          /\ st.ctrls[j].index = t.disks[i].controller
                          /\ st.ctrls[j].model = t.disks[i].alias[4]
    <3> SUFFICES ASSUME NEW i \in 1..(n + 1), t.disks[i].controller # Absent
                 PROVE  i \in 1..n /\ t.disks[i] = st.disks[i]
      BY <1>10
    <3>1. i # n + 1 BY <1>3, <2>2
    <3>2. i \in 1..n BY <1>3, <3>1
    <3> QED BY <1>3, <3>2
  <2>4. DOMAIN t.ctrls = 1..m BY <1>4, <2>2
  <2>5. \A j \in 1..m : t.ctrls[j].type = "scsi" /\ t.ctrls[j].index \in 0..(t.count.scsi - 1)
    BY <1>9, <2>1, <2>2
  <2>6. \A i, j \in 1..m : t.ctrls[i].index = t.ctrls[j].index => i = j BY <1>9, <2>2
  <2> QED BY <1>3, <2>2, <2>3, <2>4, <2>5, <2>6 DEF ControllersFit
<1>12. CASE model # ""
  <2>1. type = "scsi" /\ t.count.scsi = k + 1 BY <1>1, <1>5, <1>12 DEF Counts
  <2>2. /\ DOMAIN t.ctrls = 1..(m + 1) /\ t.ctrls[m + 1] = c
        /\ \A i \in 1..m : t.ctrls[i] = st.ctrls[i]
    BY <1>8, <1>12
  <2>3. c.type = "scsi" /\ c.index = k /\ c.model = model /\ e.controller = k BY <1>6, <1>7, <1>12, <2>1
  <2> HIDE DEF k
  <2>4. \A j \in 1..(m + 1) : t.ctrls[j].type = "scsi" /\ t.ctrls[j].index \in 0..((k + 1) - 1)
    <3> SUFFICES ASSUME NEW j \in 1..(m + 1)
                 PROVE  t.ctrls[j].type = "scsi" /\ t.ctrls[j].index \in 0..((k + 1) - 1)
      OBVIOUS
    <3>1. j \in 1..m \/ j = m + 1 BY <1>4
    <3> QED BY <1>2, <1>9, <2>2, <2>3, <3>1
  <2>5. \A i, j \in 1..(m + 1) : t.ctrls[i].index = t.ctrls[j].index => i = j
    <3> SUFFICES ASSUME NEW i \in 1..(m + 1), NEW j \in 1..(m + 1), t.ctrls[i].index = t.ctrls[j].index
                 PROVE  i = j
      OBVIOUS
    <3>1. (j \in 1..m \/ j = m + 1) /\ (i \in 1..m \/ i = m + 1) BY <1>4
    <3>2. \A x \in 1..m : t.ctrls[x].index = st.ctrls[x].index /\ st.ctrls[x].index # k
      BY <1>2, <1>9, <2>2
    <3> QED BY <1>9, <2>2, <2>3, <3>1, <3>2
  <2>6. \A i \in 1..(n + 1) : t.disks[i].controller # Absent =>
          \E j \in 1..(m + 1) : /\ t.ctrls[j].type = t.disks[i].target.bus
                                /\ t.ctrls[j].index = t.disks[i].controller
                                /\ t.ctrls[j].model = t.disks[i].alias[4]
    <3> SUFFICES ASSUME NEW i \in 1..(n + 1), t.disks[i].controller # Absent
                 PROVE  \E j \in 1..(m + 1) : /\ t.ctrls[j].type = t.disks[i].target.bus
                                              /\ t.ctrls[j].index = t.disks[i].controller
                                              /\ t.ctrls[j].model = t.disks[i].alias[4]
      OBVIOUS
    <3>1. CASE i = n + 1
      <4>1. t.disks[i] = e BY <1>3, <3>1
      <4>2. m + 1 \in 1..(m + 1) BY <1>4
      <4> QED BY <1>6, <2>1, <2>2, <2>3, <4>1, <4>2
    <3>2. CASE i \in 1..n
      <4>1. t.disks[i] = st.disks[i] BY <1>3, <3>2
      <4>2. PICK j \in 1..m : /\ st.ctrls[j].type = st.disks[i].target.bus
                              /\ st.ctrls[j].index = st.disks[i].controller
                              /\ st.ctrls[j].model = st.disks[i].alias[4]
        BY <1>10, <3>2, <4>1
      <4>3. j \in 1..(m + 1) /\ t.ctrls[j] = st.ctrls[j] BY <1>4, <2>2
      <4> QED BY <4>1, <4>2, <4>3
    <3>3. i \in 1..n \/ i = n + 1 BY <1>3
    <3> QED BY <3>1, <3>2, <3>3
  <2> QED BY <1>3, <2>1, <2>2, <2>4, <2>5, <2>6 DEF ControllersFit
<1> QED BY <1>11, <1>12

\* The I/O thread of one more disk is new, and only it or its controller has it.
LEMMA ThreadsStayFit ==
  ASSUME NEW st, NEW t, NEW d \in Disk, Adds(st, d, t), CountsFit(st), ThreadsFit(st)
  PROVE  ThreadsFit(t)
<1> DEFINE n == Len(st.disks)
           m == Len(st.ctrls)
           k == st.io
           D == st.disks
           C == st.ctrls
           newD == t.disks
           newC == t.ctrls
           e == domain_disk(st, d)
           c == domain_controller(st, d)
<1>1. k \in Nat /\ Absent \notin Int BY VmdefAssumption DEF CountsFit
<1>2. n \in Nat /\ DOMAIN D = 1..n /\ DOMAIN newD = 1..(n + 1)
      /\ newD[n + 1] = e /\ \A i \in 1..n : newD[i] = D[i]
  BY DEF Adds, Longer
<1>3. m \in Nat /\ DOMAIN C = 1..m BY DEF Adds
<1>4. t.io = IF d.Bus \in {"VIRTIO_SCSI", "VIRTIO_BLK"} THEN k + 1 ELSE k BY DEF Adds, IoThreads, Threaded
<1>5. e.io = IF d.Bus = "VIRTIO_BLK" THEN k + 1 ELSE Absent BY DEF domain_disk, IoThreads, Threaded
<1>6. c.io = IF d.Bus \in {"VIRTIO_SCSI", "VIRTIO_BLK"} THEN k + 1 ELSE Absent
  BY DEF domain_controller, IoThreads, Threaded
<1>7. \/ newC = C
      \/ /\ DOMAIN newC = 1..(m + 1) /\ newC[m + 1] = c /\ d.Bus # "VIRTIO_BLK"
         /\ \A i \in 1..m : newC[i] = C[i]
  <2>1. IF CtrlModel(d.Bus) = "" THEN newC = C ELSE Longer(C, newC, c) BY DEF Adds
  <2>2. CtrlModel(d.Bus) # "" => d.Bus # "VIRTIO_BLK" BY DEF CtrlModel
  <2> QED BY <2>1, <2>2 DEF Longer
<1>8. /\ \A i \in 1..n : D[i].io # Absent => D[i].io \in 1..k
      /\ \A i \in 1..m : C[i].io # Absent => C[i].io \in 1..k
      /\ \A i, j \in 1..n : D[i].io # Absent /\ D[i].io = D[j].io => i = j
      /\ \A i, j \in 1..m : C[i].io # Absent /\ C[i].io = C[j].io => i = j
      /\ \A i \in 1..n, j \in 1..m : D[i].io # Absent => D[i].io # C[j].io
  BY <1>2, <1>3 DEF ThreadsFit
<1> SUFFICES /\ \A i \in DOMAIN newD : newD[i].io # Absent => newD[i].io \in 1..t.io
             /\ \A i \in DOMAIN newC : newC[i].io # Absent => newC[i].io \in 1..t.io
             /\ \A i, j \in DOMAIN newD : newD[i].io # Absent /\ newD[i].io = newD[j].io => i = j
             /\ \A i, j \in DOMAIN newC : newC[i].io # Absent /\ newC[i].io = newC[j].io => i = j
             /\ \A i \in DOMAIN newD, j \in DOMAIN newC : newD[i].io # Absent => newD[i].io # newC[j].io
  BY DEF ThreadsFit
<1>9. t.io \in {k, k + 1} BY <1>4
<1> HIDE DEF n, m, k, D, C, newD, newC, e, c
<1>10. \A i \in DOMAIN newD : \/ i \in 1..n /\ newD[i].io = D[i].io
                              \/ i = n + 1 /\ newD[i].io = e.io
  <2> SUFFICES ASSUME NEW i \in 1..(n + 1)
               PROVE  (i \in 1..n /\ newD[i].io = D[i].io) \/ (i = n + 1 /\ newD[i].io = e.io)
    BY <1>2
  <2>1. i \in 1..n \/ i = n + 1 BY <1>2
  <2> QED BY <1>2, <2>1
<1>11. \A i \in DOMAIN newC : \/ i \in 1..m /\ newC[i].io = C[i].io
                              \/ i = m + 1 /\ newC[i].io = c.io /\ d.Bus # "VIRTIO_BLK"
  <2>1. CASE newC = C BY <1>3, <2>1
  <2>2. CASE /\ DOMAIN newC = 1..(m + 1) /\ newC[m + 1] = c /\ d.Bus # "VIRTIO_BLK"
             /\ \A i \in 1..m : newC[i] = C[i]
    <3> SUFFICES ASSUME NEW i \in 1..(m + 1)
                 PROVE  (i \in 1..m /\ newC[i].io = C[i].io) \/ (i = m + 1 /\ newC[i].io = c.io)
      BY <2>2
    <3>1. i \in 1..m \/ i = m + 1 BY <1>3
    <3> QED BY <2>2, <3>1
  <2> QED BY <1>7, <2>1, <2>2
<1>12. e.io # Absent => e.io = k + 1 /\ t.io = k + 1 /\ d.Bus = "VIRTIO_BLK" BY <1>4, <1>5
<1>13. c.io # Absent => c.io = k + 1 /\ t.io = k + 1 BY <1>4, <1>6
<1>14. \A i \in DOMAIN newD : newD[i].io # Absent => newD[i].io \in 1..t.io
  BY <1>1, <1>8, <1>9, <1>10, <1>12
<1>15. \A i \in DOMAIN newC : newC[i].io # Absent => newC[i].io \in 1..t.io
  BY <1>1, <1>8, <1>9, <1>11, <1>13
<1>16. \A x \in 1..k : x # k + 1 BY <1>1
<1>17. \A i, j \in DOMAIN newD : newD[i].io # Absent /\ newD[i].io = newD[j].io => i = j
  BY <1>8, <1>10, <1>12, <1>16
<1>18. \A i, j \in DOMAIN newC : newC[i].io # Absent /\ newC[i].io = newC[j].io => i = j
  BY <1>8, <1>11, <1>13, <1>16
<1>19. \A i \in DOMAIN newD, j \in DOMAIN newC : newD[i].io # Absent => newD[i].io # newC[j].io
  BY <1>8, <1>10, <1>11, <1>12, <1>13, <1>16
<1> QED BY <1>14, <1>15, <1>17, <1>18, <1>19

\* The boot order of one more disk is new, and 1 only for the first.
LEMMA BootsStayFit ==
  ASSUME NEW st, NEW t, NEW d \in Disk, Adds(st, d, t), BootsFit(st)
  PROVE  BootsFit(t)
<1> DEFINE n == Len(st.disks)
           k == st.boot
           D == st.disks
           newD == t.disks
           e == domain_disk(st, d)
<1>1. k \in Nat /\ Absent \notin Int BY VmdefAssumption DEF Adds
<1>2. n \in Nat /\ DOMAIN D = 1..n /\ DOMAIN newD = 1..(n + 1) /\ Len(newD) = n + 1
      /\ newD[n + 1] = e /\ \A i \in 1..n : newD[i] = D[i]
  BY DEF Adds, Longer
<1>3. t.boot = IF k = 1 \/ d.Device = "CDROM" THEN k + 1 ELSE k BY DEF Adds, Boots
<1>4. e.boot = IF k = 1 \/ d.Device = "CDROM" THEN k ELSE Absent BY DEF domain_disk, Boots
<1>5. e.device = "cdrom" => d.Device = "CDROM"
  <2>1. e.device = DeviceString[d.Device] BY DEF domain_disk
  <2>2. d.Device \in DiskDevice BY DEF Disk
  <2> QED BY <2>1, <2>2 DEF DiskDevice, DeviceString
<1>6. /\ k >= 1 /\ (k = 1 <=> n = 0)
      /\ \A i \in 1..n : D[i].boot # Absent => D[i].boot \in 1..(k - 1)
      /\ \A i, j \in 1..n : D[i].boot # Absent /\ D[i].boot = D[j].boot => i = j
      /\ n > 0 => D[1].boot = 1
      /\ \A i \in 1..n : D[i].device = "cdrom" => D[i].boot # Absent
  BY <1>2 DEF BootsFit
<1> SUFFICES /\ t.boot >= 1 /\ (t.boot = 1 <=> Len(newD) = 0)
             /\ \A i \in DOMAIN newD : newD[i].boot # Absent => newD[i].boot \in 1..(t.boot - 1)
             /\ \A i, j \in DOMAIN newD : newD[i].boot # Absent /\ newD[i].boot = newD[j].boot => i = j
             /\ Len(newD) > 0 => newD[1].boot = 1
             /\ \A i \in DOMAIN newD : newD[i].device = "cdrom" => newD[i].boot # Absent
  BY DEF BootsFit
<1> HIDE DEF n, k, D, newD, e
<1>7. \A i \in DOMAIN newD : (i \in 1..n /\ newD[i] = D[i]) \/ (i = n + 1 /\ newD[i] = e)
  <2> SUFFICES ASSUME NEW i \in 1..(n + 1)
               PROVE  (i \in 1..n /\ newD[i] = D[i]) \/ (i = n + 1 /\ newD[i] = e)
    BY <1>2
  <2>1. i \in 1..n \/ i = n + 1 BY <1>2
  <2> QED BY <1>2, <2>1
<1>8. t.boot \in {k, k + 1} /\ (e.boot # Absent => e.boot = k /\ t.boot = k + 1) BY <1>3, <1>4
<1>9. t.boot >= 1 /\ (t.boot = 1 <=> Len(newD) = 0) BY <1>1, <1>2, <1>3, <1>6
<1>10. \A i \in DOMAIN newD : newD[i].boot # Absent => newD[i].boot \in 1..(t.boot - 1)
  BY <1>1, <1>6, <1>7, <1>8
<1>11. \A x \in 1..(k - 1) : x # k BY <1>1
<1>12. \A i, j \in DOMAIN newD : newD[i].boot # Absent /\ newD[i].boot = newD[j].boot => i = j
  BY <1>6, <1>7, <1>8, <1>11
<1>13. newD[1].boot = 1
  <2>1. CASE n = 0 BY <1>2, <1>4, <1>6, <2>1
  <2>2. CASE n # 0
    <3>1. n > 0 /\ 1 \in 1..n BY <1>2, <2>2
    <3> QED BY <1>2, <1>6, <3>1
  <2> QED BY <2>1, <2>2
<1>14. \A i \in DOMAIN newD : newD[i].device = "cdrom" => newD[i].boot # Absent
  BY <1>1, <1>4, <1>5, <1>6, <1>7
<1> QED BY <1>9, <1>10, <1>12, <1>13, <1>14

\* So nothing collides with one more disk.
LEMMA StaysFit ==
  ASSUME NEW st, NEW t, NEW d \in Disk, Adds(st, d, t), Fit(st)
  PROVE  Fit(t)
BY CountsStayFit, NamesStayFit, ControllersStayFit, ThreadsStayFit, BootsStayFit DEF Fit

-----------------------------------------------------------------------------
(* Vmdef: the leases                                                        *)

\* The managed ones among the first n disks.
Managed(ds, n) == {k \in 1..n : ds[k].Man = "MANAGED"}

\* One more disk is one more managed disk, or none.
LEMMA ManagedCount ==
  ASSUME NEW ds, NEW n \in Nat
  PROVE  /\ Cardinality(Managed(ds, n)) \in Nat
         /\ n = 0 => Cardinality(Managed(ds, n)) = 0
         /\ ds[n + 1].Man = "MANAGED" =>
              Cardinality(Managed(ds, n + 1)) = Cardinality(Managed(ds, n)) + 1
         /\ ds[n + 1].Man # "MANAGED" => Managed(ds, n + 1) = Managed(ds, n)
<1>1. IsFiniteSet(Managed(ds, n))
  <2>1. IsFiniteSet(1..n) BY FS_Interval
  <2>2. Managed(ds, n) \subseteq 1..n BY DEF Managed
  <2> QED BY <2>1, <2>2, FS_Subset
<1>2. Cardinality(Managed(ds, n)) \in Nat BY <1>1, FS_CardinalityType
<1>3. n = 0 => Managed(ds, n) = {} BY DEF Managed
<1>4. ds[n + 1].Man = "MANAGED" => Managed(ds, n + 1) = Managed(ds, n) \cup {n + 1} BY DEF Managed
<1>5. ds[n + 1].Man # "MANAGED" => Managed(ds, n + 1) = Managed(ds, n) BY DEF Managed
<1>6. n + 1 \notin Managed(ds, n) BY DEF Managed
<1>7. Cardinality(Managed(ds, n) \cup {n + 1}) = Cardinality(Managed(ds, n)) + 1
  BY <1>1, <1>6, FS_AddElement
<1> QED BY <1>2, <1>3, <1>4, <1>5, <1>7, FS_EmptySet

\* The place of a managed disk's lease is among those there are.
LEMMA LeasePlace ==
  ASSUME NEW ds, NEW n \in Nat, NEW i \in Managed(ds, n)
  PROVE  Cardinality(Managed(ds, i)) \in 1..Cardinality(Managed(ds, n))
<1>1. i \in 1..n /\ i \in Nat /\ ds[i].Man = "MANAGED" BY DEF Managed
<1>2. IsFiniteSet(Managed(ds, n))
  <2>1. IsFiniteSet(1..n) BY FS_Interval
  <2>2. Managed(ds, n) \subseteq 1..n BY DEF Managed
  <2> QED BY <2>1, <2>2, FS_Subset
<1>3. Managed(ds, i) \subseteq Managed(ds, n) /\ i \in Managed(ds, i) BY <1>1 DEF Managed
<1>4. IsFiniteSet(Managed(ds, i)) /\ Cardinality(Managed(ds, i)) <= Cardinality(Managed(ds, n))
  BY <1>2, <1>3, FS_Subset
<1>5. Cardinality(Managed(ds, i)) \in Nat /\ Cardinality(Managed(ds, n)) \in Nat /\ Cardinality(Managed(ds, i)) # 0
  BY <1>2, <1>3, <1>4, FS_CardinalityType, FS_EmptySet
<1> QED BY <1>4, <1>5

\* The leases are those of the managed disks, in their order.
LeasesMatch(ls, ds, n) ==
  /\ Len(ls) = Cardinality(Managed(ds, n))
  /\ \A i \in Managed(ds, n) : ls[Cardinality(Managed(ds, i))] = vmdef_lease(ds[i])

\* They still are with the lease of one more disk.
LEMMA LeasesStayMatched ==
  ASSUME NEW ds, NEW n \in Nat, ds[n + 1] \in Disk, NEW ls \in Seq(Leases), LeasesMatch(ls, ds, n)
  PROVE  LeasesMatch(IF ds[n + 1].Man = "UNMANAGED" THEN ls ELSE Append(ls, vmdef_lease(ds[n + 1])), ds, n + 1)
<1>1. ds[n + 1].Man \in {"UNMANAGED", "MANAGED"} BY DEF Disk, DiskManMode
<1>2. CASE ds[n + 1].Man = "UNMANAGED"
  <2>1. Managed(ds, n + 1) = Managed(ds, n) BY <1>2, ManagedCount
  <2> QED BY <1>2, <2>1 DEF LeasesMatch
<1>3. CASE ds[n + 1].Man = "MANAGED"
  <2> DEFINE e == vmdef_lease(ds[n + 1])
             new == Append(ls, e)
             m == Cardinality(Managed(ds, n))
  <2>1. e \in Leases BY DEF Leases
  <2>2. Len(ls) = m BY DEF LeasesMatch
  <2> HIDE DEF e
  <2>3. /\ Len(new) = Len(ls) + 1 /\ new[Len(ls) + 1] = e
        /\ \A k \in 1..Len(ls) : new[k] = ls[k]
    BY <2>1
  <2>4. m \in Nat /\ Cardinality(Managed(ds, n + 1)) = m + 1 BY <1>3, ManagedCount
  <2> HIDE DEF new, m
  <2>5. ASSUME NEW i \in Managed(ds, n + 1)
        PROVE  new[Cardinality(Managed(ds, i))] = vmdef_lease(ds[i])
    <3>1. i = n + 1 \/ i \in Managed(ds, n) BY DEF Managed
    <3>2. CASE i = n + 1 BY <2>2, <2>3, <2>4, <3>2 DEF e
    <3>3. CASE i \in Managed(ds, n)
      <4>1. Cardinality(Managed(ds, i)) \in 1..Len(ls) BY <2>2, <3>3, LeasePlace DEF m
      <4>2. ls[Cardinality(Managed(ds, i))] = vmdef_lease(ds[i]) BY <3>3 DEF LeasesMatch
      <4> QED BY <2>3, <4>1, <4>2
    <3> QED BY <3>1, <3>2, <3>3
  <2>6. LeasesMatch(new, ds, n + 1) BY <2>2, <2>3, <2>4, <2>5 DEF LeasesMatch
  <2> QED BY <1>3, <2>6 DEF new, e
<1> QED BY <1>1, <1>2, <1>3

-----------------------------------------------------------------------------
(* Vmdef: any number of disks                                               *)

\* What To_xml's loop makes of any disks.
Good(st, ds, n) ==
  /\ Fit(st) /\ Len(st.disks) = n /\ DOMAIN st.disks = 1..n
  /\ DOMAIN st.ctrls = 1..Len(st.ctrls) /\ Len(st.ctrls) \in Nat
  /\ \A i \in 1..n : vmdef_disk_from_xml(st.disks[i]) = KeptDisk(ds[i])
  /\ LeasesMatch(st.leases, ds, n)

\* After any number of disks: by induction over the loop.
LEMMA ElementsGood ==
  ASSUME NEW ds \in Seq(Disk)
  PROVE  Good(Elements(ds), ds, Len(ds))
<1>0. Len(ds) \in Nat OBVIOUS
<1>1. PICK st : /\ Elements(ds) = st[Len(ds)]
                /\ st[0] = NoElements
                /\ \A i \in 1..Len(ds) : st[i] = Disk_to_xml(st[i - 1], ds[i])
  BY <1>0, LoopOverDisks, Zenon
<1> DEFINE E == {domain_disk(st[i - 1], ds[i]) : i \in 1..Len(ds)}
           C == {NoElements.ctrls[1]} \cup {domain_controller(st[i - 1], ds[i]) : i \in 1..Len(ds)}
           Inv(n) == st[n] \in Growing(E, C) /\ Good(st[n], ds, n)
<1>2. Inv(0)
  <2>1. NoElements \in Growing(E, C)
    <3>1. NoElements.ctrls[1] \in C OBVIOUS
    <3>2. NoElements.ctrls = <<NoElements.ctrls[1]>> BY DEF NoElements
    <3>3. NoElements.ctrls \in Seq(C)
      <4> HIDE DEF C
      <4>1. PICK x \in C : x = NoElements.ctrls[1] BY <3>1
      <4>2. <<x>> \in Seq(C) OBVIOUS
      <4> QED BY <3>2, <4>1, <4>2
    <3> HIDE DEF C, E
    <3> QED BY <3>3 DEF NoElements, Growing, Counts
  <2>2. Good(NoElements, ds, 0)
    <3>1. LeasesMatch(<<>>, ds, 0)
      <4>1. Managed(ds, 0) = {} BY DEF Managed
      <4> QED BY <4>1, FS_EmptySet DEF LeasesMatch
    <3>2. NoElements.leases = <<>> /\ NoElements.disks = <<>> /\ Len(NoElements.ctrls) = 1
          /\ DOMAIN NoElements.ctrls = 1..1
      BY DEF NoElements
    <3> QED BY <3>1, <3>2, NoElementsFit DEF Good
  <2> QED BY <1>1, <2>1, <2>2
<1>3. ASSUME NEW n \in 0..(Len(ds) - 1), Inv(n) PROVE Inv(n + 1)
  <2>1. n + 1 \in 1..Len(ds) /\ n \in Nat /\ (n + 1) - 1 = n BY <1>0
  <2> DEFINE s == st[n]
             d == ds[n + 1]
             t == st[n + 1]
  <2>2. t = Disk_to_xml(s, d) /\ d \in Disk BY <1>1, <2>1
  <2>3. domain_disk(s, d) \in E /\ domain_controller(s, d) \in C BY <2>1
  <2>4. s \in Growing(E, C) /\ Good(s, ds, n) BY <1>3
  <2> HIDE DEF s, t, E, C
  <2>5. t \in Growing(E, C) BY <2>2, <2>3, <2>4, DiskTypes
  <2>6. Adds(s, d, t) BY <2>2, <2>3, <2>4, DiskAdds
  <2>7. Fit(t) BY <2>2, <2>4, <2>6, StaysFit DEF Good
  <2>8. /\ Len(s.disks) = n /\ Len(t.disks) = n + 1 /\ DOMAIN t.disks = 1..(n + 1)
        /\ t.disks[n + 1] = domain_disk(s, d) /\ \A i \in 1..n : t.disks[i] = s.disks[i]
    BY <2>4, <2>6 DEF Good, Adds, Longer
  <2>9. \A i \in 1..(n + 1) : vmdef_disk_from_xml(t.disks[i]) = KeptDisk(ds[i])
    <3> SUFFICES ASSUME NEW i \in 1..(n + 1) PROVE vmdef_disk_from_xml(t.disks[i]) = KeptDisk(ds[i])
      OBVIOUS
    <3>1. CASE i = n + 1 BY <2>2, <2>8, <3>1, DiskReadBack
    <3>2. CASE i \in 1..n
      <4>1. vmdef_disk_from_xml(s.disks[i]) = KeptDisk(ds[i]) BY <2>4, <3>2 DEF Good
      <4> QED BY <2>8, <3>2, <4>1
    <3> QED BY <2>1, <3>1, <3>2
  <2>10. LeasesMatch(t.leases, ds, n + 1)
    <3>1. s.leases \in Seq(Leases) BY <2>4 DEF Growing
    <3>2. t.leases = IF d.Man = "UNMANAGED" THEN s.leases ELSE Append(s.leases, vmdef_lease(d))
      BY <2>2 DEF Disk_to_xml
    <3>3. LeasesMatch(s.leases, ds, n) BY <2>4 DEF Good
    <3> QED BY <2>1, <2>2, <3>1, <3>2, <3>3, LeasesStayMatched
  <2>11. DOMAIN t.ctrls = 1..Len(t.ctrls) /\ Len(t.ctrls) \in Nat BY <2>5 DEF Growing
  <2>12. Good(t, ds, n + 1) BY <2>7, <2>8, <2>9, <2>10, <2>11 DEF Good
  <2> QED BY <2>5, <2>12 DEF t
<1> HIDE DEF Inv
<1>4. Inv(Len(ds))
  <2> DEFINE S == {n \in Nat : Inv(n)}
  <2>1. \A n \in 0..(Len(ds) - 1) : n \in S => n + 1 \in S BY <1>0, <1>3
  <2>2. 0 \in S BY <1>2
  <2> HIDE DEF S
  <2>3. Len(ds) \in S BY <1>0, <2>1, <2>2, InductionUpTo
  <2> QED BY <2>3 DEF S
<1> QED BY <1>1, <1>4 DEF Inv

-----------------------------------------------------------------------------
(* Vmdef: the XML                                                           *)

\* From_xml's loop over the elements finds the OS disk and the others.
LEMMA DisksReadBack ==
  ASSUME NEW es, NEW ds \in Seq(Disk), Len(ds) >= 1, Len(es) = Len(ds),
         es[1].boot = 1, \A i \in 2..Len(ds) : es[i].boot # 1,
         \A i \in 1..Len(ds) : vmdef_disk_from_xml(es[i]) = KeptDisk(ds[i])
  PROVE  /\ DisksFromXml(es).Osdisk = KeptDisk(ds[1])
         /\ DisksFromXml(es).Disks = [i \in 1..(Len(ds) - 1) |-> KeptDisk(ds[i + 1])]
<1> DEFINE N == Len(ds)
           K == {KeptDisk(d) : d \in Disk}
<1>0. N \in Nat /\ N >= 1 /\ Len(es) = N OBVIOUS
<1>1. PICK got : /\ DisksFromXml(es) = got[Len(es)]
                 /\ got[0] = NoDisks
                 /\ \A i \in 1..Len(es) : got[i] = AddDisk(got[i - 1], es[i])
  BY <1>0, LoopOverElements, Zenon
<1>2. \A i \in 1..N : vmdef_disk_from_xml(es[i]) = KeptDisk(ds[i]) /\ KeptDisk(ds[i]) \in K
  OBVIOUS
<1> DEFINE Inv(n) == got[n + 1] = [Osdisk |-> KeptDisk(ds[1]), Disks |-> [i \in 1..n |-> KeptDisk(ds[i + 1])]]
<1> HIDE DEF N, K
<1>3. Inv(0)
  <2>1. got[1] = AddDisk(got[0], es[1]) BY <1>0, <1>1
  <2>2. got[1] = [NoDisks EXCEPT !.Osdisk = vmdef_disk_from_xml(es[1])] BY <1>1, <2>1 DEF AddDisk
  <2>3. vmdef_disk_from_xml(es[1]) = KeptDisk(ds[1]) BY <1>0, <1>2
  <2>4. got[1] = [Osdisk |-> KeptDisk(ds[1]), Disks |-> <<>>] BY <2>2, <2>3 DEF NoDisks
  <2>5. <<>> = [i \in 1..0 |-> KeptDisk(ds[i + 1])] OBVIOUS
  <2> QED BY <2>4, <2>5
<1>4. ASSUME NEW n \in 0..((N - 1) - 1), Inv(n) PROVE Inv(n + 1)
  <2> DEFINE k == n + 1
             old == [i \in 1..n |-> KeptDisk(ds[i + 1])]
             e == KeptDisk(ds[k + 1])
  <2>1. n \in Nat /\ k + 1 \in 2..N /\ k + 1 \in 1..N /\ (k + 1) - 1 = k BY <1>0
  <2>2. got[k + 1] = AddDisk(got[k], es[k + 1]) BY <1>0, <1>1, <2>1
  <2>3. es[k + 1].boot # 1 /\ vmdef_disk_from_xml(es[k + 1]) = e /\ e \in K BY <1>2, <2>1 DEF N
  <2>4. got[k] = [Osdisk |-> KeptDisk(ds[1]), Disks |-> old] BY <1>4
  <2>5. old \in Seq(K) /\ Len(old) = n
    <3>1. \A i \in 1..n : KeptDisk(ds[i + 1]) \in K BY <1>0, <1>2, <2>1
    <3> QED BY <2>1, <3>1
  <2> HIDE DEF old, e, k
  <2>6. got[k + 1] = [Osdisk |-> KeptDisk(ds[1]), Disks |-> Append(old, e)]
    <3>1. got[k + 1] = [got[k] EXCEPT !.Disks = Append(got[k].Disks, e)] BY <2>2, <2>3 DEF AddDisk
    <3>2. got[k].Disks = old BY <2>4
    <3>3. \A a, x : [[Osdisk |-> a, Disks |-> old] EXCEPT !.Disks = x] = [Osdisk |-> a, Disks |-> x] OBVIOUS
    <3>4. got[k + 1] = [[Osdisk |-> KeptDisk(ds[1]), Disks |-> old] EXCEPT !.Disks = Append(old, e)]
      BY <2>4, <3>1, <3>2, Zenon
    <3> QED BY <3>3, <3>4, Zenon
  <2>7. Append(old, e) = [i \in 1..(n + 1) |-> KeptDisk(ds[i + 1])]
    <3> DEFINE new == [i \in 1..(n + 1) |-> KeptDisk(ds[i + 1])]
               app == Append(old, e)
    <3>1. app \in Seq(K) /\ Len(app) = n + 1 /\ app[n + 1] = e /\ \A i \in 1..n : app[i] = old[i]
      BY <2>1, <2>3, <2>5
    <3>2. DOMAIN app = 1..(n + 1) /\ app = [i \in 1..(n + 1) |-> app[i]]
      <4> HIDE DEF app
      <4> QED BY <2>1, <3>1
    <3>3. \A i \in 1..n : app[i] = new[i]
      <4> SUFFICES ASSUME NEW i \in 1..n PROVE app[i] = new[i] OBVIOUS
      <4>1. i \in 1..(n + 1) BY <2>1
      <4>2. new[i] = KeptDisk(ds[i + 1]) BY <4>1
      <4>3. old[i] = KeptDisk(ds[i + 1]) BY DEF old
      <4> HIDE DEF new, app
      <4> QED BY <3>1, <4>2, <4>3
    <3>4. app[n + 1] = new[n + 1] BY <2>1, <3>1 DEF e, k
    <3> HIDE DEF app
    <3>5. \A i \in 1..(n + 1) : app[i] = KeptDisk(ds[i + 1])
      <4> SUFFICES ASSUME NEW i \in 1..(n + 1) PROVE app[i] = new[i] OBVIOUS
      <4>1. i \in 1..n \/ i = n + 1 BY <2>1
      <4> HIDE DEF new
      <4> QED BY <3>3, <3>4, <4>1
    <3>6. app = new BY <3>2, <3>5
    <3> QED BY <3>6 DEF app
  <2> QED BY <2>6, <2>7 DEF k
<1> HIDE DEF Inv
<1>5. Inv(N - 1)
  <2> DEFINE S == {n \in Nat : Inv(n)}
  <2>0. N - 1 \in Nat BY <1>0
  <2>1. \A n \in 0..((N - 1) - 1) : n \in S => n + 1 \in S BY <1>0, <1>4
  <2>2. 0 \in S BY <1>3
  <2> HIDE DEF S
  <2>3. N - 1 \in S BY <2>0, <2>1, <2>2, InductionUpTo
  <2> QED BY <2>3 DEF S
<1>6. (N - 1) + 1 = N BY <1>0
<1>7. got[N] = [Osdisk |-> KeptDisk(ds[1]), Disks |-> [i \in 1..(N - 1) |-> KeptDisk(ds[i + 1])]]
  BY <1>5, <1>6 DEF Inv
<1> QED BY <1>0, <1>1, <1>7 DEF N

\* What libvirt changes in any XML.
DefinedMemory(m) == [value |-> IF m.unit = "MiB" THEN 1024 * m.value ELSE m.value, unit |-> "KiB"]
DefinedMode(mode) == IF mode = "" THEN "custom" ELSE mode
DefinedCpu(c) == [c EXCEPT !.mode = DefinedMode(c.mode)]
DefinedGenid(g) == IF g = "" THEN "generated" ELSE g
DefinedInterface(e) == [e EXCEPT !.mac = IF e.mac = Absent THEN "generated" ELSE e.mac]
DefinedInterfaces(f) == [i \in DOMAIN f |-> DefinedInterface(f[i])]

\* The XML with these elements.
Xml(t, p, o, c, m, b, u, s, d, k, l, f, g, a) ==
  [title |-> t, vcpus |-> p, iothreads |-> o, cpu |-> c, memory |-> m, backing |-> b,
   numatune |-> u, os |-> s, disks |-> d, controllers |-> k, leases |-> l,
   interfaces |-> f, genid |-> g, meta |-> a]

\* Only these elements are changed.
LEMMA DefinedFields ==
  ASSUME NEW t, NEW p, NEW o, NEW c, NEW m, NEW b, NEW u, NEW s, NEW d, NEW k, NEW l, NEW f, NEW g, NEW a
  PROVE  Defined(Xml(t, p, o, c, m, b, u, s, d, k, l, f, g, a))
         = Xml(t, p, o, DefinedCpu(c), DefinedMemory(m), b, u, s, d, k, l,
               DefinedInterfaces(f), DefinedGenid(g), a)
<1> DEFINE x == [title |-> t, vcpus |-> p, iothreads |-> o, cpu |-> c, memory |-> m, backing |-> b,
                 numatune |-> u, os |-> s, disks |-> d, controllers |-> k, leases |-> l,
                 interfaces |-> f, genid |-> g, meta |-> a]
<1>1. x.memory = m /\ x.cpu = c /\ x.genid = g /\ x.interfaces = f OBVIOUS
<1> HIDE DEF x
<1>2. Defined(x) = [x EXCEPT !.memory = DefinedMemory(x.memory), !.cpu.mode = DefinedMode(x.cpu.mode),
                             !.genid = DefinedGenid(x.genid), !.interfaces = DefinedInterfaces(x.interfaces)]
  BY DEF Defined, DefinedMemory, DefinedMode, DefinedGenid, DefinedInterfaces, DefinedInterface
<1>3. Defined(x) = [x EXCEPT !.memory = DefinedMemory(m), !.cpu.mode = DefinedMode(c.mode),
                             !.genid = DefinedGenid(g), !.interfaces = DefinedInterfaces(f)]
  BY <1>1, <1>2, Zenon
<1>4. Defined(x) = [x EXCEPT !.memory = DefinedMemory(m), !.cpu = [c EXCEPT !.mode = DefinedMode(c.mode)],
                             !.genid = DefinedGenid(g), !.interfaces = DefinedInterfaces(f)]
  BY <1>1, <1>3
<1>5. PICK c2, m2, f2, g2 : c2 = DefinedCpu(c) /\ m2 = DefinedMemory(m) /\ f2 = DefinedInterfaces(f)
                              /\ g2 = DefinedGenid(g)
  OBVIOUS
<1>6. Defined(x) = [x EXCEPT !.memory = m2, !.cpu = c2, !.genid = g2, !.interfaces = f2]
  BY <1>4, <1>5, Zenon DEF DefinedCpu
<1>7. [x EXCEPT !.memory = m2, !.cpu = c2, !.genid = g2, !.interfaces = f2]
        = [title |-> t, vcpus |-> p, iothreads |-> o, cpu |-> c2, memory |-> m2,
          backing |-> b, numatune |-> u, os |-> s, disks |-> d, controllers |-> k, leases |-> l,
          interfaces |-> f2, genid |-> g2, meta |-> a]
  <2> DEFINE x1 == [title |-> t, vcpus |-> p, iothreads |-> o, cpu |-> c, memory |-> m2,
                    backing |-> b, numatune |-> u, os |-> s, disks |-> d, controllers |-> k, leases |-> l,
                    interfaces |-> f, genid |-> g, meta |-> a]
             x2 == [title |-> t, vcpus |-> p, iothreads |-> o, cpu |-> c2, memory |-> m2,
                    backing |-> b, numatune |-> u, os |-> s, disks |-> d, controllers |-> k, leases |-> l,
                    interfaces |-> f, genid |-> g, meta |-> a]
             x3 == [title |-> t, vcpus |-> p, iothreads |-> o, cpu |-> c2, memory |-> m2,
                    backing |-> b, numatune |-> u, os |-> s, disks |-> d, controllers |-> k, leases |-> l,
                    interfaces |-> f, genid |-> g2, meta |-> a]
  <2>1. [x EXCEPT !.memory = m2] = x1 BY DEF x
  <2>2. [x1 EXCEPT !.cpu = c2] = x2 OBVIOUS
  <2>3. [x2 EXCEPT !.genid = g2] = x3 OBVIOUS
  <2>4. [x3 EXCEPT !.interfaces = f2] = [title |-> t, vcpus |-> p, iothreads |-> o, cpu |-> c2, memory |-> m2,
                                        backing |-> b, numatune |-> u, os |-> s, disks |-> d, controllers |-> k, leases |-> l,
                                        interfaces |-> f2, genid |-> g2, meta |-> a]
    OBVIOUS
  <2>5. [x EXCEPT !.memory = m2, !.cpu = c2, !.genid = g2, !.interfaces = f2]
          = [[[[x EXCEPT !.memory = m2] EXCEPT !.cpu = c2] EXCEPT !.genid = g2] EXCEPT !.interfaces = f2]
    OBVIOUS
  <2> HIDE DEF x1, x2, x3
  <2> QED BY <2>1, <2>2, <2>3, <2>4, <2>5, Zenon
<1>8. Defined(x) = [title |-> t, vcpus |-> p, iothreads |-> o, cpu |-> c2, memory |-> m2,
           backing |-> b, numatune |-> u, os |-> s, disks |-> d, controllers |-> k, leases |-> l,
           interfaces |-> f2, genid |-> g2, meta |-> a]
  BY <1>6, <1>7, Zenon
<1> QED BY <1>5, <1>8, Zenon DEF x, Xml

\* The XML libvirt keeps of a definition, with or without the firmware.
KeptInterface(v, n) ==
  [mac |-> IF n.Mac = "" THEN "generated" ELSE n.Mac,
   bridge |-> IF n.Nettype = "BRIDGE" THEN n.Name ELSE Absent,
   network |-> IF n.Nettype = "LIBVIRT" THEN n.Name ELSE Absent,
   vlan |-> IF v.Vlanid > 0 THEN v.Vlanid ELSE Absent,
   model |-> ModelString[n.Model]]

KeptCpu(v) ==
  [migratable |-> domain_cpu(v).migratable,
   mode |-> IF v.Cpudef.Model \in Modes THEN v.Cpudef.Model ELSE "custom",
   model |-> IF v.Cpudef.Model \in Modes THEN Absent ELSE v.Cpudef.Model,
   topology |-> <<v.Cpudef.Sockets, v.Cpudef.Cores, v.Cpudef.Threads>>,
   physbits |-> domain_cpu(v).physbits]

KeptXml(v, firmware) ==
  [title |-> v.Name, vcpus |-> vmdef_get_vcpus(v),
   iothreads |-> Elements(Disks(v)).io + Len(v.Nets),
   cpu |-> KeptCpu(v),
   memory |-> [value |-> 1024 * v.Memory.Total, unit |-> "KiB"], backing |-> domain_memory_backing(v),
   numatune |-> domain_numatune(v),
   os |-> [firmware |-> firmware, machine |-> Machine[v.Firmware], bios |-> v.Firmware = "BIOS"],
   disks |-> Elements(Disks(v)).disks, controllers |-> Elements(Disks(v)).ctrls,
   leases |-> Elements(Disks(v)).leases,
   interfaces |-> [i \in DOMAIN v.Nets |-> KeptInterface(v, v.Nets[i])],
   genid |-> IF v.Genid = "" THEN Absent ELSE IF v.Genid = "auto" THEN "generated" ELSE v.Genid,
   meta |-> MetaToXml(v.Custom)]

\* An interface that is defined has a MAC, and keeps it when it is defined anew.
LEMMA InterfaceDefined ==
  ASSUME NEW v, NEW n \in Net
  PROVE  /\ DefinedInterface(domain_interface(v, n)) = KeptInterface(v, n)
         /\ DefinedInterface(KeptInterface(v, n)) = KeptInterface(v, n)
<1>1. n.Mac # Absent BY VmdefAssumption DEF Net
<1>2. \A a, b, c, d, e, z : [[mac |-> a, bridge |-> b, network |-> c, vlan |-> d, model |-> e] EXCEPT !.mac = z]
                             = [mac |-> z, bridge |-> b, network |-> c, vlan |-> d, model |-> e]
  OBVIOUS
<1>3. PICK bridge, network, vlan, model :
        /\ bridge = (IF n.Nettype = "BRIDGE" THEN n.Name ELSE Absent)
        /\ network = (IF n.Nettype = "LIBVIRT" THEN n.Name ELSE Absent)
        /\ vlan = (IF v.Vlanid > 0 THEN v.Vlanid ELSE Absent)
        /\ model = ModelString[n.Model]
  OBVIOUS
<1>4. \A mac : LET e == [mac |-> mac, bridge |-> bridge, network |-> network, vlan |-> vlan, model |-> model] IN
        DefinedInterface(e) = [mac |-> IF mac = Absent THEN "generated" ELSE mac,
                               bridge |-> bridge, network |-> network, vlan |-> vlan, model |-> model]
  BY <1>2 DEF DefinedInterface
<1>5. PICK mac : mac = (IF n.Mac = "" THEN Absent ELSE n.Mac) OBVIOUS
<1>6. PICK kept : kept = (IF n.Mac = "" THEN "generated" ELSE n.Mac) OBVIOUS
<1>7. /\ domain_interface(v, n) = [mac |-> mac, bridge |-> bridge, network |-> network, vlan |-> vlan,
                                    model |-> model]
      /\ KeptInterface(v, n) = [mac |-> kept, bridge |-> bridge, network |-> network, vlan |-> vlan,
                                 model |-> model]
  BY <1>3, <1>5, <1>6, Zenon DEF domain_interface, KeptInterface
<1>8. (IF mac = Absent THEN "generated" ELSE mac) = kept BY <1>1, <1>5, <1>6
<1>9. (IF kept = Absent THEN "generated" ELSE kept) = kept BY <1>1, <1>6
<1> QED BY <1>4, <1>7, <1>8, <1>9

\* The same for all of them.
LEMMA InterfacesDefined ==
  ASSUME NEW v \in Definition
  PROVE  LET kept == [i \in DOMAIN v.Nets |-> KeptInterface(v, v.Nets[i])] IN
         /\ DefinedInterfaces([i \in DOMAIN v.Nets |-> domain_interface(v, v.Nets[i])]) = kept
         /\ DefinedInterfaces(kept) = kept
<1>1. \A i \in DOMAIN v.Nets : v.Nets[i] \in Net BY DEF Definition
<1>2. \A i \in DOMAIN v.Nets :
        /\ DefinedInterface(domain_interface(v, v.Nets[i])) = KeptInterface(v, v.Nets[i])
        /\ DefinedInterface(KeptInterface(v, v.Nets[i])) = KeptInterface(v, v.Nets[i])
  BY <1>1, InterfaceDefined
<1> QED BY <1>2 DEF DefinedInterfaces

\* The CPU has a mode, and keeps it.
LEMMA CpuDefined ==
  ASSUME NEW v
  PROVE  DefinedCpu(domain_cpu(v)) = KeptCpu(v) /\ DefinedCpu(KeptCpu(v)) = KeptCpu(v)
<1> DEFINE rec(mode) ==
             [migratable |-> domain_cpu(v).migratable, mode |-> mode,
              model |-> IF v.Cpudef.Model \in Modes THEN Absent ELSE v.Cpudef.Model,
              topology |-> <<v.Cpudef.Sockets, v.Cpudef.Cores, v.Cpudef.Threads>>,
              physbits |-> domain_cpu(v).physbits]
           b == IF v.Cpudef.Model \in Modes THEN v.Cpudef.Model ELSE ""
           z == IF v.Cpudef.Model \in Modes THEN v.Cpudef.Model ELSE "custom"
<1>1. domain_cpu(v) = rec(b)
  <2>1. PICK p, q, r, s : domain_cpu(v) = [migratable |-> p, mode |-> b, model |-> r, topology |-> s, physbits |-> q]
                          /\ r = (IF v.Cpudef.Model \in Modes THEN Absent ELSE v.Cpudef.Model)
                          /\ s = <<v.Cpudef.Sockets, v.Cpudef.Cores, v.Cpudef.Threads>>
    BY Zenon DEF domain_cpu
  <2>2. domain_cpu(v) = [migratable |-> p, mode |-> b, model |-> r, topology |-> s, physbits |-> q] BY <2>1, Zenon
  <2>3. domain_cpu(v).migratable = p /\ domain_cpu(v).physbits = q
    <3> HIDE DEF b
    <3> QED BY <2>2
  <2> QED BY <2>1, <2>2, <2>3, Zenon
<1>2. KeptCpu(v) = rec(z) BY Zenon DEF KeptCpu
<1>3. \A y, w : [rec(y) EXCEPT !.mode = w] = rec(w) /\ rec(y).mode = y OBVIOUS
<1>4. DefinedMode(b) = z /\ DefinedMode(z) = z BY DEF DefinedMode, Modes
<1> HIDE DEF rec, b, z
<1>5. DefinedCpu(rec(b)) = rec(DefinedMode(b)) /\ DefinedCpu(rec(z)) = rec(DefinedMode(z))
  BY <1>3 DEF DefinedCpu
<1> QED BY <1>1, <1>2, <1>4, <1>5

\* The generation id is there, and kept.
LEMMA GenidDefined ==
  ASSUME NEW v \in Definition
  PROVE  LET kept == IF v.Genid = "" THEN Absent ELSE IF v.Genid = "auto" THEN "generated" ELSE v.Genid IN
         DefinedGenid(domain_genid(v)) = kept /\ DefinedGenid(kept) = kept
<1>1. v.Genid \in STRING /\ Absent \notin STRING BY VmdefAssumption DEF Definition
<1>2. CASE v.Genid = ""
  <2>1. Absent # "" BY <1>1, <1>2
  <2>2. domain_genid(v) = Absent BY <1>2 DEF domain_genid
  <2> QED BY <1>2, <2>1, <2>2 DEF DefinedGenid
<1>3. CASE v.Genid # "" BY <1>3 DEF domain_genid, DefinedGenid
<1> QED BY <1>2, <1>3

\* What vm_create and vm_update make of a definition.
LEMMA DefinedIs ==
  ASSUME NEW v \in Definition
  PROVE  Defined(To_xml(v)) = KeptXml(v, FirmwareString[v.Firmware])
<1> DEFINE st == Elements(Disks(v))
           interfaces == [i \in DOMAIN v.Nets |-> domain_interface(v, v.Nets[i])]
           kept == [i \in DOMAIN v.Nets |-> KeptInterface(v, v.Nets[i])]
           genid == IF v.Genid = "" THEN Absent ELSE IF v.Genid = "auto" THEN "generated" ELSE v.Genid
           memory == [value |-> 1024 * v.Memory.Total, unit |-> "KiB"]
<1>1. To_xml(v) = Xml(v.Name, vmdef_get_vcpus(v), st.io + Len(v.Nets), domain_cpu(v), domain_memory(v),
                      domain_memory_backing(v), domain_numatune(v), domain_os(v), st.disks, st.ctrls,
                      st.leases, interfaces, domain_genid(v), MetaToXml(v.Custom))
  BY Zenon DEF To_xml, Xml
<1>2. Defined(To_xml(v)) =
        Xml(v.Name, vmdef_get_vcpus(v), st.io + Len(v.Nets), DefinedCpu(domain_cpu(v)),
            DefinedMemory(domain_memory(v)), domain_memory_backing(v), domain_numatune(v), domain_os(v),
            st.disks, st.ctrls, st.leases, DefinedInterfaces(interfaces), DefinedGenid(domain_genid(v)),
            MetaToXml(v.Custom))
  <2> HIDE DEF st, interfaces
  <2> QED BY <1>1, DefinedFields
<1>3. DefinedCpu(domain_cpu(v)) = KeptCpu(v) BY CpuDefined
<1>4. DefinedMemory(domain_memory(v)) = memory BY DEF DefinedMemory, domain_memory
<1>5. DefinedInterfaces(interfaces) = kept BY InterfacesDefined
<1>6. DefinedGenid(domain_genid(v)) = genid BY GenidDefined
<1>7. KeptXml(v, FirmwareString[v.Firmware]) =
        Xml(v.Name, vmdef_get_vcpus(v), st.io + Len(v.Nets), KeptCpu(v), memory, domain_memory_backing(v),
            domain_numatune(v), domain_os(v), st.disks, st.ctrls, st.leases, kept, genid, MetaToXml(v.Custom))
  BY Zenon DEF KeptXml, Xml, domain_os
<1> HIDE DEF interfaces, st, kept, genid, memory
<1> QED BY <1>2, <1>3, <1>4, <1>5, <1>6, <1>7

\* What a migration makes of it.
LEMMA MigratedIs ==
  ASSUME NEW v \in Definition, NEW firmware
  PROVE  Defined(Migrated(KeptXml(v, firmware))) = KeptXml(v, Absent)
<1> DEFINE st == Elements(Disks(v))
           interfaces == [i \in DOMAIN v.Nets |-> KeptInterface(v, v.Nets[i])]
           genid == IF v.Genid = "" THEN Absent ELSE IF v.Genid = "auto" THEN "generated" ELSE v.Genid
           memory == [value |-> 1024 * v.Memory.Total, unit |-> "KiB"]
           os(f) == [firmware |-> f, machine |-> Machine[v.Firmware], bios |-> v.Firmware = "BIOS"]
           x(f) == Xml(v.Name, vmdef_get_vcpus(v), st.io + Len(v.Nets), KeptCpu(v), memory,
                       domain_memory_backing(v), domain_numatune(v), os(f), st.disks, st.ctrls, st.leases,
                       interfaces, genid, MetaToXml(v.Custom))
<1>1. \A f : KeptXml(v, f) = x(f) BY Zenon DEF KeptXml, Xml
<1>2. DefinedCpu(KeptCpu(v)) = KeptCpu(v) BY CpuDefined
<1>3. DefinedMemory(memory) = memory BY DEF DefinedMemory
<1>4. DefinedInterfaces(interfaces) = interfaces BY InterfacesDefined
<1>5. DefinedGenid(genid) = genid BY GenidDefined
<1>6. \A f : [os(f) EXCEPT !.firmware = Absent] = os(Absent) OBVIOUS
<1> HIDE DEF st, interfaces, genid, memory, os
<1>7. Defined(x(Absent)) = x(Absent)
  <2>1. Defined(x(Absent)) =
          Xml(v.Name, vmdef_get_vcpus(v), st.io + Len(v.Nets), DefinedCpu(KeptCpu(v)), DefinedMemory(memory),
              domain_memory_backing(v), domain_numatune(v), os(Absent), st.disks, st.ctrls, st.leases,
              DefinedInterfaces(interfaces), DefinedGenid(genid), MetaToXml(v.Custom))
    BY DefinedFields
  <2> QED BY <1>2, <1>3, <1>4, <1>5, <2>1, Zenon
<1>8. x(firmware).os = os(firmware) /\ [x(firmware) EXCEPT !.os = os(Absent)] = x(Absent) BY DEF Xml
<1>9. Migrated(KeptXml(v, firmware)) = x(Absent)
  <2> DEFINE y == x(firmware)
  <2>1. y.os = os(firmware) /\ [y EXCEPT !.os = os(Absent)] = x(Absent) BY <1>8
  <2> HIDE DEF x
  <2>2. Migrated(y) = [y EXCEPT !.os.firmware = Absent] BY DEF Migrated
  <2>3. [y EXCEPT !.os.firmware = Absent] = [y EXCEPT !.os = [y.os EXCEPT !.firmware = Absent]] OBVIOUS
  <2>4. [y.os EXCEPT !.firmware = Absent] = os(Absent) BY <1>6, <2>1
  <2> QED BY <1>1, <2>1, <2>2, <2>3, <2>4, Zenon
<1> HIDE DEF x
<1> QED BY <1>1, <1>7, <1>9, Zenon

\* The OS disk is the first of the disks, the others follow.
LEMMA DisksSeq ==
  ASSUME NEW v \in Definition
  PROVE  /\ Disks(v) \in Seq(Disk) /\ Len(Disks(v)) = Len(v.Disks) + 1 /\ Len(v.Disks) \in Nat
         /\ DOMAIN v.Disks = 1..Len(v.Disks)
         /\ Disks(v)[1] = v.Osdisk /\ \A i \in 1..Len(v.Disks) : Disks(v)[i + 1] = v.Disks[i]
<1>1. v.Disks \in Seq(Disk) /\ v.Osdisk \in Disk BY DEF Definition
<1>2. PICK s, o : s = v.Disks /\ o = v.Osdisk /\ Disks(v) = <<o>> \o s BY DEF Disks
<1>3. s \in Seq(Disk) /\ <<o>> \in Seq(Disk) /\ Len(<<o>>) = 1 /\ <<o>>[1] = o BY <1>1, <1>2
<1>4. /\ <<o>> \o s \in Seq(Disk) /\ Len(<<o>> \o s) = 1 + Len(s)
      /\ \A i \in 1..(1 + Len(s)) : (<<o>> \o s)[i] = IF i <= 1 THEN <<o>>[i] ELSE s[i - 1]
  BY <1>3, ConcatProperties
<1>5. Len(s) \in Nat /\ DOMAIN s = 1..Len(s) BY <1>3
<1>6. (<<o>> \o s)[1] = o BY <1>3, <1>4, <1>5
<1>7. \A i \in 1..Len(s) : (<<o>> \o s)[i + 1] = s[i]
  <2> SUFFICES ASSUME NEW i \in 1..Len(s) PROVE (<<o>> \o s)[i + 1] = s[i] OBVIOUS
  <2>1. i + 1 \in 1..(1 + Len(s)) /\ ~(i + 1 <= 1) /\ (i + 1) - 1 = i BY <1>5
  <2> QED BY <1>4, <2>1
<1>8. Len(<<o>> \o s) = Len(s) + 1 BY <1>4, <1>5
<1> QED BY <1>2, <1>4, <1>5, <1>6, <1>7, <1>8, Zenon

\* The XML of any disks can be read back.
LEMMA ElementsReadBack ==
  ASSUME NEW v \in Definition
  PROVE  LET got == DisksFromXml(Elements(Disks(v)).disks) IN
         /\ got.Osdisk = KeptDisk(v.Osdisk)
         /\ got.Disks = [i \in DOMAIN v.Disks |-> KeptDisk(v.Disks[i])]
<1> DEFINE ds == Disks(v)
           st == Elements(ds)
           es == st.disks
<1>1. /\ ds \in Seq(Disk) /\ Len(ds) = Len(v.Disks) + 1 /\ Len(v.Disks) \in Nat
      /\ DOMAIN v.Disks = 1..Len(v.Disks)
      /\ ds[1] = v.Osdisk /\ \A i \in 1..Len(v.Disks) : ds[i + 1] = v.Disks[i]
  BY DisksSeq
<1> HIDE DEF ds
<1>2. Good(st, ds, Len(ds)) BY <1>1, ElementsGood
<1> HIDE DEF st
<1>3. Len(es) = Len(ds) /\ DOMAIN es = 1..Len(ds)
      /\ \A i \in 1..Len(ds) : vmdef_disk_from_xml(es[i]) = KeptDisk(ds[i])
  BY <1>2 DEF Good
<1>4. /\ Len(es) > 0 => es[1].boot = 1
      /\ \A i, j \in DOMAIN es : es[i].boot # Absent /\ es[i].boot = es[j].boot => i = j
  BY <1>2 DEF Good, Fit, BootsFit
<1> HIDE DEF es
<1>5. Len(ds) \in Nat /\ Len(ds) >= 1 /\ 1 \in 1..Len(ds) BY <1>1
<1>6. es[1].boot = 1 BY <1>3, <1>4, <1>5
<1>7. \A i \in 2..Len(ds) : es[i].boot # 1
  <2> SUFFICES ASSUME NEW i \in 2..Len(ds), es[i].boot = 1 PROVE FALSE OBVIOUS
  <2>1. 1 # Absent BY VmdefAssumption
  <2>2. i \in 1..Len(ds) /\ i # 1 BY <1>5
  <2> QED BY <1>3, <1>4, <1>5, <1>6, <2>1, <2>2
<1>8. /\ DisksFromXml(es).Osdisk = KeptDisk(ds[1])
      /\ DisksFromXml(es).Disks = [i \in 1..(Len(ds) - 1) |-> KeptDisk(ds[i + 1])]
  BY <1>1, <1>3, <1>5, <1>6, <1>7, DisksReadBack
<1>9. [i \in 1..(Len(ds) - 1) |-> KeptDisk(ds[i + 1])] = [i \in DOMAIN v.Disks |-> KeptDisk(v.Disks[i])]
  <2>1. 1..(Len(ds) - 1) = DOMAIN v.Disks BY <1>1
  <2>2. \A i \in DOMAIN v.Disks : KeptDisk(ds[i + 1]) = KeptDisk(v.Disks[i]) BY <1>1
  <2> QED BY <2>1, <2>2
<1> QED BY <1>1, <1>8, <1>9 DEF es, st, ds

\* And so can the rest: what From_xml reads is what is kept of the definition.
LEMMA XmlReadBack ==
  ASSUME NEW v \in Definition, Validate(v), NEW firmware \in {Absent, FirmwareString[v.Firmware]}
  PROVE  From_xml(KeptXml(v, firmware)) = Kept(v)
<1> DEFINE x == KeptXml(v, firmware)
           ifs == [i \in DOMAIN v.Nets |-> KeptInterface(v, v.Nets[i])]
           disks == DisksFromXml(x.disks)
           final == Len(x.interfaces)
<1>1. /\ v.Name \in STRING /\ v.Memory \in [Total : Int, Hp : BOOLEAN]
      /\ v.Cpudef \in [Model : STRING, Nodes : Int, Sockets : Int, Cores : Int, Threads : Int]
      /\ v.Numa \in BOOLEAN /\ v.Firmware \in FirmwareType /\ v.Genid \in STRING
      /\ v.Nets \in Seq(Net) /\ v.Custom \in Seq(Custom)
  BY DEF Definition
<1>2. /\ x.title = v.Name /\ x.cpu = KeptCpu(v) /\ x.backing = domain_memory_backing(v)
      /\ x.memory = [value |-> 1024 * v.Memory.Total, unit |-> "KiB"]
      /\ x.numatune = domain_numatune(v) /\ x.disks = Elements(Disks(v)).disks
      /\ x.interfaces = ifs /\ x.meta = MetaToXml(v.Custom)
      /\ x.genid = IF v.Genid = "" THEN Absent ELSE IF v.Genid = "auto" THEN "generated" ELSE v.Genid
      /\ x.os = [firmware |-> firmware, machine |-> Machine[v.Firmware], bios |-> v.Firmware = "BIOS"]
  BY DEF KeptXml
<1> HIDE DEF x
<1>3. [Model |-> IF x.cpu.mode \notin {"", "custom"} THEN x.cpu.mode ELSE x.cpu.model, Nodes |-> 0,
       Sockets |-> x.cpu.topology[1], Cores |-> x.cpu.topology[2], Threads |-> x.cpu.topology[3]]
        = [v.Cpudef EXCEPT !.Nodes = 0]
  <2>0. x.cpu = KeptCpu(v) BY <1>2, Zenon
  <2>1. x.cpu.topology = <<v.Cpudef.Sockets, v.Cpudef.Cores, v.Cpudef.Threads>> BY <2>0 DEF KeptCpu
  <2>2. (IF x.cpu.mode \notin {"", "custom"} THEN x.cpu.mode ELSE x.cpu.model) = v.Cpudef.Model
    <3>1. x.cpu.mode = IF v.Cpudef.Model \in Modes THEN v.Cpudef.Model ELSE "custom" BY <2>0 DEF KeptCpu
    <3>2. x.cpu.model = IF v.Cpudef.Model \in Modes THEN Absent ELSE v.Cpudef.Model BY <2>0 DEF KeptCpu
    <3> QED BY <3>1, <3>2 DEF Modes
  <2>3. x.cpu.topology[1] = v.Cpudef.Sockets /\ x.cpu.topology[2] = v.Cpudef.Cores
        /\ x.cpu.topology[3] = v.Cpudef.Threads
    BY <2>1
  <2>4. [v.Cpudef EXCEPT !.Nodes = 0] = [Model |-> v.Cpudef.Model, Nodes |-> 0, Sockets |-> v.Cpudef.Sockets,
                                         Cores |-> v.Cpudef.Cores, Threads |-> v.Cpudef.Threads]
    BY <1>1
  <2> QED BY <2>2, <2>3, <2>4, Zenon
<1>4. [Total |-> x.memory.value \div 1024, Hp |-> x.backing # Absent] = v.Memory
  <2>0. x.memory = [value |-> 1024 * v.Memory.Total, unit |-> "KiB"] BY <1>2, Zenon
  <2>1. x.memory.value = 1024 * v.Memory.Total BY <2>0
  <2>2. \A m, t : t \in Int /\ m = 1024 * t => m \div 1024 = t OBVIOUS
  <2>3. (x.backing # Absent) = v.Memory.Hp
    <3>1. x.backing = IF v.Memory.Hp THEN [threads |-> vmdef_get_vcpus(v)] ELSE Absent
      BY <1>2, Zenon DEF domain_memory_backing
    <3>2. vmdef_get_vcpus(v) \in Int BY <1>1 DEF vmdef_get_vcpus, Int16
    <3>3. [threads |-> vmdef_get_vcpus(v)] # Absent BY <3>2, VmdefAssumption
    <3>4. v.Memory.Hp \in BOOLEAN BY <1>1
    <3> QED BY <3>1, <3>3, <3>4
  <2>4. v.Memory = [Total |-> v.Memory.Total, Hp |-> v.Memory.Hp] BY <1>1
  <2>5. x.memory.value \div 1024 = v.Memory.Total
    <3>1. v.Memory.Total \in Int BY <1>1
    <3>2. PICK m, t : m = x.memory.value /\ t = v.Memory.Total OBVIOUS
    <3>3. m = 1024 * t BY <2>1, <3>2, Zenon
    <3>4. m \div 1024 = t BY <2>2, <3>1, <3>2, <3>3
    <3> QED BY <3>2, <3>4, Zenon
  <2>6. [Total |-> x.memory.value \div 1024, Hp |-> x.backing # Absent] = [Total |-> v.Memory.Total, Hp |-> v.Memory.Hp]
    BY <2>5, <2>3, Zenon
  <2> QED BY <2>6, <2>4, Zenon
<1>5. (x.numatune # Absent) = v.Numa
  <2>1. x.numatune = IF v.Numa THEN [placement |-> "auto"] ELSE Absent BY <1>2, Zenon DEF domain_numatune
  <2>2. [placement |-> "auto"] # Absent BY VmdefAssumption, LiteralAssumption
  <2> QED BY <1>1, <2>1, <2>2
<1>6. disks.Osdisk = KeptDisk(v.Osdisk) /\ disks.Disks = [i \in DOMAIN v.Disks |-> KeptDisk(v.Disks[i])]
  <2>1. x.disks = Elements(Disks(v)).disks BY <1>2, Zenon
  <2> QED BY <2>1, ElementsReadBack
<1>7. [i \in DOMAIN x.interfaces |-> NetFromXml(x.interfaces[i])] = [i \in DOMAIN v.Nets |-> KeptNet(v.Nets[i])]
  <2>1. \A i \in DOMAIN v.Nets : NetFromXml(KeptInterface(v, v.Nets[i])) = KeptNet(v.Nets[i])
    <3> SUFFICES ASSUME NEW n \in Net PROVE NetFromXml(KeptInterface(v, n)) = KeptNet(n) BY <1>1
    <3> DEFINE e == KeptInterface(v, n)
    <3>1. n.Name # Absent /\ n.Mac # Absent /\ n.Nettype \in NetType /\ n.Model \in NetModel
      BY VmdefAssumption DEF Net
    <3>2. /\ e.mac = (IF n.Mac = "" THEN "generated" ELSE n.Mac)
          /\ e.bridge = (IF n.Nettype = "BRIDGE" THEN n.Name ELSE Absent)
          /\ e.network = (IF n.Nettype = "LIBVIRT" THEN n.Name ELSE Absent)
          /\ e.model = ModelString[n.Model]
      BY DEF KeptInterface
    <3> HIDE DEF e
    <3>3. ModelParse[e.model] = n.Model BY <3>1, <3>2, WordsUnderstood
    <3>4. (IF e.mac = Absent THEN "" ELSE e.mac) = (IF n.Mac = "" THEN "generated" ELSE n.Mac)
      BY <3>1, <3>2, VmdefAssumption, LiteralAssumption
    <3>5. /\ (IF e.bridge # Absent THEN e.bridge ELSE e.network) = n.Name
          /\ (IF e.bridge # Absent THEN "BRIDGE" ELSE "LIBVIRT") = n.Nettype
      BY <3>1, <3>2 DEF NetType
    <3> QED BY <3>3, <3>4, <3>5, Zenon DEF NetFromXml, KeptNet, e
  <2>2. x.interfaces = ifs BY <1>2, Zenon
  <2> QED BY <2>1, <2>2
<1>8. (IF final = 0 \/ x.interfaces[final].vlan = Absent THEN 0 ELSE x.interfaces[final].vlan)
        = (IF v.Nets = <<>> THEN 0 ELSE v.Vlanid)
  <2> DEFINE n == Len(v.Nets)
  <2>1. n \in Nat /\ DOMAIN v.Nets = 1..n /\ (n = 0 <=> v.Nets = <<>>) BY <1>1
  <2>2. v.Vlanid \in 0..VLAN_MAX /\ VLAN_MAX \in Nat /\ Absent \notin Int BY VmdefAssumption DEF Validate
  <2>0. x.interfaces = ifs BY <1>2, Zenon
  <2>3. x.interfaces = [i \in 1..n |-> KeptInterface(v, v.Nets[i])] BY <2>0, <2>1
  <2> HIDE DEF n
  <2>4. final = n BY <2>1, <2>3
  <2>5. n # 0 => x.interfaces[n].vlan = IF v.Vlanid > 0 THEN v.Vlanid ELSE Absent
    <3> SUFFICES ASSUME n # 0 PROVE x.interfaces[n].vlan = IF v.Vlanid > 0 THEN v.Vlanid ELSE Absent OBVIOUS
    <3>1. n \in 1..n BY <2>1
    <3>2. x.interfaces[n] = KeptInterface(v, v.Nets[n]) BY <2>3, <3>1
    <3>3. KeptInterface(v, v.Nets[n]).vlan = IF v.Vlanid > 0 THEN v.Vlanid ELSE Absent BY DEF KeptInterface
    <3> QED BY <3>2, <3>3, Zenon
  <2> HIDE DEF final
  <2>6. CASE n = 0 BY <2>1, <2>4, <2>6
  <2>7. CASE n # 0 BY <2>1, <2>2, <2>4, <2>5, <2>7
  <2> QED BY <2>6, <2>7
<1>9. FirmwareFromXml(x) = v.Firmware
  <2>0. x.os = [firmware |-> firmware, machine |-> Machine[v.Firmware], bios |-> v.Firmware = "BIOS"] BY <1>2, Zenon
  <2>1. x.os.firmware = firmware /\ x.os.bios = (v.Firmware = "BIOS") BY <2>0
  <2>2. CASE firmware = Absent BY <1>1, <2>1, <2>2 DEF FirmwareFromXml, FirmwareType
  <2>3. CASE firmware # Absent
    <3>1. firmware = FirmwareString[v.Firmware] BY <2>3
    <3>2. FirmwareParse[FirmwareString[v.Firmware]] = v.Firmware BY <1>1, WordsUnderstood
    <3> QED BY <2>1, <2>3, <3>1, <3>2 DEF FirmwareFromXml
  <2> QED BY <2>2, <2>3
<1>10. (IF x.genid = Absent THEN "" ELSE x.genid) = (IF v.Genid = "auto" THEN "generated" ELSE v.Genid)
  <2>1. x.genid = IF v.Genid = "" THEN Absent ELSE IF v.Genid = "auto" THEN "generated" ELSE v.Genid BY <1>2, Zenon
  <2>2. v.Genid # Absent BY <1>1, VmdefAssumption
  <2>3. "generated" # Absent BY VmdefAssumption, LiteralAssumption
  <2> QED BY <2>1, <2>2, <2>3
<1>11. MetaFromXml(x.meta) = MetaToXml(v.Custom)
  <2>1. PICK m \in Seq(Custom) : m = MetaToXml(v.Custom) /\ x.meta = m
    <3>1. x.meta = MetaToXml(v.Custom) BY <1>2, Zenon
    <3> QED BY <1>1, <3>1, FieldsKept
  <2>2. \A i \in DOMAIN m : [Name |-> m[i].Name, Value |-> m[i].Value] = m[i]
    <3>1. \A i \in DOMAIN m : m[i] \in Custom OBVIOUS
    <3> QED BY <3>1 DEF Custom
  <2>3. m = [i \in DOMAIN m |-> m[i]] OBVIOUS
  <2> QED BY <2>1, <2>2, <2>3 DEF MetaFromXml
<1> QED BY <1>2, <1>3, <1>4, <1>5, <1>6, <1>7, <1>8, <1>9, <1>10, <1>11, Zenon DEF From_xml, Kept, x

-----------------------------------------------------------------------------
(* Vmdef: what is kept                                                      *)

\* What is kept of a disk is a disk, and all of it is kept from then on.
LEMMA DiskKept ==
  ASSUME NEW d \in Disk
  PROVE  KeptDisk(d) \in Disk /\ KeptDisk(KeptDisk(d)) = KeptDisk(d)
BY DEF KeptDisk, Disk

\* The same for a network.
LEMMA NetKept ==
  ASSUME NEW n \in Net
  PROVE  KeptNet(n) \in Net /\ KeptNet(KeptNet(n)) = KeptNet(n) /\ (n.Mac # "wrong" => KeptNet(n).Mac # "wrong")
BY LiteralAssumption DEF KeptNet, Net

\* The fields of what is kept.
LEMMA KeptFields ==
  ASSUME NEW v
  PROVE  /\ Kept(v).Name = v.Name /\ Kept(v).Memory = v.Memory
         /\ Kept(v).Cpudef = [v.Cpudef EXCEPT !.Nodes = 0]
         /\ Kept(v).Numa = v.Numa /\ Kept(v).Firmware = v.Firmware
         /\ Kept(v).Genid = (IF v.Genid = "auto" THEN "generated" ELSE v.Genid)
         /\ Kept(v).Vlanid = (IF v.Nets = <<>> THEN 0 ELSE v.Vlanid)
         /\ Kept(v).Nets = [i \in DOMAIN v.Nets |-> KeptNet(v.Nets[i])]
         /\ Kept(v).Custom = MetaToXml(v.Custom)
         /\ Kept(v).Osdisk = KeptDisk(v.Osdisk)
         /\ Kept(v).Disks = [i \in DOMAIN v.Disks |-> KeptDisk(v.Disks[i])]
BY DEF Kept

\* The definition with these fields.
WithFields(a, b, c, d, e, f, g, h, i, j, k) ==
  [Name |-> a, Memory |-> b, Cpudef |-> c, Numa |-> d, Firmware |-> e, Genid |-> f, Vlanid |-> g,
   Nets |-> h, Custom |-> i, Osdisk |-> j, Disks |-> k]

\* It is one, when the fields have their types.
LEMMA WithFieldsIs ==
  ASSUME NEW a \in STRING, NEW b \in [Total : Int, Hp : BOOLEAN],
         NEW c \in [Model : STRING, Nodes : Int, Sockets : Int, Cores : Int, Threads : Int],
         NEW d \in BOOLEAN, NEW e \in FirmwareType, NEW f \in STRING, NEW g \in Int, NEW h \in Seq(Net),
         NEW i \in Seq(Custom), NEW j \in Disk, NEW k \in Seq(Disk)
  PROVE  WithFields(a, b, c, d, e, f, g, h, i, j, k) \in Definition
BY DEF WithFields, Definition

\* What is kept of a definition is a definition.
LEMMA KeptDefinition ==
  ASSUME NEW v \in Definition
  PROVE  Kept(v) \in Definition
<1>1. /\ v.Name \in STRING /\ v.Memory \in [Total : Int, Hp : BOOLEAN]
      /\ v.Cpudef \in [Model : STRING, Nodes : Int, Sockets : Int, Cores : Int, Threads : Int]
      /\ v.Numa \in BOOLEAN /\ v.Firmware \in FirmwareType /\ v.Genid \in STRING /\ v.Vlanid \in Int
      /\ v.Nets \in Seq(Net) /\ v.Custom \in Seq(Custom) /\ v.Osdisk \in Disk /\ v.Disks \in Seq(Disk)
  BY DEF Definition
<1> DEFINE c == [v.Cpudef EXCEPT !.Nodes = 0]
           f == IF v.Genid = "auto" THEN "generated" ELSE v.Genid
           g == IF v.Nets = <<>> THEN 0 ELSE v.Vlanid
           h == [i \in DOMAIN v.Nets |-> KeptNet(v.Nets[i])]
           k == [i \in DOMAIN v.Disks |-> KeptDisk(v.Disks[i])]
<1>2. c \in [Model : STRING, Nodes : Int, Sockets : Int, Cores : Int, Threads : Int]
  <2>1. \A p \in [Model : STRING, Nodes : Int, Sockets : Int, Cores : Int, Threads : Int] :
          [p EXCEPT !.Nodes = 0] \in [Model : STRING, Nodes : Int, Sockets : Int, Cores : Int, Threads : Int]
    OBVIOUS
  <2> QED BY <1>1, <2>1, Zenon
<1>3. f \in STRING BY <1>1, LiteralAssumption
<1>4. g \in Int BY <1>1
<1>5. h \in Seq(Net)
  <2>1. \A i \in DOMAIN v.Nets : KeptNet(v.Nets[i]) \in Net BY <1>1, NetKept
  <2>2. DOMAIN v.Nets = 1..Len(v.Nets) /\ Len(v.Nets) \in Nat BY <1>1
  <2> QED BY <2>1, <2>2
<1>6. k \in Seq(Disk)
  <2>1. \A i \in DOMAIN v.Disks : KeptDisk(v.Disks[i]) \in Disk BY <1>1, DiskKept
  <2>2. DOMAIN v.Disks = 1..Len(v.Disks) /\ Len(v.Disks) \in Nat BY <1>1
  <2> QED BY <2>1, <2>2
<1>7. MetaToXml(v.Custom) \in Seq(Custom) BY <1>1, FieldsKept
<1>8. KeptDisk(v.Osdisk) \in Disk BY <1>1, DiskKept
<1>9. Kept(v) = WithFields(v.Name, v.Memory, c, v.Numa, v.Firmware, f, g, h, MetaToXml(v.Custom), KeptDisk(v.Osdisk), k)
  BY Zenon DEF Kept, WithFields
<1> HIDE DEF c, f, g, h, k
<1>10. PICK a, b, d, e, i, j :
         /\ a = v.Name /\ b = v.Memory /\ d = v.Numa /\ e = v.Firmware
         /\ i = MetaToXml(v.Custom) /\ j = KeptDisk(v.Osdisk)
  OBVIOUS
<1>11. /\ a \in STRING /\ b \in [Total : Int, Hp : BOOLEAN] /\ d \in BOOLEAN /\ e \in FirmwareType
       /\ i \in Seq(Custom) /\ j \in Disk
  BY <1>1, <1>7, <1>8, <1>10, Zenon
<1>12. WithFields(a, b, c, d, e, f, g, h, i, j, k) \in Definition
  BY <1>2, <1>3, <1>4, <1>5, <1>6, <1>11, WithFieldsIs
<1> QED BY <1>9, <1>10, <1>12, Zenon

\* And all of it is kept from then on.
LEMMA KeptTwice ==
  ASSUME NEW v \in Definition
  PROVE  Kept(Kept(v)) = Kept(v)
<1> DEFINE w == Kept(v)
<1>1. /\ v.Cpudef \in [Model : STRING, Nodes : Int, Sockets : Int, Cores : Int, Threads : Int]
      /\ v.Nets \in Seq(Net) /\ v.Custom \in Seq(Custom) /\ v.Osdisk \in Disk /\ v.Disks \in Seq(Disk)
  BY DEF Definition
<1>2. /\ w.Cpudef = [v.Cpudef EXCEPT !.Nodes = 0]
      /\ w.Genid = (IF v.Genid = "auto" THEN "generated" ELSE v.Genid)
      /\ w.Vlanid = (IF v.Nets = <<>> THEN 0 ELSE v.Vlanid)
      /\ w.Nets = [i \in DOMAIN v.Nets |-> KeptNet(v.Nets[i])]
      /\ w.Custom = MetaToXml(v.Custom)
      /\ w.Osdisk = KeptDisk(v.Osdisk)
      /\ w.Disks = [i \in DOMAIN v.Disks |-> KeptDisk(v.Disks[i])]
  BY KeptFields
<1>3. w = WithFields(w.Name, w.Memory, w.Cpudef, w.Numa, w.Firmware, w.Genid, w.Vlanid, w.Nets, w.Custom,
                 w.Osdisk, w.Disks)
  BY KeptDefinition DEF Definition, WithFields
<1> HIDE DEF w
<1>4. [w.Cpudef EXCEPT !.Nodes = 0] = w.Cpudef
  <2>1. w.Cpudef = [v.Cpudef EXCEPT !.Nodes = 0] BY <1>2, Zenon
  <2> QED BY <1>1, <2>1
<1>5. (IF w.Genid = "auto" THEN "generated" ELSE w.Genid) = w.Genid
  <2>1. w.Genid = (IF v.Genid = "auto" THEN "generated" ELSE v.Genid) BY <1>2, Zenon
  <2> QED BY <2>1
<1>6. (IF w.Nets = <<>> THEN 0 ELSE w.Vlanid) = w.Vlanid
  <2>1. w.Vlanid = (IF v.Nets = <<>> THEN 0 ELSE v.Vlanid) BY <1>2, Zenon
  <2>2. w.Nets = [i \in DOMAIN v.Nets |-> KeptNet(v.Nets[i])] BY <1>2, Zenon
  <2>3. v.Nets = <<>> <=> w.Nets = <<>> BY <1>1, <2>2
  <2> QED BY <2>1, <2>3
<1>7. [i \in DOMAIN w.Nets |-> KeptNet(w.Nets[i])] = w.Nets
  <2>1. w.Nets = [i \in DOMAIN v.Nets |-> KeptNet(v.Nets[i])] BY <1>2, Zenon
  <2>2. \A i \in DOMAIN v.Nets : KeptNet(KeptNet(v.Nets[i])) = KeptNet(v.Nets[i]) BY <1>1, NetKept
  <2> QED BY <2>1, <2>2
<1>8. [i \in DOMAIN w.Disks |-> KeptDisk(w.Disks[i])] = w.Disks
  <2>1. w.Disks = [i \in DOMAIN v.Disks |-> KeptDisk(v.Disks[i])] BY <1>2, Zenon
  <2>2. \A i \in DOMAIN v.Disks : KeptDisk(KeptDisk(v.Disks[i])) = KeptDisk(v.Disks[i]) BY <1>1, DiskKept
  <2> QED BY <2>1, <2>2
<1>9. KeptDisk(w.Osdisk) = w.Osdisk
  <2>1. w.Osdisk = KeptDisk(v.Osdisk) BY <1>2, Zenon
  <2> QED BY <1>1, <2>1, DiskKept
<1>10. MetaToXml(w.Custom) = w.Custom
  <2>1. w.Custom = MetaToXml(v.Custom) BY <1>2, Zenon
  <2>2. w.Custom \in Seq(Custom) /\ \A i \in 1..Len(w.Custom) : w.Custom[i].Name # "" BY <1>1, <2>1, FieldsKept
  <2> QED BY <2>2, FieldsKept
<1>11. Kept(w) = WithFields(w.Name, w.Memory, w.Cpudef, w.Numa, w.Firmware, w.Genid, w.Vlanid, w.Nets, w.Custom,
                        w.Osdisk, w.Disks)
  BY <1>4, <1>5, <1>6, <1>7, <1>8, <1>9, <1>10, Zenon DEF Kept, WithFields
<1>12. Kept(w) = w BY <1>3, <1>11, Zenon
<1> QED BY <1>12 DEF w

\* Its disks are those of the definition.
LEMMA KeptDisks ==
  ASSUME NEW v \in Definition
  PROVE  /\ Len(Disks(Kept(v))) = Len(Disks(v))
         /\ \A i \in 1..Len(Disks(v)) : Disks(Kept(v))[i] = KeptDisk(Disks(v)[i])
<1> DEFINE w == Kept(v)
           n == Len(v.Disks)
<1>1. w \in Definition BY KeptDefinition
<1>2. w.Osdisk = KeptDisk(v.Osdisk) /\ w.Disks = [i \in DOMAIN v.Disks |-> KeptDisk(v.Disks[i])] BY KeptFields
<1> HIDE DEF w
<1>3. /\ Len(Disks(v)) = n + 1 /\ n \in Nat /\ DOMAIN v.Disks = 1..n
      /\ Disks(v)[1] = v.Osdisk /\ \A i \in 1..n : Disks(v)[i + 1] = v.Disks[i]
  BY DisksSeq
<1>4. /\ Len(Disks(w)) = Len(w.Disks) + 1 /\ DOMAIN w.Disks = 1..Len(w.Disks)
      /\ Disks(w)[1] = w.Osdisk /\ \A i \in 1..Len(w.Disks) : Disks(w)[i + 1] = w.Disks[i]
  BY <1>1, DisksSeq
<1> HIDE DEF n
<1>5. w.Disks = [i \in 1..n |-> KeptDisk(v.Disks[i])] BY <1>2, <1>3, Zenon
<1>6. Len(w.Disks) = n BY <1>3, <1>5
<1>7. ASSUME NEW i \in 1..(n + 1) PROVE Disks(w)[i] = KeptDisk(Disks(v)[i])
  <2>1. CASE i = 1 BY <1>2, <1>3, <1>4, <2>1, Zenon
  <2>2. CASE i # 1
    <3>1. PICK k : k = i - 1 OBVIOUS
    <3>2. k \in 1..n /\ i = k + 1 BY <1>3, <2>2, <3>1
    <3>3. Disks(w)[k + 1] = w.Disks[k] /\ Disks(v)[k + 1] = v.Disks[k] BY <1>3, <1>4, <1>6, <3>2
    <3>4. w.Disks[k] = KeptDisk(v.Disks[k]) BY <1>5, <3>2
    <3> QED BY <3>2, <3>3, <3>4, Zenon
  <2> QED BY <2>1, <2>2
<1> QED BY <1>3, <1>4, <1>6, <1>7 DEF w

\* Validate does not refuse what is kept of a definition it has let through.
LEMMA KeptValid ==
  ASSUME NEW v \in Definition, Validate(v)
  PROVE  Validate(Kept(v))
<1> DEFINE w == Kept(v)
<1>1. /\ w.Name = v.Name /\ w.Memory = v.Memory /\ w.Cpudef = [v.Cpudef EXCEPT !.Nodes = 0]
      /\ w.Genid = (IF v.Genid = "auto" THEN "generated" ELSE v.Genid)
      /\ w.Vlanid = (IF v.Nets = <<>> THEN 0 ELSE v.Vlanid)
      /\ w.Nets = [i \in DOMAIN v.Nets |-> KeptNet(v.Nets[i])]
      /\ w.Custom = MetaToXml(v.Custom)
      /\ w.Disks = [i \in DOMAIN v.Disks |-> KeptDisk(v.Disks[i])]
  BY KeptFields
<1>2. /\ v.Cpudef \in [Model : STRING, Nodes : Int, Sockets : Int, Cores : Int, Threads : Int]
      /\ v.Nets \in Seq(Net) /\ v.Custom \in Seq(Custom)
  BY DEF Definition
<1>3. w \in Definition BY KeptDefinition
<1>4. Len(Disks(w)) = Len(Disks(v)) /\ \A i \in 1..Len(Disks(v)) : Disks(w)[i] = KeptDisk(Disks(v)[i])
  BY KeptDisks
<1> HIDE DEF w
<1>5. w.Name \notin {"", "wrong"} /\ w.Memory.Total >= 1
  <2>1. w.Name = v.Name /\ w.Memory = v.Memory BY <1>1, Zenon
  <2>2. v.Name \notin {"", "wrong"} /\ v.Memory.Total >= 1 BY Zenon DEF Validate
  <2> QED BY <2>1, <2>2, Zenon
<1>6. w.Cpudef.Model # "" /\ w.Cpudef.Sockets >= 1 /\ w.Cpudef.Cores >= 1 /\ w.Cpudef.Threads = 1
  <2>1. w.Cpudef = [v.Cpudef EXCEPT !.Nodes = 0] BY <1>1, Zenon
  <2>2. v.Cpudef.Model # "" /\ v.Cpudef.Sockets >= 1 /\ v.Cpudef.Cores >= 1 /\ v.Cpudef.Threads = 1
    BY Zenon DEF Validate
  <2>3. /\ w.Cpudef.Model = v.Cpudef.Model /\ w.Cpudef.Sockets = v.Cpudef.Sockets
        /\ w.Cpudef.Cores = v.Cpudef.Cores /\ w.Cpudef.Threads = v.Cpudef.Threads
    BY <1>2, <2>1
  <2> QED BY <2>2, <2>3, Zenon
<1>7. w.Genid # "wrong"
  <2>1. w.Genid = (IF v.Genid = "auto" THEN "generated" ELSE v.Genid) BY <1>1, Zenon
  <2>2. v.Genid # "wrong" BY Zenon DEF Validate
  <2> QED BY <2>1, <2>2
<1>8. Len(w.Disks) <= DISKS_MAX
  <2>1. Len(v.Disks) <= DISKS_MAX BY Zenon DEF Validate
  <2>2. Len(Disks(w)) = Len(w.Disks) + 1 /\ Len(w.Disks) \in Nat BY <1>3, DisksSeq
  <2>3. Len(Disks(v)) = Len(v.Disks) + 1 /\ Len(v.Disks) \in Nat BY DisksSeq
  <2>4. Len(w.Disks) = Len(v.Disks)
    <3>1. PICK a, b : a = Len(w.Disks) /\ b = Len(v.Disks) OBVIOUS
    <3>2. a + 1 = b + 1 BY <1>4, <2>2, <2>3, <3>1, Zenon
    <3>3. a \in Nat /\ b \in Nat BY <2>2, <2>3, <3>1, Zenon
    <3>4. a = b BY <3>2, <3>3
    <3> QED BY <3>1, <3>4, Zenon
  <2> QED BY <2>1, <2>4, Zenon
<1>9. Len(w.Nets) <= NETS_MAX /\ \A i \in DOMAIN w.Nets : w.Nets[i].Mac # "wrong" /\ w.Nets[i].Model \in NetModel
  <2>1. w.Nets = [i \in DOMAIN v.Nets |-> KeptNet(v.Nets[i])] BY <1>1, Zenon
  <2>2. Len(v.Nets) <= NETS_MAX /\ \A i \in DOMAIN v.Nets : v.Nets[i].Mac # "wrong" BY Zenon DEF Validate
  <2>3. DOMAIN v.Nets = 1..Len(v.Nets) /\ Len(v.Nets) \in Nat /\ \A i \in DOMAIN v.Nets : v.Nets[i] \in Net BY <1>2
  <2>4. Len(w.Nets) = Len(v.Nets) BY <2>1, <2>3
  <2>5. \A i \in DOMAIN v.Nets : KeptNet(v.Nets[i]).Mac # "wrong" /\ KeptNet(v.Nets[i]) \in Net BY <2>2, <2>3, NetKept
  <2>6. \A n \in Net : n.Model \in NetModel BY DEF Net
  <2> QED BY <2>1, <2>2, <2>4, <2>5, <2>6
<1>10. w.Vlanid \in 0..VLAN_MAX
  <2>1. w.Vlanid = (IF v.Nets = <<>> THEN 0 ELSE v.Vlanid) BY <1>1, Zenon
  <2>2. v.Vlanid \in 0..VLAN_MAX BY Zenon DEF Validate
  <2> QED BY <2>1, <2>2, VmdefAssumption
<1>11. \A i \in DOMAIN Disks(w) : vmdef_validate_disk(Disks(w)[i])
  <2>1. \A i \in DOMAIN Disks(v) : vmdef_validate_disk(Disks(v)[i]) BY Zenon DEF Validate
  <2>2. DOMAIN Disks(v) = 1..Len(Disks(v)) /\ DOMAIN Disks(w) = 1..Len(Disks(w)) BY <1>3, DisksSeq
  <2>3. \A d : vmdef_validate_disk(d) => vmdef_validate_disk(KeptDisk(d))
    <3> SUFFICES ASSUME NEW d, vmdef_validate_disk(d) PROVE vmdef_validate_disk(KeptDisk(d)) OBVIOUS
    <3> DEFINE e == KeptDisk(d)
    <3>1. /\ e.Path = d.Path /\ e.Device = d.Device /\ e.Bus = d.Bus /\ e.Man = d.Man /\ e.Prov = d.Prov
          /\ e.Size = 0
      BY DEF KeptDisk
    <3> HIDE DEF e
    <3>2. e.Size >= 0 BY <3>1
    <3>3. vmdef_validate_disk(e) BY <3>1, <3>2, Zenon DEF vmdef_validate_disk
    <3> QED BY <3>3 DEF e
  <2> QED BY <1>4, <2>1, <2>2, <2>3
<1>12. \A i \in DOMAIN w.Custom : w.Custom[i].Name # "" => w.Custom[i].Value # "wrong"
  <2>1. w.Custom = MetaToXml(v.Custom) BY <1>1, Zenon
  <2>2. \A i \in DOMAIN v.Custom : v.Custom[i].Name # "" => v.Custom[i].Value # "wrong" BY Zenon DEF Validate
  <2>3. DOMAIN v.Custom = 1..Len(v.Custom) BY <1>2
  <2>4. w.Custom \in Seq(Custom) /\ \A k \in 1..Len(w.Custom) : \E i \in 1..Len(v.Custom) : w.Custom[k] = v.Custom[i]
    <3>1. PICK cs \in Seq(Custom) : cs = v.Custom BY <1>2
    <3>2. /\ MetaToXml(cs) \in Seq(Custom)
          /\ \A k \in 1..Len(MetaToXml(cs)) : \E i \in 1..Len(cs) : MetaToXml(cs)[k] = cs[i]
      BY FieldsKept
    <3>3. w.Custom = MetaToXml(cs) BY <2>1, <3>1, Zenon
    <3>4. PICK m : m = MetaToXml(cs) OBVIOUS
    <3>5. m \in Seq(Custom) /\ \A k \in 1..Len(m) : \E i \in 1..Len(cs) : m[k] = cs[i] BY <3>2, <3>4
    <3>6. w.Custom = m /\ v.Custom = cs BY <3>1, <3>3, <3>4
    <3> HIDE <3>1, <3>2, <3>3, <3>4
    <3> QED BY <3>5, <3>6
  <2>5. DOMAIN w.Custom = 1..Len(w.Custom) BY <2>4
  <2> QED BY <2>2, <2>3, <2>4, <2>5
<1>13. Validate(w) BY <1>5, <1>6, <1>7, <1>8, <1>9, <1>10, <1>11, <1>12 DEF Validate
<1> QED BY <1>13 DEF w

-----------------------------------------------------------------------------
(* Vmdef: the properties of the XML that is kept of a definition            *)

\* Its devices do not collide.
LEMMA KeptDevicesFit ==
  ASSUME NEW w \in Definition, Validate(w), NEW f, xml = KeptXml(w, f)
  PROVE  DevicesFit
<1> DEFINE st == Elements(Disks(w))
           D == st.disks
           C == st.ctrls
           io == [i \in DOMAIN D |-> D[i].io] \o [i \in DOMAIN C |-> C[i].io]
           boot == [i \in DOMAIN D |-> D[i].boot]
           distinct(s) == \A i, j \in DOMAIN s : s[i] # Absent /\ s[i] = s[j] => i = j
           m == Len(D)
           n == Len(C)
<1>1. xml.disks = D /\ xml.controllers = C /\ xml.iothreads = st.io + Len(w.Nets) BY DEF KeptXml
<1>2. /\ Disks(w) \in Seq(Disk) /\ Len(Disks(w)) = Len(w.Disks) + 1 /\ Len(w.Disks) \in Nat
      /\ Len(w.Nets) \in Nat
  BY DisksSeq DEF Definition
<1>3. Len(w.Disks) <= DISKS_MAX BY Zenon DEF Validate
<1>4. Good(st, Disks(w), Len(Disks(w))) BY <1>2, ElementsGood
<1> HIDE DEF st
<1>5. /\ CountsFit(st) /\ NamesFit(st) /\ ControllersFit(st) /\ ThreadsFit(st) /\ BootsFit(st)
      /\ m = Len(Disks(w)) /\ DOMAIN D = 1..m /\ DOMAIN C = 1..n /\ n \in Nat
  BY <1>4 DEF Good, Fit
<1> HIDE DEF m, n
<1>6. m \in Nat /\ m >= 1 /\ m <= 25
  <2>1. PICK k : k = Len(w.Disks) OBVIOUS
  <2>2. k \in Nat /\ m = k + 1 /\ k <= DISKS_MAX BY <1>2, <1>3, <1>5, <2>1, Zenon
  <2>3. DISKS_MAX \in 0..24 BY VmdefAssumption
  <2> QED BY <2>2, <2>3
<1>7. /\ IsInjective([i \in DOMAIN D |-> D[i].target.dev])
      /\ \A i \in DOMAIN D : D[i].target.dev # <<"sd", 0>> /\ D[i].target.dev[2] < 26
  <2>1. PICK a, b, c : /\ a = st.count.virtio /\ b = st.count.scsi /\ c = st.count.sata
                       /\ a \in Nat /\ b \in Nat /\ c \in Nat /\ b >= 1 /\ b + c + a = m + 1
    BY <1>5 DEF CountsFit, Counts, m
  <2>2. \A i, j \in DOMAIN D : D[i].target.dev = D[j].target.dev => i = j BY <1>5 DEF NamesFit
  <2>3. \A i \in DOMAIN D : \/ D[i].target.dev[1] = "vd" /\ D[i].target.dev[2] \in 0..(a - 1)
                            \/ D[i].target.dev[1] = "sd" /\ D[i].target.dev[2] \in 1..((b + c) - 1)
    BY <1>5, <2>1 DEF NamesFit
  <2> HIDE DEF D
  <2>4. IsInjective([i \in DOMAIN D |-> D[i].target.dev]) BY <2>2 DEF IsInjective
  <2>5. ASSUME NEW i \in DOMAIN D PROVE D[i].target.dev # <<"sd", 0>> /\ D[i].target.dev[2] < 26
    <3>1. PICK dev : dev = D[i].target.dev OBVIOUS
    <3>2. \/ dev[1] = "vd" /\ dev[2] \in 0..(a - 1)
          \/ dev[1] = "sd" /\ dev[2] \in 1..((b + c) - 1)
      BY <2>3, <3>1
    <3>3. dev # <<"sd", 0>> BY <2>1, <3>2
    <3>4. dev[2] < 26 BY <1>6, <2>1, <3>2
    <3> QED BY <3>1, <3>3, <3>4, Zenon
  <2> QED BY <2>4, <2>5
<1>8. /\ IsInjective([i \in DOMAIN C |-> <<C[i].type, C[i].index>>])
      /\ \A i \in DOMAIN D : D[i].controller # Absent =>
           \E j \in DOMAIN C : /\ C[j].type = D[i].target.bus /\ C[j].index = D[i].controller
                              /\ C[j].model = D[i].alias[4]
  <2>1. \A i, j \in DOMAIN C : C[i].index = C[j].index => i = j BY <1>5 DEF ControllersFit
  <2>2. \A i \in DOMAIN D : D[i].controller # Absent =>
           \E j \in DOMAIN C : /\ C[j].type = D[i].target.bus /\ C[j].index = D[i].controller
                              /\ C[j].model = D[i].alias[4]
    BY <1>5, Zenon DEF ControllersFit
  <2> HIDE DEF C
  <2>3. IsInjective([i \in DOMAIN C |-> <<C[i].type, C[i].index>>]) BY <2>1 DEF IsInjective
  <2> QED BY <2>2, <2>3
<1>9. distinct(io) /\ \A i \in DOMAIN io : io[i] # Absent => io[i] \in 1..(st.io + Len(w.Nets))
  <2> DEFINE p == [i \in DOMAIN D |-> D[i].io]
             q == [i \in DOMAIN C |-> C[i].io]
             T == {D[i].io : i \in DOMAIN D} \cup {C[i].io : i \in DOMAIN C}
  <2>1. /\ \A i \in 1..m : p[i] # Absent => p[i] \in 1..st.io
        /\ \A i \in 1..n : q[i] # Absent => q[i] \in 1..st.io
        /\ \A i, j \in 1..m : p[i] # Absent /\ p[i] = p[j] => i = j
        /\ \A i, j \in 1..n : q[i] # Absent /\ q[i] = q[j] => i = j
        /\ \A i \in 1..m, j \in 1..n : p[i] # Absent => p[i] # q[j]
    BY <1>5 DEF ThreadsFit
  <2>2. p \in Seq(T) /\ q \in Seq(T) /\ Len(p) = m /\ Len(q) = n
    <3> HIDE DEF D, C
    <3> QED BY <1>5, <1>6
  <2>3. st.io \in Nat BY <1>5 DEF CountsFit
  <2>4. io = p \o q OBVIOUS
  <2> HIDE DEF p, q, T, io
  <2>5. /\ io \in Seq(T) /\ Len(io) = m + n
        /\ \A i \in 1..(m + n) : io[i] = IF i <= m THEN p[i] ELSE q[i - m]
    BY <2>2, <2>4, ConcatProperties
  <2>6. DOMAIN io = 1..(m + n) BY <2>5
  <2>7. ASSUME NEW i \in 1..(m + n), io[i] # Absent PROVE io[i] \in 1..(st.io + Len(w.Nets))
    <3>1. io[i] \in 1..st.io
      <4>1. CASE i <= m BY <1>5, <1>6, <2>1, <2>5, <2>7, <4>1
      <4>2. CASE ~(i <= m)
        <5>1. i - m \in 1..n BY <1>5, <1>6, <4>2
        <5> QED BY <2>1, <2>5, <2>7, <4>2, <5>1
      <4> QED BY <4>1, <4>2
    <3> QED BY <1>2, <2>3, <3>1
  <2>8. ASSUME NEW i \in 1..(m + n), NEW j \in 1..(m + n), io[i] # Absent, io[i] = io[j] PROVE i = j
    <3>1. CASE i <= m /\ j <= m
      <4>1. i \in 1..m /\ j \in 1..m /\ io[i] = p[i] /\ io[j] = p[j] BY <1>6, <2>5, <3>1
      <4> QED BY <2>1, <2>8, <4>1
    <3>2. CASE i <= m /\ ~(j <= m)
      <4>1. i \in 1..m /\ j - m \in 1..n /\ io[i] = p[i] /\ io[j] = q[j - m] BY <1>5, <1>6, <2>5, <3>2
      <4> QED BY <2>1, <2>8, <4>1
    <3>3. CASE ~(i <= m) /\ j <= m
      <4>1. j \in 1..m /\ i - m \in 1..n /\ io[j] = p[j] /\ io[i] = q[i - m] BY <1>5, <1>6, <2>5, <3>3
      <4> QED BY <2>1, <2>8, <4>1
    <3>4. CASE ~(i <= m) /\ ~(j <= m)
      <4>1. i - m \in 1..n /\ j - m \in 1..n /\ io[i] = q[i - m] /\ io[j] = q[j - m] BY <1>5, <1>6, <2>5, <3>4
      <4>2. i - m = j - m BY <2>1, <2>8, <4>1
      <4> QED BY <1>6, <4>2
    <3> QED BY <3>1, <3>2, <3>3, <3>4
  <2> QED BY <2>6, <2>7, <2>8
<1>10. distinct(boot) /\ D[1].boot = 1 /\ \A i \in DOMAIN D : D[i].device = "cdrom" => D[i].boot # Absent
  <2>1. /\ \A i, j \in DOMAIN D : D[i].boot # Absent /\ D[i].boot = D[j].boot => i = j
        /\ m > 0 => D[1].boot = 1
        /\ \A i \in DOMAIN D : D[i].device = "cdrom" => D[i].boot # Absent
    BY <1>5, Zenon DEF BootsFit, m
  <2> HIDE DEF D
  <2>2. m > 0 BY <1>6
  <2> QED BY <2>1, <2>2
<1> DEFINE fit(d, c, k) ==
             LET ios == [i \in DOMAIN d |-> d[i].io] \o [i \in DOMAIN c |-> c[i].io] IN
             /\ IsInjective([i \in DOMAIN d |-> d[i].target.dev])
             /\ \A i \in DOMAIN d : d[i].target.dev # <<"sd", 0>> /\ d[i].target.dev[2] < 26
             /\ IsInjective([i \in DOMAIN c |-> <<c[i].type, c[i].index>>])
             /\ \A i \in DOMAIN d : d[i].controller # Absent =>
                  \E j \in DOMAIN c : /\ c[j].type = d[i].target.bus /\ c[j].index = d[i].controller
                                     /\ c[j].model = d[i].alias[4]
             /\ distinct(ios) /\ \A i \in DOMAIN ios : ios[i] # Absent => ios[i] \in 1..k
             /\ distinct([i \in DOMAIN d |-> d[i].boot]) /\ d[1].boot = 1
             /\ \A i \in DOMAIN d : d[i].device = "cdrom" => d[i].boot # Absent
<1>11. fit(D, C, st.io + Len(w.Nets))
  <2> HIDE DEF D, C
  <2> QED BY <1>7, <1>8, <1>9, <1>10, Zenon
<1>12. fit(xml.disks, xml.controllers, xml.iothreads) => DevicesFit BY Zenon DEF DevicesFit
<1> HIDE DEF fit, D, C
<1> QED BY <1>1, <1>11, <1>12, Zenon

\* The lease of a disk that is a LUN is its unit.
LEMMA LeaseIsUnit ==
  ASSUME NEW d, d.Device = "LUN", d.Path.base[1] \in dev_disks_prefixes
  PROVE  vmdef_lease(d) = Lun(d.Path)
BY DEF vmdef_lease, Get_resource_name, Lun, dev_disks_prefixes

\* Its leases are those of the managed disks: one for each LUN, whatever its name.
LEMMA KeptLeases ==
  ASSUME NEW w \in Definition, Validate(w), NEW f \in {Absent, FirmwareString[w.Firmware]}, xml = KeptXml(w, f)
  PROVE  OneLeasePerLun
<1> DEFINE ds == Disks(w)
           N == Len(ds)
           disks == Disks(From_xml(xml))
           ls == Elements(ds).leases
           managed == {i \in DOMAIN disks : disks[i].Man = "MANAGED"}
           luns == {i \in managed : disks[i].Device = "LUN" /\ disks[i].Path.base[1] \in dev_disks_prefixes}
           leaseOf(i) == xml.leases[Cardinality({k \in managed : k <= i})]
<1>1. xml.leases = ls BY DEF KeptXml
<1>2. From_xml(xml) = Kept(w) BY XmlReadBack
<1>3. ds \in Seq(Disk) /\ Len(ds) \in Nat BY DisksSeq
<1>4. LeasesMatch(ls, ds, N) BY <1>3, ElementsGood DEF Good
<1>5. /\ Kept(w) \in Definition /\ Disks(Kept(w)) \in Seq(Disk) /\ Len(Disks(Kept(w))) = N
      /\ \A i \in 1..N : Disks(Kept(w))[i] = KeptDisk(ds[i])
  BY KeptDefinition, DisksSeq, KeptDisks
<1>6. disks = Disks(Kept(w)) BY <1>2
<1> HIDE DEF ds, disks, ls
<1>7. DOMAIN disks = 1..N /\ \A i \in 1..N : disks[i] = KeptDisk(ds[i]) BY <1>3, <1>5, <1>6
<1>8. \A i \in 1..N : /\ disks[i].Man = ds[i].Man /\ disks[i].Device = ds[i].Device
                      /\ disks[i].Path = ds[i].Path
  <2>1. \A d : KeptDisk(d).Man = d.Man /\ KeptDisk(d).Device = d.Device /\ KeptDisk(d).Path = d.Path BY DEF KeptDisk
  <2> QED BY <1>7, <2>1
<1>9. managed = Managed(ds, N) BY <1>7, <1>8 DEF Managed
<1>10. \A i \in managed : {k \in managed : k <= i} = Managed(ds, i)
  <2> SUFFICES ASSUME NEW i \in managed PROVE {k \in managed : k <= i} = Managed(ds, i) OBVIOUS
  <2>1. i \in 1..N BY <1>7
  <2> HIDE DEF managed
  <2>2. \A k : k \in managed <=> k \in 1..N /\ ds[k].Man = "MANAGED" BY <1>9 DEF Managed
  <2>3. \A k : k \in 1..N /\ k <= i <=> k \in 1..i BY <1>3, <2>1
  <2> QED BY <2>2, <2>3 DEF Managed
<1>11. \A i \in managed : leaseOf(i) = vmdef_lease(ds[i])
  <2> SUFFICES ASSUME NEW i \in managed PROVE leaseOf(i) = vmdef_lease(ds[i]) OBVIOUS
  <2>1. {k \in managed : k <= i} = Managed(ds, i) BY <1>10
  <2>2. ls[Cardinality(Managed(ds, i))] = vmdef_lease(ds[i]) BY <1>4, <1>9 DEF LeasesMatch
  <2> HIDE DEF managed
  <2> QED BY <1>1, <2>1, <2>2, Zenon
<1>12. \A i \in luns : leaseOf(i) = Lun(disks[i].Path)
  <2> SUFFICES ASSUME NEW i \in luns PROVE leaseOf(i) = Lun(disks[i].Path) OBVIOUS
  <2>1. i \in managed /\ i \in 1..N /\ disks[i].Device = "LUN" /\ disks[i].Path.base[1] \in dev_disks_prefixes
    BY <1>7
  <2>2. ds[i].Device = "LUN" /\ ds[i].Path.base[1] \in dev_disks_prefixes /\ disks[i].Path = ds[i].Path
    BY <1>8, <2>1
  <2>3. vmdef_lease(ds[i]) = Lun(ds[i].Path) BY <2>2, LeaseIsUnit
  <2> HIDE DEF managed, luns, leaseOf
  <2>4. leaseOf(i) = vmdef_lease(ds[i]) BY <1>11, <2>1, Zenon
  <2> QED BY <2>2, <2>3, <2>4, Zenon
<1>13. Len(xml.leases) = Cardinality(managed)
  <2> HIDE DEF managed
  <2> QED BY <1>1, <1>4, <1>9, Zenon DEF LeasesMatch
<1>14. \A i, j \in luns : (leaseOf(i) = leaseOf(j)) = (Lun(disks[i].Path) = Lun(disks[j].Path))
  <2> HIDE DEF luns, leaseOf
  <2> QED BY <1>12
<1> QED BY <1>13, <1>14, Zenon DEF OneLeasePerLun, disks

-----------------------------------------------------------------------------
(* Vmdef: the specification                                                 *)

\* The inductive invariant.  The XML there is was made from the definition that was asked
\* for or from what is kept of it, both of which Validate lets through, and only a
\* migration takes anything from it, which is the firmware.
VmdefInv ==
  /\ vm \in Definition
  /\ xml # Absent =>
       \E w \in {vm, Kept(vm)} : \E f \in {Absent, FirmwareString[vm.Firmware]} :
         Validate(w) /\ xml = KeptXml(w, f)

\* What VmdefInv says of the definition the XML was made from.
LEMMA MadeFrom ==
  ASSUME VmdefInv, xml # Absent
  PROVE  \E w \in Definition : \E f \in {Absent, FirmwareString[w.Firmware]} :
           Validate(w) /\ Kept(w) = Kept(vm) /\ w \in {vm, Kept(vm)} /\ xml = KeptXml(w, f)
<1>1. vm \in Definition BY DEF VmdefInv
<1>2. PICK w \in {vm, Kept(vm)}, f \in {Absent, FirmwareString[vm.Firmware]} : Validate(w) /\ xml = KeptXml(w, f)
  BY Zenon DEF VmdefInv
<1>3. w \in Definition /\ Kept(w) = Kept(vm) BY <1>1, <1>2, KeptDefinition, KeptTwice
<1>4. w.Firmware = vm.Firmware
  <2>1. Kept(vm).Firmware = vm.Firmware BY KeptFields
  <2> QED BY <1>2, <2>1, Zenon
<1> QED BY <1>2, <1>3, <1>4, Zenon

\* VmdefInv holds at first.
LEMMA VmdefInvInit == VmdefInit => VmdefInv
BY VmdefAssumption DEF VmdefInit, VmdefInv

\* Every step keeps it.
LEMMA VmdefInvNext == VmdefInv /\ [VmdefNext]_vmdefVars => VmdefInv'
<1> SUFFICES ASSUME VmdefInv, [VmdefNext]_vmdefVars PROVE VmdefInv' OBVIOUS
<1>1. vm \in Definition /\ vm' = vm
  BY DEF VmdefInv, VmdefNext, vm_create, vm_migrate, vm_update, vmdefVars
<1>2. CASE vm_create
  <2>1. Validate(vm) /\ xml' = KeptXml(vm, FirmwareString[vm.Firmware]) BY <1>1, <1>2, DefinedIs DEF vm_create
  <2> QED BY <1>1, <2>1, Zenon DEF VmdefInv
<1>3. CASE vm_migrate
  <2>1. PICK w \in Definition : \E f : Validate(w) /\ w \in {vm, Kept(vm)} /\ xml = KeptXml(w, f)
    BY <1>3, MadeFrom, Zenon DEF vm_migrate
  <2>2. xml' = KeptXml(w, Absent) BY <1>3, <2>1, MigratedIs DEF vm_migrate
  <2> QED BY <1>1, <2>1, <2>2, Zenon DEF VmdefInv
<1>4. CASE vm_update
  <2>1. PICK w \in Definition : \E f \in {Absent, FirmwareString[w.Firmware]} :
          Validate(w) /\ Kept(w) = Kept(vm) /\ xml = KeptXml(w, f)
    BY <1>4, MadeFrom, Zenon DEF vm_update
  <2>2. From_xml(xml) = Kept(vm) BY <2>1, XmlReadBack
  <2>3. Kept(vm) \in Definition BY <1>1, KeptDefinition
  <2>4. Validate(Kept(vm)) BY <1>4, <2>2, Zenon DEF vm_update
  <2>5. xml' = Defined(To_xml(Kept(vm))) BY <1>4, <2>2, Zenon DEF vm_update
  <2>6. Kept(vm).Firmware = vm.Firmware BY KeptFields
  <2>7. xml' = KeptXml(Kept(vm), FirmwareString[vm.Firmware]) BY <2>3, <2>5, <2>6, DefinedIs
  <2> QED BY <1>1, <2>4, <2>7, Zenon DEF VmdefInv
<1>5. CASE UNCHANGED vmdefVars BY <1>5, Zenon DEF vmdefVars, VmdefInv
<1> QED BY <1>2, <1>3, <1>4, <1>5 DEF VmdefNext

\* So it holds in every state.
LEMMA VmdefInvariant == VmdefSpec => []VmdefInv
BY VmdefInvInit, VmdefInvNext, PTL DEF VmdefSpec

\* vm_get shows the definition vm_create was given, after any number of migrations and of
\* updates with what it showed, and such an update is never refused.  The conversion is
\* written twice in the code, as To_xml and From_xml: the theorem says that they agree,
\* for every definition the API takes.
THEOREM DefinitionIsKept == VmdefSpec => []DefinitionKept
<1>1. VmdefInv => DefinitionKept
  <2> SUFFICES ASSUME VmdefInv, xml # Absent PROVE From_xml(xml) = Kept(vm) /\ Validate(From_xml(xml))
    BY DEF DefinitionKept
  <2>1. PICK w \in Definition : \E f \in {Absent, FirmwareString[w.Firmware]} :
          Validate(w) /\ Kept(w) = Kept(vm) /\ xml = KeptXml(w, f)
    BY MadeFrom, Zenon
  <2>2. From_xml(xml) = Kept(w) BY <2>1, XmlReadBack
  <2>3. Validate(Kept(w)) BY <2>1, KeptValid
  <2> QED BY <2>1, <2>2, <2>3, Zenon
<1> QED BY <1>1, VmdefInvariant, PTL

\* The devices of a domain do not collide, for every definition and every DISKS_MAX the
\* letters of the alphabet are enough for.
THEOREM DevicesAlwaysFit == VmdefSpec => []DevicesFit
<1>1. VmdefInv => DevicesFit
  <2>1. CASE xml = Absent BY <2>1 DEF DevicesFit
  <2>2. CASE xml # Absent
    <3> SUFFICES ASSUME VmdefInv PROVE DevicesFit OBVIOUS
    <3>1. PICK w \in Definition : \E f : Validate(w) /\ xml = KeptXml(w, f) BY <2>2, MadeFrom, Zenon
    <3> QED BY <3>1, KeptDevicesFit
  <2> QED BY <2>1, <2>2
<1> QED BY <1>1, VmdefInvariant, PTL

\* Two managed LUNs of a VM have one lease exactly when they are one unit, whichever of
\* its udev names each of them has, and a lease for every managed disk is in the XML.
THEOREM OneLeaseForEachLun == VmdefSpec => []OneLeasePerLun
<1>1. VmdefInv => OneLeasePerLun
  <2>1. CASE xml = Absent BY <2>1 DEF OneLeasePerLun
  <2>2. CASE xml # Absent
    <3> SUFFICES ASSUME VmdefInv PROVE OneLeasePerLun OBVIOUS
    <3>1. PICK w \in Definition : \E f \in {Absent, FirmwareString[w.Firmware]} : Validate(w) /\ xml = KeptXml(w, f)
      BY <2>2, MadeFrom, Zenon
    <3> QED BY <3>1, KeptLeases
  <2> QED BY <2>1, <2>2
<1> QED BY <1>1, VmdefInvariant, PTL

-----------------------------------------------------------------------------
(* Figures: sums                                                            *)

\* The member of a set that a fold takes first, the sum over a set as a fold makes it
\* from sums over smaller sets, and a function that has the sums over all sets in D.
Chosen(s) == CHOOSE x \in s : TRUE
Added(f, F, s) == IF s = {} THEN 0 ELSE f[Chosen(s)] + F[s \ {Chosen(s)}]
IsSums(F, f, D) == F = [s \in D |-> Added(f, F, s)]

\* It is a member.
LEMMA ChosenIn == ASSUME NEW s, s # {} PROVE Chosen(s) \in s
BY DEF Chosen

\* SumFunctionOnSet is such a function, if there is one.
LEMMA SumDef ==
  ASSUME NEW f, NEW S
  PROVE  SumFunctionOnSet(f, S) = (CHOOSE F : IsSums(F, f, SUBSET S))[S]
BY DEF SumFunctionOnSet, FoldFunctionOnSet, MapThenFoldSet, IsSums, Added, Chosen

\* Without it the set is smaller.
LEMMA OneLess ==
  ASSUME NEW s, IsFiniteSet(s), s # {}
  PROVE  /\ IsFiniteSet(s \ {Chosen(s)})
         /\ Cardinality(s) \in Nat /\ Cardinality(s \ {Chosen(s)}) \in Nat
         /\ Cardinality(s) = Cardinality(s \ {Chosen(s)}) + 1
BY ChosenIn, FS_RemoveElement, FS_CardinalityType

\* There is one, by induction over the size.
LEMMA SumsExist ==
  ASSUME NEW f, NEW S, IsFiniteSet(S)
  PROVE  \E F : IsSums(F, f, SUBSET S)
<1> DEFINE D(n) == {s \in SUBSET S : Cardinality(s) <= n}
           P == {n \in Nat : \E F : IsSums(F, f, D(n))}
<1>0. \A s \in SUBSET S : IsFiniteSet(s) /\ Cardinality(s) \in Nat
  BY FS_Subset, FS_CardinalityType
<1>1. 0 \in P
  <2> DEFINE F == [s \in D(0) |-> 0]
  <2>1. \A s \in D(0) : s = {} BY <1>0, FS_EmptySet
  <2>2. IsSums(F, f, D(0)) BY <2>1 DEF IsSums, Added
  <2> QED BY <2>2
<1>2. \A n \in Nat : n \in P => n + 1 \in P
  <2> SUFFICES ASSUME NEW n \in P PROVE n + 1 \in P OBVIOUS
  <2>1. PICK F : IsSums(F, f, D(n)) OBVIOUS
  <2> DEFINE G == [s \in D(n + 1) |-> Added(f, F, s)]
  <2>2. \A s \in D(n) : G[s] = F[s]
    <3>1. D(n) \subseteq D(n + 1) BY <1>0
    <3> QED BY <2>1, <3>1 DEF IsSums
  <2>3. \A s \in D(n + 1) : s # {} => s \ {Chosen(s)} \in D(n)
    <3> SUFFICES ASSUME NEW s \in D(n + 1), s # {} PROVE s \ {Chosen(s)} \in D(n) OBVIOUS
    <3> QED BY <1>0, OneLess
  <2>4. \A s \in D(n + 1) : Added(f, F, s) = Added(f, G, s)
    <3> HIDE DEF D, G
    <3> QED BY <2>2, <2>3 DEF Added
  <2>5. G = [s \in D(n + 1) |-> Added(f, G, s)] 
    <3> HIDE DEF D
    <3>1. \A s \in D(n+1) : G[s] = Added(f, G, s) BY <2>4
    <3> QED BY <3>1
  <2> HIDE DEF G
  <2>6. \E H : IsSums(H, f, D(n + 1)) BY <2>5 DEF IsSums
  <2>7. n + 1 \in Nat OBVIOUS
  <2> HIDE DEF D
  <2> QED BY <2>6, <2>7
<1>3. Nat \subseteq P BY <1>1, <1>2, Induction
<1>4. Cardinality(S) \in P BY <1>0, <1>3
<1>5. D(Cardinality(S)) = SUBSET S
  <2> SUFFICES ASSUME NEW s \in SUBSET S PROVE Cardinality(s) <= Cardinality(S) OBVIOUS
  <2> QED BY FS_Subset
<1> QED BY <1>4, <1>5

\* Induction over finite sets.
LEMMA SetInduction ==
  ASSUME NEW S, IsFiniteSet(S), NEW Q, {} \in Q,
         \A s \in SUBSET S : s # {} /\ s \ {Chosen(s)} \in Q => s \in Q
  PROVE  S \in Q
<1> DEFINE P == {n \in Nat : \A s \in SUBSET S : Cardinality(s) = n => s \in Q}
<1>0. \A s \in SUBSET S : IsFiniteSet(s) /\ Cardinality(s) \in Nat BY FS_Subset, FS_CardinalityType
<1>1. 0 \in P BY <1>0, FS_EmptySet
<1>2. \A n \in Nat : n \in P => n + 1 \in P
  <2> SUFFICES ASSUME NEW n \in P, NEW s \in SUBSET S, Cardinality(s) = n + 1 PROVE s \in Q OBVIOUS
  <2>1. s # {} BY FS_EmptySet, n \in Nat
  <2>2. s \ {Chosen(s)} \in SUBSET S /\ Cardinality(s \ {Chosen(s)}) = n BY <1>0, <2>1, OneLess
  <2> QED BY <2>1, <2>2
<1>3. Nat \subseteq P BY <1>1, <1>2, Induction
<1> QED BY <1>0, <1>3

\* Functions that are sums agree.
LEMMA SumsUnique ==
  ASSUME NEW f, NEW U, IsFiniteSet(U), NEW S, U \subseteq S,
         NEW F, IsSums(F, f, SUBSET S), NEW G, IsSums(G, f, SUBSET U)
  PROVE  F[U] = G[U]
<1> DEFINE Q == {s \in SUBSET U : F[s] = G[s]}
<1>0. \A s \in SUBSET U : F[s] = Added(f, F, s) /\ G[s] = Added(f, G, s) BY DEF IsSums
<1>1. {} \in Q BY <1>0 DEF Added
<1>2. ASSUME NEW s \in SUBSET U, s # {}, s \ {Chosen(s)} \in Q PROVE s \in Q
  BY <1>0, <1>2 DEF Added
<1>3. U \in Q BY <1>1, <1>2, SetInduction
<1> QED BY <1>3

\* The sum over no members.
LEMMA SumEmpty == ASSUME NEW f PROVE SumFunctionOnSet(f, {}) = 0
<1>1. IsFiniteSet({}) BY FS_EmptySet
<1> DEFINE G == CHOOSE F : IsSums(F, f, SUBSET {})
<1>2. IsSums(G, f, SUBSET {}) BY <1>1, SumsExist
<1>3. SumFunctionOnSet(f, {}) = G[{}] BY SumDef
<1> QED BY <1>2, <1>3 DEF IsSums, Added

\* The sum over a set and over the set without one member.
LEMMA SumLess ==
  ASSUME NEW f, NEW S, IsFiniteSet(S), S # {}
  PROVE  SumFunctionOnSet(f, S) = f[Chosen(S)] + SumFunctionOnSet(f, S \ {Chosen(S)})
<1> DEFINE U == S \ {Chosen(S)}
           FS == CHOOSE F : IsSums(F, f, SUBSET S)
           FU == CHOOSE F : IsSums(F, f, SUBSET U)
<1>1. IsFiniteSet(U) /\ U \in SUBSET S BY OneLess
<1>2. IsSums(FS, f, SUBSET S) BY SumsExist
<1>3. IsSums(FU, f, SUBSET U) BY <1>1, SumsExist
<1>4. SumFunctionOnSet(f, S) = FS[S] /\ SumFunctionOnSet(f, U) = FU[U] BY SumDef
<1> HIDE DEF FS, FU, U
<1>6. FS[U] = FU[U] BY <1>1, <1>2, <1>3, SumsUnique
<1>7. FS[S] = f[Chosen(S)] + FS[U] BY <1>2 DEF IsSums, Added, U
<1> QED BY <1>4, <1>6, <1>7 DEF U

\* Sums of integers are integers, of natural numbers natural.
LEMMA SumType ==
  ASSUME NEW S, IsFiniteSet(S), NEW f, \A x \in S : f[x] \in Int
  PROVE  SumFunctionOnSet(f, S) \in Int
<1> DEFINE Q == {s \in SUBSET S : SumFunctionOnSet(f, s) \in Int}
<1>1. {} \in Q BY SumEmpty
<1>2. ASSUME NEW s \in SUBSET S, s # {}, s \ {Chosen(s)} \in Q PROVE s \in Q
  BY <1>2, FS_Subset, ChosenIn, SumLess
<1>3. S \in Q BY <1>1, <1>2, SetInduction
<1> QED BY <1>3

\* A bound for every member is one for the sums.
LEMMA SumLower ==
  ASSUME NEW S, IsFiniteSet(S), NEW f, \A x \in S : f[x] \in Int,
         NEW h, \A x \in S : h[x] \in Int, NEW k \in Int, \A x \in S : k * f[x] <= h[x]
  PROVE  k * SumFunctionOnSet(f, S) <= SumFunctionOnSet(h, S)
<1> DEFINE Q == {s \in SUBSET S : k * SumFunctionOnSet(f, s) <= SumFunctionOnSet(h, s)}
<1>1. {} \in Q BY SumEmpty
<1>2. ASSUME NEW s \in SUBSET S, s # {}, s \ {Chosen(s)} \in Q PROVE s \in Q
  <2> DEFINE t == s \ {Chosen(s)}
  <2>1. IsFiniteSet(s) /\ IsFiniteSet(t) /\ Chosen(s) \in S BY <1>2, FS_Subset, ChosenIn
  <2>2. /\ SumFunctionOnSet(f, s) = f[Chosen(s)] + SumFunctionOnSet(f, t)
        /\ SumFunctionOnSet(h, s) = h[Chosen(s)] + SumFunctionOnSet(h, t)
    BY <1>2, <2>1, SumLess
  <2>3. SumFunctionOnSet(f, t) \in Int /\ SumFunctionOnSet(h, t) \in Int BY <2>1, SumType
  <2>4. ASSUME NEW a \in Int, NEW b \in Int, NEW x \in Int, NEW y \in Int, k * a <= b, k * x <= y
        PROVE  k * (x + a) <= y + b
    <3>1. k * (x + a) = k * x + k * a OBVIOUS
    <3>2. k * x \in Int /\ k * a \in Int OBVIOUS
    <3> QED BY <2>4, <3>1, <3>2
  <2>5. k * SumFunctionOnSet(f, t) <= SumFunctionOnSet(h, t) BY <1>2
  <2> HIDE DEF t
  <2> QED BY <2>1, <2>2, <2>3, <2>4, <2>5
<1>3. S \in Q BY <1>1, <1>2, SetInduction
<1> QED BY <1>3

\* And so is one from above, with something to spare for each member.
LEMMA SumUpper ==
  ASSUME NEW S, IsFiniteSet(S), NEW f, \A x \in S : f[x] \in Int,
         NEW h, \A x \in S : h[x] \in Int, NEW k \in Int, NEW c \in Int,
         \A x \in S : h[x] <= k * f[x] + c
  PROVE  SumFunctionOnSet(h, S) <= k * SumFunctionOnSet(f, S) + Cardinality(S) * c
<1> DEFINE Q == {s \in SUBSET S :
                   SumFunctionOnSet(h, s) <= k * SumFunctionOnSet(f, s) + Cardinality(s) * c}
<1>1. {} \in Q BY SumEmpty, FS_EmptySet
<1>2. ASSUME NEW s \in SUBSET S, s # {}, s \ {Chosen(s)} \in Q PROVE s \in Q
  <2> DEFINE t == s \ {Chosen(s)}
             n == Cardinality(t)
  <2>1. IsFiniteSet(s) /\ Chosen(s) \in S BY <1>2, FS_Subset, ChosenIn
  <2>2. IsFiniteSet(t) /\ n \in Nat /\ Cardinality(s) = n + 1 BY <1>2, <2>1, OneLess
  <2>3. /\ SumFunctionOnSet(f, s) = f[Chosen(s)] + SumFunctionOnSet(f, t)
        /\ SumFunctionOnSet(h, s) = h[Chosen(s)] + SumFunctionOnSet(h, t)
    BY <1>2, <2>1, SumLess
  <2>4. SumFunctionOnSet(f, t) \in Int /\ SumFunctionOnSet(h, t) \in Int BY <2>2, SumType
  <2>5. ASSUME NEW m \in Nat, NEW a \in Int, NEW b \in Int, NEW x \in Int, NEW y \in Int,
               b <= k * a + m * c, y <= k * x + c
        PROVE  y + b <= k * (x + a) + (m + 1) * c
    <3>1. k * (x + a) = k * x + k * a OBVIOUS
    <3>2. (m + 1) * c = m * c + c OBVIOUS
    <3>3. k * x \in Int /\ k * a \in Int /\ m * c \in Int OBVIOUS
    <3> QED BY <2>5, <3>1, <3>2, <3>3
  <2>6. SumFunctionOnSet(h, t) <= k * SumFunctionOnSet(f, t) + n * c BY <1>2
  <2> HIDE DEF t, n
  <2> QED BY <2>1, <2>2, <2>3, <2>4, <2>5, <2>6
<1>3. S \in Q BY <1>1, <1>2, SetInduction
<1> QED BY <1>3

\* The sum of sums.
LEMMA SumAdd ==
  ASSUME NEW S, IsFiniteSet(S), NEW f, \A x \in S : f[x] \in Int,
         NEW h, \A x \in S : h[x] \in Int, NEW e, \A x \in S : e[x] = f[x] + h[x]
  PROVE  SumFunctionOnSet(e, S) = SumFunctionOnSet(f, S) + SumFunctionOnSet(h, S)
<1> DEFINE Q == {s \in SUBSET S :
                   SumFunctionOnSet(e, s) = SumFunctionOnSet(f, s) + SumFunctionOnSet(h, s)}
<1>1. {} \in Q BY SumEmpty
<1>2. ASSUME NEW s \in SUBSET S, s # {}, s \ {Chosen(s)} \in Q PROVE s \in Q
  <2> DEFINE t == s \ {Chosen(s)}
  <2>1. IsFiniteSet(s) /\ IsFiniteSet(t) /\ Chosen(s) \in S BY <1>2, FS_Subset, ChosenIn
  <2>2. /\ SumFunctionOnSet(f, s) = f[Chosen(s)] + SumFunctionOnSet(f, t)
        /\ SumFunctionOnSet(h, s) = h[Chosen(s)] + SumFunctionOnSet(h, t)
        /\ SumFunctionOnSet(e, s) = e[Chosen(s)] + SumFunctionOnSet(e, t)
    BY <1>2, <2>1, SumLess
  <2>3. SumFunctionOnSet(f, t) \in Int /\ SumFunctionOnSet(h, t) \in Int BY <2>1, SumType
  <2> QED BY <1>2, <2>1, <2>2, <2>3
<1>3. S \in Q BY <1>1, <1>2, SetInduction
<1> QED BY <1>3

\* What \div does, without remainders.
LEMMA DivBounds ==
  ASSUME NEW m \in Nat \ {0}, NEW x \in Int
  PROVE  x \div m \in Int /\ m * (x \div m) <= x /\ x <= m * (x \div m) + (m - 1)
OBVIOUS

-----------------------------------------------------------------------------
(* Figures: arithmetic                                                      *)

\* Multiplication is monotonic; the solver has to be told.
LEMMA MulMono == ASSUME NEW a \in Nat, NEW b \in Int, NEW c \in Int, b <= c PROVE a * b <= a * c
OBVIOUS

\* Half of a width.
LEMMA Halves ==
  /\ M64 \div 2 \in Nat \ {0} /\ M64 = 2 * (M64 \div 2) /\ M64 \in Nat \ {0}
  /\ M32 \div 2 \in Nat \ {0} /\ M32 = 2 * (M32 \div 2) /\ M32 \in Nat \ {0}
<1>1. ASSUME NEW m \in Nat \ {0}, m % 2 = 0 PROVE m \div 2 \in Nat \ {0} /\ m = 2 * (m \div 2)
  BY <1>1
<1> QED BY <1>1, FiguresAssumption

\* The conversions keep what has a place in the width, and take off or put on M64 once.
LEMMA Uint64Is ==
  ASSUME NEW x \in Int
  PROVE  /\ Uint64(x) \in 0..MaxUint64
         /\ x \in 0..MaxUint64 => Uint64(x) = x
         /\ x \in M64..(M64 + MaxUint64) => Uint64(x) = x - M64
<1>1. M64 \in Nat \ {0} BY Halves
<1> QED BY <1>1 DEF Uint64, MaxUint64

\* The same with signs.
LEMMA Int64Is ==
  ASSUME NEW x \in Int
  PROVE  /\ Int64(x) \in MinInt64..MaxInt64
         /\ x \in MinInt64..MaxInt64 => Int64(x) = x
         /\ x \in (MaxInt64 + 1)..(MaxInt64 + M64) => Int64(x) = x - M64
<1> DEFINE H == M64 \div 2
<1>0. M64 \in Nat \ {0} /\ H \in Nat \ {0} /\ M64 = 2 * H BY Halves
<1>1. Int64(x) = ((x + H) % M64) - H /\ MinInt64 = -H /\ MaxInt64 = H - 1
  BY DEF Int64, MinInt64, MaxInt64
<1> HIDE DEF H
<1>2. PICK y \in Int : y = x + H BY <1>0
<1>3. /\ y % M64 \in 0..(M64 - 1)
      /\ y \in 0..(M64 - 1) => y % M64 = y
      /\ y \in M64..(2 * M64 - 1) => y % M64 = y - M64
  <2>1. M64 \in Nat \ {0} BY <1>0
  <2> QED BY <2>1
<1> QED BY <1>0, <1>1, <1>2, <1>3

\* An int32 keeps what has a place in it.
LEMMA Int32Is ==
  ASSUME NEW x \in Int, -(M32 \div 2) <= x, x < M32 \div 2
  PROVE  Int32(x) = x
<1> DEFINE H == M32 \div 2
<1>1. H \in Nat \ {0} /\ M32 = 2 * H BY Halves
<1>2. x + H \in 0..(M32 - 1) => (x + H) % M32 = x + H BY <1>1
<1>3. Int32(x) = ((x + H) % M32) - H BY DEF Int32
<1> HIDE DEF H
<1>4. -H <= x /\ x < H BY DEF H
<1> QED BY <1>1, <1>2, <1>3, <1>4

\* The ends of the widths.
LEMMA Ranges ==
  /\ MinInt64 = -(M64 \div 2) /\ MaxInt64 = M64 \div 2 - 1 /\ MaxUint64 = 2 * (M64 \div 2) - 1
  /\ MinInt64 \in Int /\ MaxInt64 \in Nat /\ MaxUint64 \in Nat
  /\ M64 = MaxUint64 + 1 /\ M64 = 2 * MaxInt64 + 2 /\ MinInt64 = -MaxInt64 - 1
<1>1. M64 \div 2 \in Nat \ {0} /\ M64 = 2 * (M64 \div 2) BY Halves
<1> QED BY <1>1 DEF MinInt64, MaxInt64, MaxUint64

-----------------------------------------------------------------------------
(* Figures: the counters                                                    *)

\* Counter_delta_uint64 finds again what was added to a counter, wherever it wrapped.
LEMMA DeltaUint64 ==
  ASSUME NEW c \in 0..MaxUint64, NEW d \in 0..MaxUint64
  PROVE  Counter_delta_uint64(Uint64(c + d), c) = d
<1>1. CASE c + d <= MaxUint64
  <2>1. Uint64(c + d) = c + d BY <1>1, Uint64Is, Ranges
  <2> QED BY <2>1, Ranges DEF Counter_delta_uint64
<1>2. CASE c + d > MaxUint64
  <2>1. Uint64(c + d) = c + d - M64 BY <1>2, Uint64Is, Ranges
  <2>2. c + d - M64 < c BY Ranges
  <2>3. MaxUint64 - c + (c + d - M64) + 1 = d BY Ranges
  <2>4. Uint64(d) = d BY Uint64Is, Ranges
  <2> QED BY <2>1, <2>2, <2>3, <2>4, Ranges DEF Counter_delta_uint64
<1> QED BY <1>1, <1>2, Ranges

\* Counter_delta_int64 too.
LEMMA DeltaInt64 ==
  ASSUME NEW c \in MinInt64..MaxInt64, NEW d \in 0..MaxInt64
  PROVE  Counter_delta_int64(Int64(c + d), c) = d
<1>0. Int64(d) = d BY Int64Is, Ranges
<1>1. CASE c + d <= MaxInt64
  <2>1. Int64(c + d) = c + d BY <1>1, Int64Is, Ranges
  <2>2. c + d - c = d /\ c + d >= c BY Ranges
  <2> QED BY <1>0, <2>1, <2>2 DEF Counter_delta_int64
<1>2. CASE c + d > MaxInt64
  <2>1. PICK c1 \in Int : c1 = c + d - M64 BY Ranges
  <2>2. Int64(c + d) = c1 BY <1>2, <2>1, Int64Is, Ranges
  <2>3. ~(c1 >= c) BY <2>1, Ranges
  <2>4. Int64(MaxInt64 - c) = MaxInt64 - c /\ Int64(c1 - MinInt64) = c1 - MinInt64
    BY <1>2, <2>1, Int64Is, Ranges
  <2>5. (MaxInt64 - c) + (c1 - MinInt64) + 1 = d BY <2>1, Ranges
  <2> QED BY <1>0, <2>2, <2>3, <2>4, <2>5 DEF Counter_delta_int64
<1> QED BY <1>1, <1>2, Ranges

\* Of counters that are not negative it is the difference, negative after a restart.
LEMMA DeltaRestart ==
  ASSUME NEW c1 \in 0..MaxInt64, NEW c0 \in 0..MaxInt64
  PROVE  Counter_delta_int64(c1, c0) = c1 - c0
<1>0. Int64(c1 - c0) = c1 - c0 BY Int64Is, Ranges
<1>1. CASE c1 >= c0 BY <1>0, <1>1 DEF Counter_delta_int64
<1>2. CASE ~(c1 >= c0)
  <2>1. Int64(MaxInt64 - c0) = MaxInt64 - c0 BY Int64Is, Ranges
  <2>2. Int64(c1 - MinInt64) = c1 - MinInt64 - M64 BY Int64Is, Ranges
  <2>3. (MaxInt64 - c0) + (c1 - MinInt64 - M64) + 1 = c1 - c0 BY Ranges
  <2> QED BY <1>0, <1>2, <2>1, <2>2, <2>3 DEF Counter_delta_int64
<1> QED BY <1>1, <1>2

\* The states have their types: the counters of the host and of its VMs their widths, the
\* snapshot is not later than now, and knows of VMs of this host.
FiguresTypes ==
  /\ host \in [ts : 1..MaxTs, faults : Nat, os : OsMemory, cpu : [CpuKinds -> 0..MaxUint64],
               vms : [Guest -> [on : BOOLEAN, cpu : 0..MaxUint64, rx : MinInt64..MaxInt64]]]
  /\ did \in [cpu : [Guest -> Nat], rx : [Guest -> Nat], os : Nat, stopped : SUBSET Guest]
  /\ si # Nothing =>
       /\ si.Ts \in 1..host.ts /\ si.cpu \in [CpuKinds -> 0..MaxUint64]
       /\ DOMAIN si.Vms \subseteq Guest
       /\ \A g \in DOMAIN si.Vms :
            /\ si.Vms[g] \in Vmstats /\ si.Vms[g].Ts = si.Ts
            /\ si.Vms[g].cpu_time \in 0..MaxUint64 /\ si.Vms[g].net_rx \in MinInt64..MaxInt64

\* No more than there was time for has happened since the snapshot.
InTime ==
  si # Nothing =>
    /\ did.os <= host.ts - si.Ts
    /\ \A g \in Guest : /\ did.cpu[g] <= Ms * (host.ts - si.Ts)
                       /\ did.rx[g] <= MostBytes * (host.ts - si.Ts)

\* The counters are where the snapshot found them, and what happened since on top, modulo
\* their width; those of a VM that stopped since have received no more than it did.
Accounted ==
  si # Nothing =>
    /\ host.cpu["kernel"] = Uint64(si.cpu["kernel"] + did.os)
    /\ host.cpu["iowait"] = si.cpu["iowait"]
    /\ host.cpu["user"] = Uint64(si.cpu["user"] + SumFunction(did.cpu))
    /\ \A g \in DOMAIN si.Vms \ did.stopped :
         /\ host.vms[g].cpu = Uint64(si.Vms[g].cpu_time + did.cpu[g])
         /\ host.vms[g].rx = Int64(si.Vms[g].net_rx + did.rx[g])
    /\ \A g \in did.stopped : host.vms[g].rx \in 0..did.rx[g]

\* The inductive invariant.
FiguresInv == FiguresTypes /\ InTime /\ Accounted /\ DeltasExact /\ UsedosIsTheOs

-----------------------------------------------------------------------------
(* Figures: the figures of a VM                                             *)

\* The types of the constants.
LEMMA Constants ==
  /\ KiB \in Nat \ {0} /\ Percent \in Nat \ {0} /\ Sec \in Nat \ {0} /\ Ms \in Nat \ {0}
  /\ MHz \in Nat /\ MaxTs \in Nat \ {0} /\ MostBytes \in Nat /\ IsFiniteSet(Guest)
  /\ Cardinality(Guest) \in Nat
BY FiguresAssumption, WidthAssumption, FS_CardinalityType

\* A quotient of a smaller numerator is no larger.
LEMMA QuotientBound ==
  ASSUME NEW D \in Nat \ {0}, NEW x \in Nat, NEW k \in Nat, x <= k * D
  PROVE  x \div D \in Nat /\ x \div D <= k
<1> DEFINE q == x \div D
<1>1. q \in Int /\ D * q <= x /\ x <= D * q + (D - 1) BY DivBounds
<1> HIDE DEF q
<1>2. q >= 0 
  <2> SUFFICES ASSUME q <= -1 PROVE FALSE BY <1>1
  <2>1. D * q <= D * (-1) BY <1>1, MulMono
  <2> QED BY <1>1, <2>1
<1>3. q <= k
  <2> SUFFICES ASSUME k + 1 <= q PROVE FALSE BY <1>1
  <2>1. D * (k + 1) <= D * q BY <1>1, MulMono
  <2>2. D * (k + 1) = k * D + D OBVIOUS
  <2>3. k * D \in Int /\ D * q \in Int BY <1>1
  <2> QED BY <1>1, <2>1, <2>2, <2>3
<1> QED BY <1>1, <1>2, <1>3 DEF q

\* The utilization does not overflow when a VM had no more than its vcpu.
LEMMA UtilizationIs ==
  ASSUME NEW d \in Nat, NEW dt \in 1..MaxTs, d <= Ms * dt
  PROVE  /\ Utilization(d, dt) = (Percent * d) \div (Ms * dt)
         /\ Utilization(d, dt) \in Nat
<1> DEFINE D == Ms * dt
           x == Percent * d
<1>1. D \in Nat \ {0} /\ dt * Ms = D /\ d <= D BY Constants
<1>2. D <= Ms * MaxTs /\ Ms * MaxTs \in Nat BY Constants, MulMono
<1>3. x \in Nat /\ d * Percent = x BY Constants
<1>4. x <= Percent * D BY <1>1, Constants, MulMono
<1>5. Percent * D <= Percent * (Ms * MaxTs) BY <1>1, <1>2, Constants, MulMono
<1>6. x < M64
  <2>1. Percent * D \in Int /\ Percent * (Ms * MaxTs) \in Int BY <1>1, <1>2, Constants
  <2>2. Percent * (Ms * MaxTs) < M64 BY WidthAssumption
  <2> HIDE DEF x, D
  <2> QED BY <1>3, <1>4, <1>5, <2>1, <2>2, Halves
<1> HIDE DEF x, D
<1>7. Uint64(x) = x BY <1>3, <1>6, Uint64Is, Ranges
<1>8. x \div D \in Nat /\ x \div D <= Percent BY <1>1, <1>3, <1>4, Constants, QuotientBound
<1>9. Int32(x \div D) = x \div D
  <2>1. PICK q \in Nat : q = x \div D BY <1>8
  <2> QED BY <1>8, <2>1, Int32Is, Halves, WidthAssumption, Constants
<1>10. CASE d = 0
  <2>1. x = 0 BY <1>10, Constants DEF x
  <2>2. x \div D = 0 BY <1>1, <2>1
  <2> QED BY <1>10, <2>2 DEF Utilization, x, D
<1>11. CASE d # 0
  <2>1. d > 0 /\ dt > 0 BY <1>11, Constants
  <2>2. Utilization(d, dt) = Int32(Uint64(x) \div D) BY <1>1, <1>3, <2>1 DEF Utilization
  <2> QED BY <1>7, <1>8, <1>9, <2>2 DEF x, D
<1> QED BY <1>10, <1>11

\* Nor does the bandwidth, when it received no more than it can in the time.
LEMMA BandwidthIs ==
  ASSUME NEW d \in Nat, NEW dt \in 1..MaxTs, d <= MostBytes * dt
  PROVE  /\ Bandwidth(d, dt) = (Sec * d) \div (KiB * dt)
         /\ Bandwidth(d, dt) \in Nat
<1> DEFINE D == KiB * dt
           x == Sec * d
           T == MostBytes * dt
<1>1. D \in Nat \ {0} /\ dt * KiB = D /\ T \in Nat /\ d <= T BY Constants
<1>2. T <= MostBytes * MaxTs /\ MostBytes * MaxTs \in Nat BY Constants, MulMono
<1>3. x \in Nat /\ d * Sec = x BY Constants
<1>4. x <= Sec * T BY <1>1, Constants, MulMono
<1>5. Sec * T <= Sec * (MostBytes * MaxTs) BY <1>1, <1>2, Constants, MulMono
<1>6. x < M64 \div 2
  <2>1. Sec * T \in Int /\ Sec * (MostBytes * MaxTs) \in Int BY <1>1, <1>2, Constants
  <2>2. Sec * (MostBytes * MaxTs) < M64 \div 2 /\ M64 \div 2 \in Int BY WidthAssumption, Halves
  <2> HIDE DEF x, T
  <2> QED BY <1>3, <1>4, <1>5, <2>1, <2>2
<1>7. Int64(x) = x
  <2> HIDE DEF x
  <2> QED BY <1>3, <1>6, Int64Is, Ranges, Halves
<1>8. x \div D \in Nat /\ x \div D < M32 \div 2
  <2> DEFINE h == M32 \div 2
             q == x \div D
  <2>1. h \in Nat \ {0} BY Halves
  <2>2. Sec * T = (Sec * MostBytes) * dt BY Constants
  <2>3. Sec * MostBytes <= KiB * h - 1 
    <3>1. Sec * MostBytes < KiB * h BY WidthAssumption
    <3>2. Sec * MostBytes \in Int /\ KiB * h \in Int BY <2>1, Constants
    <3> QED BY <3>1, <3>2
  <2>4. (Sec * MostBytes) * dt <= (KiB * h - 1) * dt
    <3>1. Sec * MostBytes \in Int /\ KiB * h - 1 \in Int /\ dt \in Nat BY <2>1, Constants
    <3>2. dt * (Sec * MostBytes) <= dt * (KiB * h - 1) BY <2>3, <3>1, MulMono
    <3> QED BY <3>1, <3>2
  <2>5. (KiB * h - 1) * dt = h * D - dt BY <2>1, Constants
  <2>6. x < h * D
    <3>1. h * D \in Int /\ Sec * T \in Int /\ (Sec * MostBytes) * dt \in Int /\ dt > 0 /\ dt \in Int BY <1>1, <2>1, Constants
    <3> HIDE DEF x, h, D, T
    <3> QED BY <1>3, <1>4, <2>2, <2>4, <2>5, <3>1
  <2> HIDE DEF x, h, D, T
  <2>7. x <= h * D BY <2>6, <2>1, <1>1, <1>3
  <2>8. q \in Nat /\ q <= h BY <1>1, <1>3, <2>1, <2>7, QuotientBound
  <2>9. D * q <= x BY <1>1, <1>3, DivBounds
  <2> HIDE DEF q
  <2>10. q # h BY <2>9, <2>6, <1>1, <2>1, <1>3
  <2> QED BY <2>8, <2>10, <2>1 DEF q, h
<1> HIDE DEF x, D
<1>9. Int32(x \div D) = x \div D
  <2>1. PICK q \in Nat : q = x \div D BY <1>8
  <2> QED BY <1>8, <2>1, Int32Is, Halves
<1>10. CASE d = 0
  <2>1. x = 0 BY <1>10, Constants DEF x
  <2>2. x \div D = 0 BY <1>1, <2>1
  <2> QED BY <1>10, <2>2 DEF Bandwidth, x, D
<1>11. CASE d # 0
  <2>1. d > 0 /\ dt > 0 BY <1>11, Constants
  <2>2. Bandwidth(d, dt) = Int32(Int64(x) \div D) BY <1>1, <1>3, <2>1 DEF Bandwidth
  <2> QED BY <1>7, <1>8, <1>9, <2>2 DEF x, D
<1> QED BY <1>10, <1>11

-----------------------------------------------------------------------------
(* Figures: the host works                                                  *)

\* FiguresInv holds at first.
LEMMA FiguresStart == FiguresInit => FiguresInv
<1> SUFFICES ASSUME FiguresInit PROVE FiguresInv OBVIOUS
<1>1. si = Nothing /\ did = NoWork BY DEF FiguresInit
<1>2. PICK c \in FirstCounts : host.vms = [g \in Guest |-> [on |-> TRUE, cpu |-> c, rx |-> Int64(c)]]
  BY DEF FiguresInit
<1>3. c \in 0..MaxUint64 /\ Int64(c) \in MinInt64..MaxInt64 /\ M64 - 1 \in 0..MaxUint64
  BY FiguresAssumption, Int64Is, Ranges DEF MaxUint64
<1>4. host.vms \in [Guest -> [on : BOOLEAN, cpu : 0..MaxUint64, rx : MinInt64..MaxInt64]]
  BY <1>2, <1>3
<1>5. host.cpu \in [CpuKinds -> 0..MaxUint64] BY <1>3 DEF FiguresInit
<1>6. host \in [ts : 1..MaxTs, faults : Nat, os : OsMemory, cpu : [CpuKinds -> 0..MaxUint64],
                vms : [Guest -> [on : BOOLEAN, cpu : 0..MaxUint64, rx : MinInt64..MaxInt64]]]
  BY <1>4, <1>5, Constants DEF FiguresInit
<1>7. did \in [cpu : [Guest -> Nat], rx : [Guest -> Nat], os : Nat, stopped : SUBSET Guest]
  BY <1>1 DEF NoWork
<1> QED BY <1>1, <1>6, <1>7
        DEF FiguresInv, FiguresTypes, InTime, Accounted, DeltasExact, UsedosIsTheOs, Compared

\* What is said of the last snapshot stays true until the next one.
LEMMA SameSnapshot ==
  DeltasExact /\ UsedosIsTheOs /\ UNCHANGED <<si, last>> => DeltasExact' /\ UsedosIsTheOs'
BY DEF DeltasExact, UsedosIsTheOs, Compared, Interval

\* What a millisecond does, for some c, b and o.
WorkWith(c, b, o) ==
  LET runs(g) == host.vms[g].on IN
  /\ host.ts < MaxTs /\ c \in [Guest -> 0..Ms] /\ b \in 0..MostBytes /\ o \in 0..1
  /\ host'.ts = host.ts + 1
  /\ host'.cpu["kernel"] = Uint64(host.cpu["kernel"] + o)
  /\ host'.cpu["iowait"] = host.cpu["iowait"]
  /\ host'.cpu["user"] = Uint64(host.cpu["user"] + SumFunction(c))
  /\ \A g \in Guest : /\ host'.vms[g].cpu = Uint64(host.vms[g].cpu + c[g])
                      /\ host'.vms[g].rx = IF runs(g) THEN Int64(host.vms[g].rx + b) ELSE host.vms[g].rx
  /\ did'.os = did.os + o /\ did'.stopped = did.stopped
  /\ did'.cpu = [g \in Guest |-> did.cpu[g] + c[g]]
  /\ \A g \in Guest : did'.rx[g] = IF runs(g) THEN did.rx[g] + b ELSE did.rx[g]

\* What a millisecond changes.
LEMMA WorkDoes ==
  ASSUME FiguresTypes, Work
  PROVE  FiguresTypes' /\ \E c, b, o : WorkWith(c, b, o)
<1> DEFINE runs(g) == host.vms[g].on
<1>1. PICK c \in [Guest -> Share], b \in Bytes, o \in 0..1 :
       /\ \A g \in Guest : ~runs(g) => c[g] = 0
       /\ host' = [host EXCEPT
            !.ts = @ + 1,
            !.cpu["kernel"] = Uint64(@ + o),
            !.cpu["user"] = Uint64(@ + SumFunction(c)),
            !.vms = [g \in Guest |->
               [on |-> runs(g), cpu |-> Uint64(host.vms[g].cpu + c[g]),
                rx |-> IF runs(g) THEN Int64(host.vms[g].rx + b) ELSE host.vms[g].rx]]]
       /\ did' = [did EXCEPT
            !.os = @ + o,
            !.cpu = [g \in Guest |-> did.cpu[g] + c[g]],
            !.rx = [g \in Guest |-> IF runs(g) THEN did.rx[g] + b ELSE did.rx[g]]]
  BY DEF Work
<1>2. host.ts < MaxTs /\ si' = si BY DEF Work
<1>3. c \in [Guest -> 0..Ms] /\ b \in 0..MostBytes /\ b \in Nat
  <2>1. Share \subseteq 0..Ms BY FiguresAssumption
  <2>2. b \in Nat /\ b <= MostBytes BY FiguresAssumption, WidthAssumption
  <2>3. c \in [Guest -> 0..Ms] BY <2>1
  <2>4. b \in 0..MostBytes BY <2>2, Constants
  <2> QED BY <2>2, <2>3, <2>4
<1>4. SumFunction(c) \in Int
  <2>1. SumFunction(c) = SumFunctionOnSet(c, Guest) BY <1>3 DEF SumFunction
  <2> QED BY <1>3, <2>1, SumType, Constants
<1>5. host \in [ts : 1..MaxTs, faults : Nat, os : OsMemory, cpu : [CpuKinds -> 0..MaxUint64],
                vms : [Guest -> [on : BOOLEAN, cpu : 0..MaxUint64, rx : MinInt64..MaxInt64]]]
  BY DEF FiguresTypes
<1>6. did \in [cpu : [Guest -> Nat], rx : [Guest -> Nat], os : Nat, stopped : SUBSET Guest]
  BY DEF FiguresTypes
<1>7. /\ Uint64(host.cpu["kernel"] + o) \in 0..MaxUint64
      /\ Uint64(host.cpu["user"] + SumFunction(c)) \in 0..MaxUint64
  BY <1>4, <1>5, Uint64Is, Ranges DEF CpuKinds
<1>8. ASSUME NEW g \in Guest
      PROVE  /\ Uint64(host.vms[g].cpu + c[g]) \in 0..MaxUint64
             /\ Int64(host.vms[g].rx + b) \in MinInt64..MaxInt64
  BY <1>3, <1>5, Uint64Is, Int64Is, Ranges, Constants
<1> DEFINE vms == [g \in Guest |->
               [on |-> runs(g), cpu |-> Uint64(host.vms[g].cpu + c[g]),
                rx |-> IF runs(g) THEN Int64(host.vms[g].rx + b) ELSE host.vms[g].rx]]
<1>9. vms \in [Guest -> [on : BOOLEAN, cpu : 0..MaxUint64, rx : MinInt64..MaxInt64]]
  BY <1>5, <1>8
<1>10. /\ host' \in [ts : 1..MaxTs, faults : Nat, os : OsMemory, cpu : [CpuKinds -> 0..MaxUint64],
                vms : [Guest -> [on : BOOLEAN, cpu : 0..MaxUint64, rx : MinInt64..MaxInt64]]]
       /\ host'.ts = host.ts + 1 /\ host'.vms = vms
       /\ host'.cpu["kernel"] = Uint64(host.cpu["kernel"] + o)
       /\ host'.cpu["iowait"] = host.cpu["iowait"]
       /\ host'.cpu["user"] = Uint64(host.cpu["user"] + SumFunction(c))
  <2> HIDE DEF vms
  <2>1. host' = [host EXCEPT
            !.ts = @ + 1,
            !.cpu["kernel"] = Uint64(@ + o),
            !.cpu["user"] = Uint64(@ + SumFunction(c)),
            !.vms = vms] BY <1>1 DEF vms
  <2>2. host.ts + 1 \in 1..MaxTs BY <1>2, <1>5, Constants
  <2> QED BY <1>5, <1>7, <1>9, <2>1, <2>2 DEF CpuKinds
<1>11. /\ did' \in [cpu : [Guest -> Nat], rx : [Guest -> Nat], os : Nat, stopped : SUBSET Guest]
       /\ did'.os = did.os + o /\ did'.stopped = did.stopped
       /\ did'.cpu = [g \in Guest |-> did.cpu[g] + c[g]]
       /\ did'.rx = [g \in Guest |-> IF runs(g) THEN did.rx[g] + b ELSE did.rx[g]]
  <2> DEFINE cpu == [g \in Guest |-> did.cpu[g] + c[g]]
             rx == [g \in Guest |-> IF runs(g) THEN did.rx[g] + b ELSE did.rx[g]]
  <2>1. cpu \in [Guest -> Nat] BY <1>3, <1>6, Constants
  <2>2. rx \in [Guest -> Nat] BY <1>3, <1>6
  <2>3. did' = [did EXCEPT !.os = did.os + o, !.cpu = cpu, !.rx = rx] BY <1>1
  <2>4. did.os + o \in Nat BY <1>6
  <2> HIDE DEF cpu, rx
  <2>5. /\ did' \in [cpu : [Guest -> Nat], rx : [Guest -> Nat], os : Nat, stopped : SUBSET Guest]
        /\ did'.os = did.os + o /\ did'.stopped = did.stopped /\ did'.cpu = cpu /\ did'.rx = rx
    BY <1>6, <2>1, <2>2, <2>3, <2>4
  <2> QED BY <2>5 DEF cpu, rx
<1>12. host.ts \in 1..host'.ts /\ (si # Nothing => si.Ts \in 1..host'.ts)
  BY <1>5, <1>10, Constants DEF FiguresTypes
<1>13. FiguresTypes' BY <1>2, <1>10, <1>11, <1>12 DEF FiguresTypes
<1>14. WorkWith(c, b, o)
  BY <1>2, <1>3, <1>10, <1>11 DEF WorkWith
<1> QED BY <1>13, <1>14

\* What happens in it, there was time for.
LEMMA WorkInTime ==
  ASSUME FiguresTypes, InTime, NEW c, NEW b, NEW o, WorkWith(c, b, o), si' = si
  PROVE  InTime'
<1> SUFFICES ASSUME si # Nothing
             PROVE  /\ did'.os <= host'.ts - si.Ts
                    /\ \A g \in Guest : /\ did'.cpu[g] <= Ms * (host'.ts - si.Ts)
                                       /\ did'.rx[g] <= MostBytes * (host'.ts - si.Ts)
  BY DEF InTime
<1> DEFINE dt == host.ts - si.Ts
<1>1. dt \in Nat /\ host'.ts - si.Ts = dt + 1
  <2>1. host.ts \in 1..MaxTs /\ si.Ts \in 1..host.ts BY DEF FiguresTypes
  <2>2. host'.ts = host.ts + 1 BY DEF WorkWith
  <2> QED BY <2>1, <2>2, Constants
<1> HIDE DEF dt
<1>2. did.os <= dt /\ o \in 0..1 /\ did'.os = did.os + o /\ did.os \in Nat
  BY DEF InTime, WorkWith, FiguresTypes, dt
<1>3. ASSUME NEW g \in Guest
      PROVE  did'.cpu[g] <= Ms * (dt + 1) /\ did'.rx[g] <= MostBytes * (dt + 1)
  <2>1. /\ did.cpu[g] <= Ms * dt /\ did.rx[g] <= MostBytes * dt
        /\ did.cpu[g] \in Nat /\ did.rx[g] \in Nat
    BY DEF InTime, FiguresTypes, dt
  <2>2. did'.cpu[g] = did.cpu[g] + c[g] /\ c[g] \in 0..Ms /\ b \in 0..MostBytes
    BY DEF WorkWith
  <2>3. did'.rx[g] = did.rx[g] + b \/ did'.rx[g] = did.rx[g] BY DEF WorkWith
  <2>4. Ms * (dt + 1) = Ms * dt + Ms /\ MostBytes * (dt + 1) = MostBytes * dt + MostBytes
    BY <1>1, Constants
  <2>5. Ms * dt \in Int /\ MostBytes * dt \in Int BY <1>1, Constants
  <2> QED BY <2>1, <2>2, <2>3, <2>4, <2>5, Constants
<1> QED BY <1>1, <1>2, <1>3

\* Added to a counter bit by bit or at once: the same.
LEMMA CountOn ==
  ASSUME NEW c0 \in 0..MaxUint64, NEW d \in Nat, NEW e \in Nat, d + e <= MaxUint64
  PROVE  Uint64(Uint64(c0 + d) + e) = Uint64(c0 + (d + e))
<1>1. CASE c0 + d <= MaxUint64
  <2>1. Uint64(c0 + d) = c0 + d BY <1>1, Uint64Is, Ranges
  <2> QED BY <2>1, Ranges
<1>2. CASE c0 + d > MaxUint64
  <2>1. Uint64(c0 + d) = c0 + d - M64 BY <1>2, Uint64Is, Ranges
  <2>2. Uint64(c0 + d - M64 + e) = c0 + d - M64 + e BY <1>2, Uint64Is, Ranges
  <2>3. Uint64(c0 + (d + e)) = c0 + (d + e) - M64 BY <1>2, Uint64Is, Ranges
  <2> QED BY <2>1, <2>2, <2>3, Ranges
<1> QED BY <1>1, <1>2, Ranges

\* The same with signs.
LEMMA CountOnInt ==
  ASSUME NEW c0 \in MinInt64..MaxInt64, NEW d \in Nat, NEW e \in Nat, d + e <= MaxInt64
  PROVE  Int64(Int64(c0 + d) + e) = Int64(c0 + (d + e))
<1>1. CASE c0 + d <= MaxInt64
  <2>1. Int64(c0 + d) = c0 + d BY <1>1, Int64Is, Ranges
  <2> QED BY <2>1, Ranges
<1>2. CASE c0 + d > MaxInt64
  <2>1. Int64(c0 + d) = c0 + d - M64 BY <1>2, Int64Is, Ranges
  <2>2. Int64(c0 + d - M64 + e) = c0 + d - M64 + e BY <1>2, Int64Is, Ranges
  <2>3. Int64(c0 + (d + e)) = c0 + (d + e) - M64 BY <1>2, Int64Is, Ranges
  <2> QED BY <2>1, <2>2, <2>3, Ranges
<1> QED BY <1>1, <1>2, Ranges

\* Sums over the VMs.
LEMMA SumOverGuests ==
  ASSUME NEW f \in [Guest -> Nat]
  PROVE  /\ SumFunction(f) = SumFunctionOnSet(f, Guest) /\ SumFunction(f) \in Nat
         /\ \A k \in Nat : (\A g \in Guest : f[g] <= k) => SumFunction(f) <= Cardinality(Guest) * k
<1>1. SumFunction(f) = SumFunctionOnSet(f, Guest) BY DEF SumFunction
<1>2. SumFunctionOnSet(f, Guest) \in Int BY SumType, Constants
<1>3. 0 * SumFunctionOnSet(f, Guest) <= SumFunctionOnSet(f, Guest)
  <2>1. \A g \in Guest : 0 * f[g] <= f[g] OBVIOUS
  <2> QED BY <2>1, SumLower, Constants
<1>4. ASSUME NEW k \in Nat, \A g \in Guest : f[g] <= k
      PROVE  SumFunctionOnSet(f, Guest) <= Cardinality(Guest) * k
  <2>1. PICK z \in Int : z = 0 OBVIOUS
  <2>2. \A g \in Guest : f[g] <= z * f[g] + k BY <1>4, <2>1
  <2>3. SumFunctionOnSet(f, Guest) <= z * SumFunctionOnSet(f, Guest) + Cardinality(Guest) * k
    <3>1. k \in Int /\ z \in Int /\ IsFiniteSet(Guest) /\ \A g \in Guest : f[g] \in Int BY Constants
    <3> QED BY <2>2, <3>1, SumUpper, Zenon
  <2>4. z * SumFunctionOnSet(f, Guest) = 0 /\ Cardinality(Guest) * k \in Int BY <1>2, <2>1, Constants
  <2> QED BY <2>3, <2>4
<1> QED BY <1>1, <1>2, <1>3, <1>4

\* What happens in it is in the counters.
LEMMA WorkAccounted ==
  ASSUME FiguresTypes, InTime, InTime', Accounted, NEW c, NEW b, NEW o, WorkWith(c, b, o), si' = si,
         FiguresTypes'
  PROVE  Accounted'
<1> SUFFICES ASSUME si # Nothing
             PROVE  /\ host'.cpu["kernel"] = Uint64(si.cpu["kernel"] + did'.os)
                    /\ host'.cpu["iowait"] = si.cpu["iowait"]
                    /\ host'.cpu["user"] = Uint64(si.cpu["user"] + SumFunction(did'.cpu))
                    /\ \A g \in DOMAIN si.Vms \ did'.stopped :
                         /\ host'.vms[g].cpu = Uint64(si.Vms[g].cpu_time + did'.cpu[g])
                         /\ host'.vms[g].rx = Int64(si.Vms[g].net_rx + did'.rx[g])
                    /\ \A g \in did'.stopped : host'.vms[g].rx \in 0..did'.rx[g]
  BY DEF Accounted
<1> DEFINE dt == host'.ts - si.Ts
<1>1. dt \in Nat /\ dt <= MaxTs
  <2>1. host'.ts \in 1..MaxTs /\ si.Ts \in 1..host'.ts BY DEF FiguresTypes
  <2> QED BY <2>1, Constants
<1> HIDE DEF dt
<1>2. did'.os <= dt /\ \A g \in Guest : did'.cpu[g] <= Ms * dt /\ did'.rx[g] <= MostBytes * dt
  BY DEF InTime, dt
<1>3. Ms * dt <= Ms * MaxTs /\ MostBytes * dt <= MostBytes * MaxTs
  BY <1>1, Constants, MulMono
<1>4. /\ did'.cpu \in [Guest -> Nat] /\ did'.rx \in [Guest -> Nat] /\ did'.os \in Nat
      /\ did.cpu \in [Guest -> Nat] /\ did.rx \in [Guest -> Nat] /\ did.os \in Nat
      /\ did.stopped \subseteq Guest /\ DOMAIN si.Vms \subseteq Guest
  BY DEF FiguresTypes
<1>5. /\ c \in [Guest -> Nat] /\ b \in Nat /\ o \in Nat
      /\ \A g \in Guest : did'.cpu[g] = did.cpu[g] + c[g]
  BY Constants DEF WorkWith
<1>6. Ms * MaxTs <= MaxUint64 /\ MaxTs <= MaxUint64 /\ MostBytes * MaxTs <= MaxInt64
      /\ Cardinality(Guest) * (Ms * MaxTs) <= MaxUint64 /\ Ms * MaxTs \in Nat /\ MostBytes * MaxTs \in Nat
  <2>1. Ms * MaxTs \in Nat /\ MostBytes * MaxTs \in Nat BY Constants
  <2>2. 1 * (Ms * MaxTs) <= Percent * (Ms * MaxTs) BY <2>1, Constants
  <2>3. 1 * (MostBytes * MaxTs) <= Sec * (MostBytes * MaxTs) BY <2>1, Constants
  <2>4. Percent * (Ms * MaxTs) \in Nat /\ Sec * (MostBytes * MaxTs) \in Nat /\ Cardinality(Guest) * (Ms * MaxTs) \in Nat
    BY <2>1, Constants
  <2>5. 1 * MaxTs <= Ms * MaxTs BY Constants
  <2> QED BY <2>1, <2>2, <2>3, <2>4, <2>5, WidthAssumption, Ranges, Halves, Constants
<1>7. host'.cpu["kernel"] = Uint64(si.cpu["kernel"] + did'.os) /\ host'.cpu["iowait"] = si.cpu["iowait"]
  <2>1. /\ host.cpu["kernel"] = Uint64(si.cpu["kernel"] + did.os) /\ host.cpu["iowait"] = si.cpu["iowait"]
        /\ host'.cpu["kernel"] = Uint64(host.cpu["kernel"] + o) /\ did'.os = did.os + o
        /\ host'.cpu["iowait"] = host.cpu["iowait"]
    BY DEF Accounted, WorkWith
  <2>2. si.cpu["kernel"] \in 0..MaxUint64 BY DEF FiguresTypes, CpuKinds
  <2>3. did.os + o <= MaxUint64 BY <1>1, <1>2, <1>4, <1>6, <2>1, Ranges, Constants
  <2> QED BY <1>4, <1>5, <2>1, <2>2, <2>3, CountOn
<1>8. host'.cpu["user"] = Uint64(si.cpu["user"] + SumFunction(did'.cpu))
  <2>1. /\ host.cpu["user"] = Uint64(si.cpu["user"] + SumFunction(did.cpu))
        /\ host'.cpu["user"] = Uint64(host.cpu["user"] + SumFunction(c))
    BY DEF Accounted, WorkWith
  <2>2. si.cpu["user"] \in 0..MaxUint64 BY DEF FiguresTypes, CpuKinds
  <2>3. SumFunction(did.cpu) \in Nat /\ SumFunction(c) \in Nat /\ SumFunction(did'.cpu) \in Nat
    BY <1>4, <1>5, SumOverGuests
  <2>4. SumFunction(did'.cpu) = SumFunction(did.cpu) + SumFunction(c)
    <3>1. /\ SumFunction(did.cpu) = SumFunctionOnSet(did.cpu, Guest)
          /\ SumFunction(c) = SumFunctionOnSet(c, Guest)
          /\ SumFunction(did'.cpu) = SumFunctionOnSet(did'.cpu, Guest)
      BY <1>4, <1>5, SumOverGuests
    <3>2. SumFunctionOnSet(did'.cpu, Guest) = SumFunctionOnSet(did.cpu, Guest) + SumFunctionOnSet(c, Guest)
      BY <1>4, <1>5, SumAdd, Constants
    <3> QED BY <3>1, <3>2
  <2>5. SumFunction(did'.cpu) <= Cardinality(Guest) * (Ms * MaxTs)
    <3>1. \A g \in Guest : did'.cpu[g] <= Ms * MaxTs
      <4> SUFFICES ASSUME NEW g \in Guest PROVE did'.cpu[g] <= Ms * MaxTs OBVIOUS
      <4>1. Ms * dt \in Int BY <1>1, Constants
      <4> QED BY <1>2, <1>3, <1>4, <1>6, <4>1
    <3> QED BY <3>1, <1>4, <1>6, SumOverGuests
  <2>6. SumFunction(did.cpu) + SumFunction(c) <= MaxUint64
    <3>1. Cardinality(Guest) * (Ms * MaxTs) \in Int BY <1>6, Constants
    <3> QED BY <1>6, <2>3, <2>4, <2>5, <3>1, Ranges
  <2> QED BY <2>1, <2>2, <2>3, <2>4, <2>6, CountOn
<1>9. ASSUME NEW g \in Guest PROVE did'.cpu[g] <= MaxUint64 /\ did'.rx[g] <= MaxInt64
  <2>1. Ms * dt \in Int /\ MostBytes * dt \in Int BY <1>1, Constants
  <2> QED BY <1>2, <1>3, <1>4, <1>6, <2>1, Ranges
<1>10. ASSUME NEW g \in DOMAIN si.Vms \ did'.stopped
       PROVE  /\ host'.vms[g].cpu = Uint64(si.Vms[g].cpu_time + did'.cpu[g])
              /\ host'.vms[g].rx = Int64(si.Vms[g].net_rx + did'.rx[g])
  <2>1. g \in Guest /\ g \in DOMAIN si.Vms \ did.stopped BY <1>4 DEF WorkWith
  <2>2. /\ host.vms[g].cpu = Uint64(si.Vms[g].cpu_time + did.cpu[g])
        /\ host.vms[g].rx = Int64(si.Vms[g].net_rx + did.rx[g])
    BY <2>1 DEF Accounted
  <2>3. si.Vms[g].cpu_time \in 0..MaxUint64 /\ si.Vms[g].net_rx \in MinInt64..MaxInt64
    BY DEF FiguresTypes
  <2>4. host'.vms[g].cpu = Uint64(host.vms[g].cpu + c[g]) BY <2>1 DEF WorkWith
  <2>5. host'.vms[g].cpu = Uint64(si.Vms[g].cpu_time + did'.cpu[g])
    <3>1. did.cpu[g] \in Nat /\ c[g] \in Nat /\ did'.cpu[g] = did.cpu[g] + c[g] BY <1>4, <1>5, <2>1
    <3> QED BY <1>9, <2>1, <2>2, <2>3, <2>4, <3>1, CountOn
  <2>6. CASE host.vms[g].on
    <3>1. /\ host'.vms[g].rx = Int64(host.vms[g].rx + b) /\ did'.rx[g] = did.rx[g] + b
          /\ did.rx[g] \in Nat
      BY <1>4, <2>1, <2>6 DEF WorkWith
    <3> QED BY <1>5, <1>9, <2>1, <2>2, <2>3, <2>5, <3>1, CountOnInt
  <2>7. CASE ~host.vms[g].on
    <3>1. host'.vms[g].rx = host.vms[g].rx /\ did'.rx[g] = did.rx[g]
      BY <2>1, <2>7 DEF WorkWith
    <3> QED BY <2>2, <2>5, <3>1
  <2> QED BY <2>6, <2>7
<1>11. ASSUME NEW g \in did'.stopped PROVE host'.vms[g].rx \in 0..did'.rx[g]
  <2>1. g \in Guest /\ g \in did.stopped /\ did.rx[g] \in Nat BY <1>4 DEF WorkWith
  <2>2. host.vms[g].rx \in 0..did.rx[g] BY <2>1 DEF Accounted
  <2>3. CASE host.vms[g].on
    <3>1. host'.vms[g].rx = Int64(host.vms[g].rx + b) /\ did'.rx[g] = did.rx[g] + b
      BY <2>1, <2>3 DEF WorkWith
    <3>2. Int64(host.vms[g].rx + b) = host.vms[g].rx + b
      BY <1>5, <1>9, <2>1, <2>2, <3>1, Int64Is, Ranges
    <3> QED BY <1>5, <2>1, <2>2, <3>1, <3>2
  <2>4. CASE ~host.vms[g].on
    <3>1. host'.vms[g].rx = host.vms[g].rx /\ did'.rx[g] = did.rx[g]
      BY <2>1, <2>4 DEF WorkWith
    <3> QED BY <2>2, <3>1
  <2> QED BY <2>3, <2>4
<1> QED BY <1>7, <1>8, <1>10, <1>11

\* A domain that stops keeps FiguresInv.
LEMMA StopInv == ASSUME FiguresInv, NEW g \in Guest, Stop(g) PROVE FiguresInv'
<1>1. /\ host \in [ts : 1..MaxTs, faults : Nat, os : OsMemory, cpu : [CpuKinds -> 0..MaxUint64],
                  vms : [Guest -> [on : BOOLEAN, cpu : 0..MaxUint64, rx : MinInt64..MaxInt64]]]
      /\ did \in [cpu : [Guest -> Nat], rx : [Guest -> Nat], os : Nat, stopped : SUBSET Guest]
  BY DEF FiguresInv, FiguresTypes
<1> DEFINE off == [on |-> FALSE, cpu |-> 0, rx |-> 0]
<1>2. off \in [on : BOOLEAN, cpu : 0..MaxUint64, rx : MinInt64..MaxInt64] BY Ranges
<1>3. /\ host' = [host EXCEPT !.faults = @ + 1, !.vms[g] = off]
      /\ did' = [did EXCEPT !.stopped = @ \cup {g}] /\ UNCHANGED <<si, last>>
  BY DEF Stop
<1> HIDE DEF off
<1>4. /\ host' \in [ts : 1..MaxTs, faults : Nat, os : OsMemory, cpu : [CpuKinds -> 0..MaxUint64],
                   vms : [Guest -> [on : BOOLEAN, cpu : 0..MaxUint64, rx : MinInt64..MaxInt64]]]
      /\ host'.ts = host.ts /\ host'.cpu = host.cpu /\ host'.vms = [host.vms EXCEPT ![g] = off]
  <2> DEFINE vms == [host.vms EXCEPT ![g] = off]
  <2>1. vms \in [Guest -> [on : BOOLEAN, cpu : 0..MaxUint64, rx : MinInt64..MaxInt64]] BY <1>1, <1>2
  <2>2. host' = [host EXCEPT !.faults = host.faults + 1, !.vms = vms] BY <1>1, <1>3
  <2> HIDE DEF vms
  <2>3. /\ host' \in [ts : 1..MaxTs, faults : Nat, os : OsMemory, cpu : [CpuKinds -> 0..MaxUint64],
                       vms : [Guest -> [on : BOOLEAN, cpu : 0..MaxUint64, rx : MinInt64..MaxInt64]]]
        /\ host'.ts = host.ts /\ host'.cpu = host.cpu /\ host'.vms = vms
    <3>1. host.faults + 1 \in Nat BY <1>1
    <3>2. PICK n \in Nat : n = host.faults + 1 BY <3>1
    <3>3. host' = [host EXCEPT !.faults = n, !.vms = vms] BY <2>2, <3>2
    <3> QED BY <1>1, <2>1, <3>3
  <2> QED BY <2>3 DEF vms
<1>5. /\ did' \in [cpu : [Guest -> Nat], rx : [Guest -> Nat], os : Nat, stopped : SUBSET Guest]
      /\ did'.cpu = did.cpu /\ did'.rx = did.rx /\ did'.os = did.os /\ did'.stopped = did.stopped \cup {g}
  BY <1>1, <1>3
<1>6. FiguresTypes' BY <1>3, <1>4, <1>5 DEF FiguresInv, FiguresTypes
<1>7. InTime' BY <1>3, <1>4, <1>5 DEF FiguresInv, InTime
<1>8. Accounted'
  <2> SUFFICES ASSUME si # Nothing
               PROVE  /\ host'.cpu["kernel"] = Uint64(si.cpu["kernel"] + did'.os)
                      /\ host'.cpu["iowait"] = si.cpu["iowait"]
                      /\ host'.cpu["user"] = Uint64(si.cpu["user"] + SumFunction(did'.cpu))
                      /\ \A q \in DOMAIN si.Vms \ did'.stopped :
                           /\ host'.vms[q].cpu = Uint64(si.Vms[q].cpu_time + did'.cpu[q])
                           /\ host'.vms[q].rx = Int64(si.Vms[q].net_rx + did'.rx[q])
                      /\ \A q \in did'.stopped : host'.vms[q].rx \in 0..did'.rx[q]
    BY <1>3 DEF Accounted
  <2>1. /\ \A q \in Guest : q # g => host'.vms[q] = host.vms[q]
        /\ host'.vms[g].rx = 0 /\ did.rx[g] \in Nat
    BY <1>1, <1>4 DEF off
  <2>2. DOMAIN si.Vms \subseteq Guest /\ did.stopped \subseteq Guest BY DEF FiguresInv, FiguresTypes
  <2> QED BY <1>4, <1>5, <2>1, <2>2 DEF FiguresInv, Accounted
<1> QED BY <1>3, <1>6, <1>7, <1>8, SameSnapshot DEF FiguresInv

\* And so does one that is started.
LEMMA BootInv == ASSUME FiguresInv, NEW g \in Guest, Boot(g) PROVE FiguresInv'
<1>1. host \in [ts : 1..MaxTs, faults : Nat, os : OsMemory, cpu : [CpuKinds -> 0..MaxUint64],
                vms : [Guest -> [on : BOOLEAN, cpu : 0..MaxUint64, rx : MinInt64..MaxInt64]]]
  BY DEF FiguresInv, FiguresTypes
<1>2. host' = [host EXCEPT !.vms[g].on = TRUE] /\ UNCHANGED <<si, did, last>> BY DEF Boot
<1>3. /\ host' \in [ts : 1..MaxTs, faults : Nat, os : OsMemory, cpu : [CpuKinds -> 0..MaxUint64],
                   vms : [Guest -> [on : BOOLEAN, cpu : 0..MaxUint64, rx : MinInt64..MaxInt64]]]
      /\ host'.ts = host.ts /\ host'.cpu = host.cpu
      /\ \A q \in Guest : host'.vms[q].cpu = host.vms[q].cpu /\ host'.vms[q].rx = host.vms[q].rx
  BY <1>1, <1>2
<1>4. FiguresTypes' BY <1>2, <1>3 DEF FiguresInv, FiguresTypes
<1>5. InTime' BY <1>2, <1>3 DEF FiguresInv, InTime
<1>6. Accounted'
  <2>1. si # Nothing => DOMAIN si.Vms \subseteq Guest BY DEF FiguresInv, FiguresTypes
  <2>2. did.stopped \subseteq Guest BY DEF FiguresInv, FiguresTypes
  <2> QED BY <1>2, <1>3, <2>1, <2>2 DEF FiguresInv, Accounted
<1> QED BY <1>2, <1>4, <1>5, <1>6, SameSnapshot DEF FiguresInv

-----------------------------------------------------------------------------
(* Figures: a snapshot                                                      *)

\* What a snapshot without the VMs in skip changes.
SnapshotWith(skip) ==
  /\ skip \in SUBSET Guest
  /\ si' = system_info_get(skip)
  /\ last' = [did |-> did, os |-> host.os, on |-> {g \in Guest : host.vms[g].on}, skip |-> skip,
              old |-> IF si = Nothing THEN Nothing
                      ELSE [Ts |-> si.Ts, net_rx |-> [g \in DOMAIN si.Vms |-> si.Vms[g].net_rx]]]
  /\ did' = NoWork
  /\ host'.ts = host.ts /\ host'.os = host.os /\ host'.cpu = host.cpu /\ host'.vms = host.vms

\* The stats before of a VM.
Before(g) == IF si # Nothing /\ g \in DOMAIN si.Vms THEN si.Vms[g] ELSE Nothing

\* The figures of a VM have their types, and its counters are kept with them.
LEMMA StatsType ==
  ASSUME FiguresTypes, NEW g \in Guest
  PROVE  /\ get_domain_stats(g, host.vms[g], host.ts, Before(g)) \in Vmstats
         /\ get_domain_stats(g, host.vms[g], host.ts, Before(g)).cpu_time = host.vms[g].cpu
         /\ get_domain_stats(g, host.vms[g], host.ts, Before(g)).net_rx = host.vms[g].rx
         /\ get_domain_stats(g, host.vms[g], host.ts, Before(g)).Ts = host.ts
<1> DEFINE d == host.vms[g]
           old == Before(g)
           ts == host.ts
<1>1. d \in [on : BOOLEAN, cpu : 0..MaxUint64, rx : MinInt64..MaxInt64] /\ ts \in Int
  BY Constants DEF FiguresTypes
<1>2. d.cpu \in Int /\ d.rx \in Int /\ ts \in Int BY <1>1, Ranges
<1>3. Capacity[g] \div KiB \in Int /\ Rss[g] \div KiB \in Int
  <2>1. Capacity[g] \in Int /\ Rss[g] \in Int BY FiguresAssumption
  <2> QED BY <2>1, DivBounds, Constants
<1>4. old = Nothing \/ (old \in Vmstats /\ old.cpu_time \in Int /\ old.net_rx \in Int /\ old.Ts \in Int)
  BY DEF Before, FiguresTypes, Vmstats
<1>5. ASSUME NEW x \in Int, NEW dt \in Int PROVE Utilization(x, dt) \in Int
  <2>1. CASE x > 0 /\ dt > 0
    <3>1. dt * Ms \in Nat \ {0} /\ x * Percent \in Int BY <2>1, Constants
    <3>2. Uint64(x * Percent) \in Int BY <3>1, Uint64Is, Ranges
    <3>3. Uint64(x * Percent) \div (dt * Ms) \in Int BY <3>1, <3>2, DivBounds
    <3>4. PICK q \in Int : q = Uint64(x * Percent) \div (dt * Ms) BY <3>3
    <3>5. Int32(q) \in Int BY <3>4, Halves DEF Int32
    <3> QED BY <2>1, <3>4, <3>5 DEF Utilization
  <2>2. CASE ~(x > 0 /\ dt > 0) BY <2>2 DEF Utilization
  <2> QED BY <2>1, <2>2
<1>6. ASSUME NEW x \in Int, NEW dt \in Int PROVE Bandwidth(x, dt) \in Int
  <2>1. CASE x > 0 /\ dt > 0
    <3>1. dt * KiB \in Nat \ {0} /\ x * Sec \in Int BY <2>1, Constants
    <3>2. Int64(x * Sec) \in Int BY <3>1, Int64Is, Ranges
    <3>3. Int64(x * Sec) \div (dt * KiB) \in Int BY <3>1, <3>2, DivBounds
    <3>4. PICK q \in Int : q = Int64(x * Sec) \div (dt * KiB) BY <3>3
    <3>5. Int32(q) \in Int BY <3>4, Halves DEF Int32
    <3> QED BY <2>1, <3>4, <3>5 DEF Bandwidth
  <2>2. CASE ~(x > 0 /\ dt > 0) BY <2>2 DEF Bandwidth
  <2> QED BY <2>1, <2>2
<1>7. ASSUME NEW x \in Int, NEW y \in Int
      PROVE  Counter_delta_uint64(x, y) \in Int /\ Counter_delta_int64(x, y) \in Int
  BY Uint64Is, Int64Is, Ranges DEF Counter_delta_uint64, Counter_delta_int64
<1> DEFINE util == IF old = Nothing THEN 0
                   ELSE Utilization(Counter_delta_uint64(d.cpu, old.cpu_time), ts - old.Ts)
           bw == IF old = Nothing THEN 0
                 ELSE Bandwidth(Counter_delta_int64(d.rx, old.net_rx), ts - old.Ts)
           used == IF d.on THEN Rss[g] \div KiB ELSE 0
<1>8. util \in Int
  <2> HIDE DEF d, old, ts
  <2>1. CASE old = Nothing BY <2>1
  <2>2. CASE old # Nothing
    <3>0. old.cpu_time \in Int /\ old.Ts \in Int BY <1>4, <2>2
    <3>1. Counter_delta_uint64(d.cpu, old.cpu_time) \in Int BY <1>2, <1>7, <3>0
    <3>2. ts - old.Ts \in Int BY <1>2, <3>0
    <3> QED BY <1>5, <2>2, <3>1, <3>2
  <2> QED BY <2>1, <2>2
<1>9. bw \in Int
  <2> HIDE DEF d, old, ts
  <2>1. CASE old = Nothing BY <2>1
  <2>2. CASE old # Nothing
    <3>0. old.net_rx \in Int /\ old.Ts \in Int BY <1>4, <2>2
    <3>1. Counter_delta_int64(d.rx, old.net_rx) \in Int BY <1>2, <1>7, <3>0
    <3>2. ts - old.Ts \in Int BY <1>2, <3>0
    <3> QED BY <1>6, <2>2, <3>1, <3>2
  <2> QED BY <2>1, <2>2
<1>10. used \in Int BY <1>3
<1>11. get_domain_stats(g, d, ts, old) =
         [cpu_time |-> d.cpu, net_rx |-> d.rx, Ts |-> ts, MemoryCapacity |-> Capacity[g] \div KiB,
          MemoryUsed |-> used, CpuUtilization |-> util, NetRxBw |-> bw]
  BY DEF get_domain_stats
<1> HIDE DEF d, old, ts, util, bw, used
<1>12. get_domain_stats(g, d, ts, old) \in Vmstats
  BY <1>1, <1>2, <1>3, <1>8, <1>9, <1>10, <1>11 DEF Vmstats
<1>13. /\ get_domain_stats(g, d, ts, old).cpu_time = d.cpu
       /\ get_domain_stats(g, d, ts, old).net_rx = d.rx
       /\ get_domain_stats(g, d, ts, old).Ts = ts
  BY <1>11
<1> QED BY <1>12, <1>13 DEF d, ts, old

\* Snapshot does that.
LEMMA SnapshotDoes ==
  ASSUME FiguresTypes, Snapshot
  PROVE  FiguresTypes' /\ \E skip : SnapshotWith(skip)
<1>1. PICK skip \in {{}} \cup {{g} : g \in Guest} :
        /\ si' = system_info_get(skip)
        /\ last' = [did |-> did, os |-> host.os, on |-> {g \in Guest : host.vms[g].on}, skip |-> skip,
                    old |-> IF si = Nothing THEN Nothing
                            ELSE [Ts |-> si.Ts, net_rx |-> [g \in DOMAIN si.Vms |-> si.Vms[g].net_rx]]]
        /\ did' = NoWork
        /\ host' = [host EXCEPT !.faults = @ + Cardinality(skip)]
  BY DEF Snapshot
<1>2. skip \in SUBSET Guest /\ Cardinality(skip) \in Nat
  BY FS_EmptySet, FS_Singleton
<1>3. host \in [ts : 1..MaxTs, faults : Nat, os : OsMemory, cpu : [CpuKinds -> 0..MaxUint64],
                vms : [Guest -> [on : BOOLEAN, cpu : 0..MaxUint64, rx : MinInt64..MaxInt64]]]
  BY DEF FiguresTypes
<1>4. /\ host' \in [ts : 1..MaxTs, faults : Nat, os : OsMemory, cpu : [CpuKinds -> 0..MaxUint64],
                    vms : [Guest -> [on : BOOLEAN, cpu : 0..MaxUint64, rx : MinInt64..MaxInt64]]]
      /\ host'.ts = host.ts /\ host'.os = host.os /\ host'.cpu = host.cpu /\ host'.vms = host.vms
  BY <1>1, <1>2, <1>3
<1>5. did' \in [cpu : [Guest -> Nat], rx : [Guest -> Nat], os : Nat, stopped : SUBSET Guest]
  BY <1>1 DEF NoWork
<1>6. /\ si'.Ts = host.ts /\ si'.cpu = host.cpu
      /\ si'.Vms = [g \in Guest \ skip |-> get_domain_stats(g, host.vms[g], host.ts, Before(g))]
  BY <1>1 DEF system_info_get, Before
<1>7. ASSUME NEW g \in DOMAIN si'.Vms
      PROVE  /\ si'.Vms[g] \in Vmstats /\ si'.Vms[g].Ts = si'.Ts
             /\ si'.Vms[g].cpu_time \in 0..MaxUint64 /\ si'.Vms[g].net_rx \in MinInt64..MaxInt64
  <2>1. g \in Guest /\ si'.Vms[g] = get_domain_stats(g, host.vms[g], host.ts, Before(g)) BY <1>6
  <2>2. host.vms[g].cpu \in 0..MaxUint64 /\ host.vms[g].rx \in MinInt64..MaxInt64 BY <1>3, <2>1
  <2> QED BY <1>6, <2>1, <2>2, StatsType
<1>8. si'.Ts \in 1..host'.ts /\ si'.cpu \in [CpuKinds -> 0..MaxUint64] /\ DOMAIN si'.Vms \subseteq Guest
  BY <1>3, <1>4, <1>6, Constants
<1>9. FiguresTypes' BY <1>4, <1>5, <1>7, <1>8 DEF FiguresTypes
<1>10. SnapshotWith(skip) BY <1>1, <1>2, <1>4 DEF SnapshotWith
<1> QED BY <1>9, <1>10

\* After a snapshot nothing has happened, and nothing is missing from the counters.
LEMMA SnapshotNew ==
  ASSUME FiguresTypes, FiguresTypes', NEW skip, SnapshotWith(skip)
  PROVE  InTime' /\ Accounted'
<1>1. /\ si'.Ts = host.ts /\ si'.cpu = host.cpu
      /\ si'.Vms = [g \in Guest \ skip |-> get_domain_stats(g, host.vms[g], host.ts, Before(g))]
  BY DEF SnapshotWith, system_info_get, Before
<1>2. /\ did'.os = 0 /\ did'.stopped = {}
      /\ did'.cpu = [g \in Guest |-> 0] /\ did'.rx = [g \in Guest |-> 0]
      /\ host'.ts = host.ts /\ host'.cpu = host.cpu /\ host'.vms = host.vms
  BY DEF SnapshotWith, NoWork
<1>3. host.ts - host.ts = 0 /\ Ms * 0 = 0 /\ MostBytes * 0 = 0
  BY Constants DEF FiguresTypes
<1>4. InTime' BY <1>1, <1>2, <1>3 DEF InTime
<1>5. ASSUME NEW x \in 0..MaxUint64 PROVE Uint64(x + 0) = x BY Uint64Is, Ranges
<1>6. ASSUME NEW x \in MinInt64..MaxInt64 PROVE Int64(x + 0) = x BY Int64Is, Ranges
<1>7. SumFunction(did'.cpu) = 0
  <2>1. did'.cpu \in [Guest -> Nat] /\ \A g \in Guest : did'.cpu[g] <= 0 BY <1>2
  <2>2. SumFunction(did'.cpu) \in Nat /\ SumFunction(did'.cpu) <= Cardinality(Guest) * 0
    BY <2>1, SumOverGuests
  <2>3. Cardinality(Guest) * 0 = 0 BY Constants
  <2> QED BY <2>2, <2>3
<1>8. host.cpu["kernel"] \in 0..MaxUint64 /\ host.cpu["user"] \in 0..MaxUint64
  BY DEF FiguresTypes, CpuKinds
<1>9. ASSUME NEW g \in DOMAIN si'.Vms
      PROVE  /\ host'.vms[g].cpu = Uint64(si'.Vms[g].cpu_time + did'.cpu[g])
             /\ host'.vms[g].rx = Int64(si'.Vms[g].net_rx + did'.rx[g])
  <2>1. g \in Guest /\ si'.Vms[g] = get_domain_stats(g, host.vms[g], host.ts, Before(g)) BY <1>1
  <2>2. si'.Vms[g].cpu_time = host.vms[g].cpu /\ si'.Vms[g].net_rx = host.vms[g].rx
    BY <2>1, StatsType
  <2>3. host.vms[g].cpu \in 0..MaxUint64 /\ host.vms[g].rx \in MinInt64..MaxInt64
    BY <2>1 DEF FiguresTypes
  <2>4. did'.cpu[g] = 0 /\ did'.rx[g] = 0 BY <1>2, <2>1
  <2> QED BY <1>2, <1>5, <1>6, <2>2, <2>3, <2>4
<1>10. Accounted' BY <1>1, <1>2, <1>5, <1>7, <1>8, <1>9 DEF Accounted
<1> QED BY <1>4, <1>10

\* A snapshot tells what happened since the one before.
LEMMA SnapshotDeltas ==
  ASSUME FiguresTypes, InTime, Accounted, NEW skip, SnapshotWith(skip)
  PROVE  DeltasExact'
<1> SUFFICES ASSUME NEW g \in Compared'
             PROVE  /\ g \notin last'.did.stopped /\ Interval' > 0 =>
                         /\ si'.Vms[g].CpuUtilization = (Percent * last'.did.cpu[g]) \div (Ms * Interval')
                         /\ si'.Vms[g].NetRxBw = (Sec * last'.did.rx[g]) \div (KiB * Interval')
                    /\ last'.old.net_rx[g] >= 0 =>
                         /\ si'.Vms[g].NetRxBw >= 0
                         /\ si'.Vms[g].NetRxBw * KiB * Interval' <= Sec * last'.did.rx[g]
  BY DEF DeltasExact
<1>1. /\ si'.Ts = host.ts
      /\ si'.Vms = [q \in Guest \ skip |-> get_domain_stats(q, host.vms[q], host.ts, Before(q))]
  BY DEF SnapshotWith, system_info_get, Before
<1>2. si # Nothing
  <2> SUFFICES ASSUME si = Nothing PROVE FALSE OBVIOUS
  <2>1. last'.old = Nothing BY DEF SnapshotWith
  <2> QED BY <2>1 DEF Compared
<1>3. /\ last'.did = did /\ last'.old = [Ts |-> si.Ts, net_rx |-> [q \in DOMAIN si.Vms |-> si.Vms[q].net_rx]]
  BY <1>2 DEF SnapshotWith
<1>4. g \in DOMAIN si.Vms /\ g \in Guest \ skip /\ g \in Guest
  BY <1>1, <1>3 DEF Compared
<1>5. last'.old.net_rx[g] = si.Vms[g].net_rx /\ Interval' = host.ts - si.Ts
  BY <1>1, <1>3, <1>4 DEF Interval
<1> DEFINE dt == host.ts - si.Ts
           c0 == si.Vms[g].cpu_time
           r0 == si.Vms[g].net_rx
           d == did.cpu[g]
           r == did.rx[g]
           c1 == host.vms[g].cpu
           r1 == host.vms[g].rx
<1>6. dt \in Nat /\ dt <= MaxTs
  <2>1. host.ts \in 1..MaxTs /\ si.Ts \in 1..host.ts BY <1>2 DEF FiguresTypes
  <2> QED BY <2>1, Constants
<1>7. c0 \in 0..MaxUint64 /\ r0 \in MinInt64..MaxInt64 /\ si.Vms[g].Ts = si.Ts /\ si.Vms[g] # Nothing
  BY <1>2, <1>4, FiguresAssumption DEF FiguresTypes
<1>8. d \in Nat /\ r \in Nat /\ d <= Ms * dt /\ r <= MostBytes * dt
  BY <1>2, <1>4 DEF FiguresTypes, InTime
<1>9. /\ si'.Vms[g].CpuUtilization = Utilization(Counter_delta_uint64(c1, c0), dt)
      /\ si'.Vms[g].NetRxBw = Bandwidth(Counter_delta_int64(r1, r0), dt)
  <2>1. Before(g) = si.Vms[g] BY <1>2, <1>4 DEF Before
  <2>2. si'.Vms[g] = get_domain_stats(g, host.vms[g], host.ts, si.Vms[g]) BY <1>1, <1>4, <2>1
  <2> QED BY <1>7, <2>2 DEF get_domain_stats
<1>10. d <= MaxUint64 /\ r <= MaxInt64
  <2>1. Ms * dt <= Ms * MaxTs /\ MostBytes * dt <= MostBytes * MaxTs BY <1>6, Constants, MulMono
  <2>2. /\ Ms * MaxTs \in Nat /\ MostBytes * MaxTs \in Nat
        /\ Ms * dt \in Nat /\ MostBytes * dt \in Nat
    BY <1>6, Constants
  <2>3. 1 * (Ms * MaxTs) <= Percent * (Ms * MaxTs) BY <2>2, Constants
  <2>4. 1 * (MostBytes * MaxTs) <= Sec * (MostBytes * MaxTs) BY <2>2, Constants
  <2>5. Percent * (Ms * MaxTs) \in Nat /\ Sec * (MostBytes * MaxTs) \in Nat BY <2>2, Constants
  <2> HIDE DEF dt, d, r
  <2> QED BY <1>8, <2>1, <2>2, <2>3, <2>4, <2>5, WidthAssumption, Ranges, Halves
<1> HIDE DEF dt, c0, r0, d, r, c1, r1
<1>11. CASE g \notin did.stopped
  <2>1. c1 = Uint64(c0 + d) /\ r1 = Int64(r0 + r)
    BY <1>2, <1>4, <1>11 DEF Accounted, c0, c1, r0, r1, d, r
  <2>2. Counter_delta_uint64(c1, c0) = d BY <1>7, <1>8, <1>10, <2>1, DeltaUint64, Ranges
  <2>3. Counter_delta_int64(r1, r0) = r BY <1>7, <1>8, <1>10, <2>1, DeltaInt64, Ranges
  <2>4. CASE dt > 0
    <3>1. dt \in 1..MaxTs BY <1>6, <2>4, Constants
    <3>2. si'.Vms[g].CpuUtilization = (Percent * d) \div (Ms * dt) BY <1>8, <1>9, <2>2, <3>1, UtilizationIs
    <3>3. /\ si'.Vms[g].NetRxBw = (Sec * r) \div (KiB * dt) /\ si'.Vms[g].NetRxBw \in Nat
      BY <1>8, <1>9, <2>3, <3>1, BandwidthIs
    <3>4. si'.Vms[g].NetRxBw * KiB * dt <= Sec * r
      <4> DEFINE q == si'.Vms[g].NetRxBw
                 D == KiB * dt
      <4>1. D \in Nat \ {0} /\ Sec * r \in Int BY <1>8, <3>1, Constants
      <4> HIDE DEF q, D
      <4>2. q = (Sec * r) \div D /\ q \in Nat BY <3>3 DEF q, D
      <4>3. D * q <= Sec * r BY <4>1, <4>2, DivBounds
      <4>4. q * KiB * dt = D * q BY <4>2, <3>1, Constants DEF D
      <4> QED BY <4>3, <4>4 DEF q
    <3> QED BY <1>3, <1>5, <3>2, <3>3, <3>4, <1>11 DEF dt, d, r, r0
  <2>5. CASE dt = 0
    <3>1. si'.Vms[g].NetRxBw = 0 BY <1>9, <2>5 DEF Bandwidth
    <3>2. 0 * KiB * dt <= Sec * r BY <1>8, <2>5, Constants
    <3> QED BY <1>3, <1>5, <2>5, <3>1, <3>2 DEF dt, r
  <2> QED BY <1>6, <2>4, <2>5
<1>12. CASE g \in did.stopped
  <2> SUFFICES ASSUME r0 >= 0 PROVE si'.Vms[g].NetRxBw >= 0 /\ si'.Vms[g].NetRxBw * KiB * dt <= Sec * r
    BY <1>3, <1>5, <1>12 DEF dt, r, r0
  <2>1. r1 \in 0..r BY <1>2, <1>12 DEF Accounted, r1, r
  <2>2. Counter_delta_int64(r1, r0) = r1 - r0 BY <1>7, <1>8, <1>10, <2>1, DeltaRestart, Ranges
  <2>3. CASE r1 - r0 > 0 /\ dt > 0
    <3>1. PICK e \in Nat : e = r1 - r0 BY <2>1, <2>3, <1>7, <1>8, Ranges
    <3>2. e <= r BY <2>1, <3>1, <1>7, <1>8, Ranges
    <3>3. dt \in 1..MaxTs BY <1>6, <2>3, Constants
    <3>4. e <= MostBytes * dt
      <4>1. MostBytes * dt \in Int BY <1>6, Constants
      <4> QED BY <1>8, <3>2, <4>1
    <3> DEFINE q == si'.Vms[g].NetRxBw
               D == KiB * dt
    <3>5. q = (Sec * e) \div D /\ q \in Nat BY <1>9, <2>2, <3>1, <3>3, <3>4, BandwidthIs
    <3>6. D \in Nat \ {0} /\ Sec * e \in Int /\ Sec * r \in Int BY <1>8, <3>3, Constants
    <3>7. Sec * e <= Sec * r BY <1>8, <3>2, Constants, MulMono
    <3> HIDE DEF q, D
    <3>8. D * q <= Sec * e BY <3>5, <3>6, DivBounds
    <3>9. q * KiB * dt = D * q BY <3>3, <3>5, Constants DEF D
    <3>10. D * q \in Int BY <3>5, <3>6
    <3> QED BY <3>5, <3>6, <3>7, <3>8, <3>9, <3>10 DEF q
  <2>4. CASE ~(r1 - r0 > 0 /\ dt > 0)
    <3>1. si'.Vms[g].NetRxBw = 0 BY <1>9, <2>2, <2>4 DEF Bandwidth
    <3>2. 0 * KiB * dt <= Sec * r BY <1>6, <1>8, Constants
    <3> QED BY <3>1, <3>2
  <2> QED BY <2>3, <2>4
<1> QED BY <1>11, <1>12

\* The sum of quotients, times the divisor, is less than the sum by what the divisions lose.
LEMMA SumQuotients ==
  ASSUME NEW D \in Nat \ {0}, NEW h \in [Guest -> Nat], NEW f \in [Guest -> Int],
         \A g \in Guest : f[g] = h[g] \div D
  PROVE  /\ SumFunction(f) \in Nat /\ SumFunction(h) \in Nat
         /\ D * SumFunction(f) <= SumFunction(h)
         /\ SumFunction(h) <= D * SumFunction(f) + Cardinality(Guest) * (D - 1)
<1>1. SumFunction(h) = SumFunctionOnSet(h, Guest) /\ SumFunction(h) \in Nat BY SumOverGuests
<1>2. \A g \in Guest : f[g] \in Nat
  <2> SUFFICES ASSUME NEW g \in Guest PROVE f[g] \in Nat OBVIOUS
  <2>1. h[g] \in Nat /\ h[g] <= h[g] * D OBVIOUS
  <2> QED BY <2>1, QuotientBound
<1>3. f \in [Guest -> Nat] BY <1>2
<1>4. SumFunction(f) = SumFunctionOnSet(f, Guest) /\ SumFunction(f) \in Nat BY <1>3, SumOverGuests
<1>5. \A g \in Guest : D * f[g] <= h[g] /\ h[g] <= D * f[g] + (D - 1)
  <2> SUFFICES ASSUME NEW g \in Guest PROVE D * f[g] <= h[g] /\ h[g] <= D * f[g] + (D - 1) OBVIOUS
  <2>1. PICK x \in Int : x = h[g] OBVIOUS
  <2> QED BY <2>1, DivBounds
<1>6. /\ IsFiniteSet(Guest) /\ D \in Int /\ D - 1 \in Int
      /\ \A g \in Guest : f[g] \in Int /\ h[g] \in Int
  BY Constants
<1>7. D * SumFunctionOnSet(f, Guest) <= SumFunctionOnSet(h, Guest) BY <1>5, <1>6, SumLower, Zenon
<1>8. SumFunctionOnSet(h, Guest) <= D * SumFunctionOnSet(f, Guest) + Cardinality(Guest) * (D - 1)
  BY <1>5, <1>6, SumUpper, Zenon
<1> QED BY <1>1, <1>4, <1>7, <1>8

\* A factor can be taken out of a sum.
LEMMA SumScaled ==
  ASSUME NEW k \in Nat, NEW f \in [Guest -> Nat], NEW h \in [Guest -> Nat],
         \A g \in Guest : h[g] = k * f[g]
  PROVE  SumFunction(h) = k * SumFunction(f)
<1>1. /\ SumFunction(h) = SumFunctionOnSet(h, Guest) /\ SumFunction(h) \in Nat
      /\ SumFunction(f) = SumFunctionOnSet(f, Guest) /\ SumFunction(f) \in Nat
  BY SumOverGuests
<1>2. PICK z \in Int : z = 0 OBVIOUS
<1>3. /\ IsFiniteSet(Guest) /\ k \in Int
      /\ \A g \in Guest : f[g] \in Int /\ h[g] \in Int /\ k * f[g] <= h[g] /\ h[g] <= k * f[g] + z
  BY <1>2, Constants
<1>4. k * SumFunctionOnSet(f, Guest) <= SumFunctionOnSet(h, Guest) BY <1>3, SumLower, Zenon
<1>5. SumFunctionOnSet(h, Guest) <= k * SumFunctionOnSet(f, Guest) + Cardinality(Guest) * z
  BY <1>3, SumUpper, Zenon
<1>6. Cardinality(Guest) * z = 0 BY <1>2, Constants
<1>7. k * SumFunction(f) \in Int BY <1>1
<1> QED BY <1>1, <1>4, <1>5, <1>6, <1>7

\* Total - free - what the VMs have, each rounded down, is what is left for the OS.
LEMMA Left ==
  ASSUME NEW K \in Nat \ {0}, NEW n \in Nat, NEW a \in Int, NEW b \in Int, NEW c \in Int,
         NEW U \in Int, NEW V \in Int, NEW os \in Int,
         c = a - b - os - V, K * U <= V, V <= K * U + n * (K - 1)
  PROVE  /\ (a \div K - b \div K - c \div K - U) * K - os \in (-(K - 1))..((K - 1) * (2 + n))
         /\ b = 0 => (a \div K - c \div K - U) * K - os \in (-(K - 1))..((K - 1) * (1 + n))
<1> DEFINE x == a \div K
           y == b \div K
           z == c \div K
<1>1. /\ x \in Int /\ K * x <= a /\ a <= K * x + (K - 1)
      /\ y \in Int /\ K * y <= b /\ b <= K * y + (K - 1)
      /\ z \in Int /\ K * z <= c /\ c <= K * z + (K - 1)
  BY DivBounds
<1> HIDE DEF x, y, z
<1>2. (x - y - z - U) * K = K * x - K * y - K * z - K * U BY <1>1
<1>3. (x - z - U) * K = K * x - K * z - K * U BY <1>1
<1>4. (K - 1) * (2 + n) = 2 * (K - 1) + n * (K - 1) /\ (K - 1) * (1 + n) = (K - 1) + n * (K - 1) OBVIOUS
<1>5. K * x \in Int /\ K * y \in Int /\ K * z \in Int /\ K * U \in Int /\ n * (K - 1) \in Int BY <1>1
<1>6. (x - y - z - U) * K - os \in (-(K - 1))..((K - 1) * (2 + n)) BY <1>1, <1>2, <1>4, <1>5
<1>7. b = 0 => (x - z - U) * K - os \in (-(K - 1))..((K - 1) * (1 + n)) BY <1>1, <1>3, <1>4, <1>5
<1> QED BY <1>6, <1>7 DEF x, y, z

\* What a snapshot of all VMs says of memory.
LEMMA SnapshotMemory ==
  ASSUME FiguresTypes, SnapshotWith({})
  PROVE  LET n == Cardinality(Guest) IN
         /\ si'.Memory.Usedos * KiB - last'.os \in (-(KiB - 1))..((KiB - 1) * (2 + n))
         /\ Hugepages \subseteq last'.on =>
              si'.Hp.Usedos * KiB \in (-(KiB - 1))..((KiB - 1) * (1 + n))
<1> DEFINE vms == si'.Vms
           n == Cardinality(Guest)
           mem == Nodeinfo.memory
           hp == Nodeinfo.hp
<1>1. /\ vms = [g \in Guest |-> get_domain_stats(g, host.vms[g], host.ts, Before(g))]
      /\ si'.Memory = MemoryFigures(vms, FreeMemory) /\ si'.Hp = HugepageFigures(vms, HugepagesFree)
  BY DEF SnapshotWith, system_info_get, Before
<1>2. /\ \A g \in Guest : vms[g].MemoryCapacity = Capacity[g] \div KiB
      /\ \A g \in Guest : vms[g].MemoryUsed = IF host.vms[g].on THEN Rss[g] \div KiB ELSE 0
      /\ DOMAIN vms = Guest
  BY <1>1 DEF get_domain_stats
<1>3. /\ Capacity \in [Guest -> Nat] /\ Rss \in [Guest -> Nat] /\ mem \in Int /\ hp \in Int
      /\ host.os \in Int /\ last'.os = host.os /\ last'.on = {g \in Guest : host.vms[g].on}
  <2>1. Capacity \in [Guest -> Nat] /\ Rss \in [Guest -> Nat] /\ mem \in Int /\ hp \in Int
    BY FiguresAssumption
  <2>2. host.os \in OsMemory BY DEF FiguresTypes
  <2>3. host.os \in Int
    <3>1. OsMemory \subseteq Nat BY FiguresAssumption
    <3>2. host.os \in Nat BY <2>2, <3>1, Zenon
    <3> QED BY <3>2
  <2>4. last'.os = host.os /\ last'.on = {g \in Guest : host.vms[g].on} BY DEF SnapshotWith
  <2> QED BY <2>1, <2>3, <2>4
<1>4. 0 \div KiB = 0 /\ \A g \in Guest : Rss[g] \div KiB \in Int /\ Capacity[g] \div KiB \in Int
  <2>1. KiB \in Nat \ {0} BY Constants
  <2>2. 0 \div KiB = 0 BY <2>1
  <2>3. \A a \in Int : a \div KiB \in Int BY <2>1, DivBounds
  <2>4. \A g \in Guest : Rss[g] \in Int /\ Capacity[g] \in Int BY <1>3
  <2> QED BY <2>2, <2>3, <2>4, Zenon
<1> HIDE DEF vms
<1>5. si'.Memory.Usedos * KiB - last'.os \in (-(KiB - 1))..((KiB - 1) * (2 + n))
  <2> DEFINE f == [g \in Guest |-> vms[g].MemoryUsed]
             h == [g \in Guest |-> IF host.vms[g].on THEN Rss[g] ELSE 0]
             U == SumFunction(f)
             V == SumFunction(h)
  <2>1. h \in [Guest -> Nat] BY <1>3
  <2>2. f \in [Guest -> Int] BY <1>2, <1>4
  <2>3. \A g \in Guest : f[g] = h[g] \div KiB BY <1>2, <1>4
  <2>4. si'.Memory.Usedos = (mem \div KiB - hp \div KiB - FreeMemory \div KiB) - U
    BY <1>1, <1>2 DEF MemoryFigures, Derived
  <2>5. FreeMemory = mem - hp - host.os - V BY DEF FreeMemory
  <2> HIDE DEF f, h
  <2>6. U \in Int /\ V \in Int /\ KiB * U <= V /\ V <= KiB * U + n * (KiB - 1)
    BY <2>1, <2>2, <2>3, SumQuotients, Constants
  <2> HIDE DEF U, V, mem, hp
  <2>7. FreeMemory \in Int BY <1>3, <2>5, <2>6
  <2>8. (mem \div KiB - hp \div KiB - FreeMemory \div KiB - U) * KiB - host.os
          \in (-(KiB - 1))..((KiB - 1) * (2 + n))
    BY <1>3, <2>5, <2>6, <2>7, Left, Constants
  <2> QED BY <1>3, <2>4, <2>8
<1>6. ASSUME Hugepages \subseteq last'.on
      PROVE  si'.Hp.Usedos * KiB \in (-(KiB - 1))..((KiB - 1) * (1 + n))
  <2> DEFINE f == [g \in Guest |-> IF g \in Hugepages THEN vms[g].MemoryCapacity ELSE 0]
             h == [g \in Guest |-> IF g \in Hugepages /\ host.vms[g].on THEN Capacity[g] ELSE 0]
             U == SumFunction(f)
             V == SumFunction(h)
  <2>1. h \in [Guest -> Nat] BY <1>3
  <2>2. f \in [Guest -> Int] BY <1>2, <1>4
  <2>3. \A g \in Guest : f[g] = h[g] \div KiB
    <3>1. \A g \in Hugepages : host.vms[g].on BY <1>3, <1>6
    <3> QED BY <1>2, <1>4, <3>1
  <2>4. si'.Hp.Usedos = (hp \div KiB - HugepagesFree \div KiB) - U
    BY <1>1, <1>2 DEF HugepageFigures, Derived
  <2>5. HugepagesFree = hp - V BY DEF HugepagesFree
  <2> HIDE DEF f, h
  <2>6. U \in Int /\ V \in Int /\ KiB * U <= V /\ V <= KiB * U + n * (KiB - 1)
    BY <2>1, <2>2, <2>3, SumQuotients, Constants
  <2> HIDE DEF U, V, mem, hp
  <2>7. HugepagesFree \in Int /\ HugepagesFree = hp - 0 - 0 - V BY <1>3, <2>5, <2>6
  <2>8. (hp \div KiB - HugepagesFree \div KiB - U) * KiB - 0 \in (-(KiB - 1))..((KiB - 1) * (1 + n))
    BY <1>3, <2>6, <2>7, Left, Constants
  <2>9. (hp \div KiB - HugepagesFree \div KiB - U) * KiB \in Int
    <3>1. hp \div KiB \in Int /\ HugepagesFree \div KiB \in Int BY <1>3, <2>7, DivBounds, Constants
    <3> QED BY <2>6, <3>1, Constants
  <2> QED BY <2>4, <2>8, <2>9
<1> QED BY <1>5, <1>6

\* The processor: used minus the VMs' share, both made of quotients.
LEMMA LeftOfCpu ==
  ASSUME NEW D \in Nat \ {0}, NEW n \in Nat, NEW m \in Nat, NEW p \in Nat \ {0},
         NEW u \in Nat, NEW os \in Nat, NEW q \in Nat,
         D * q <= p * u, p * u <= D * q + n * (D - 1)
  PROVE  (((os * m) \div D + 0 \div D + (u * m) \div D) - (q * m) \div p) * D - m * os
           \in (-(3 * (D - 1)))..(((n * m + p - 1) * D) \div p)
<1> DEFINE a == (os * m) \div D
           b == (u * m) \div D
           v == (q * m) \div p
           W == (n * m + p - 1) * D
           w == W \div p
           diff == u * m - D * v
<1>1. os * m \in Nat /\ u * m \in Nat /\ q * m \in Nat /\ n * m \in Nat /\ 0 \div D = 0 OBVIOUS
<1>2. W \in Nat BY <1>1
<1>3. /\ a \in Int /\ D * a <= os * m /\ os * m <= D * a + (D - 1)
      /\ b \in Int /\ D * b <= u * m /\ u * m <= D * b + (D - 1)
  BY <1>1, DivBounds
<1>4. v \in Int /\ p * v <= q * m /\ q * m <= p * v + (p - 1) BY <1>1, DivBounds
<1>5. w \in Int /\ W <= p * w + (p - 1) BY <1>2, DivBounds
<1> HIDE DEF a, b, v, w
<1>6. diff \in Int /\ p * diff = m * (p * u) - p * (D * v) BY <1>4
<1>7. D * (p * v) = p * (D * v) /\ D * (q * m) = m * (D * q) BY <1>4
<1>8. diff >= 0
  <2>1. D * (p * v) <= D * (q * m) BY <1>1, <1>4, MulMono
  <2>2. m * (D * q) <= m * (p * u) BY MulMono
  <2>3. p * (D * v) \in Int /\ m * (D * q) \in Int /\ m * (p * u) \in Int /\ p * diff \in Int
    BY <1>4, <1>6
  <2> HIDE DEF diff
  <2>4. 0 <= p * diff BY <1>6, <1>7, <2>1, <2>2, <2>3
  <2> SUFFICES ASSUME diff <= -1 PROVE FALSE BY <1>6
  <2>5. p * diff <= p * (-1) BY <1>6, MulMono
  <2> QED BY <2>3, <2>4, <2>5
<1>9. diff <= w
  <2>1. m * (p * u) <= m * (D * q + n * (D - 1)) BY MulMono
  <2>2. m * (D * q + n * (D - 1)) = m * (D * q) + (n * m) * (D - 1) OBVIOUS
  <2>3. D * (q * m) <= D * (p * v + (p - 1)) BY <1>1, <1>4, MulMono
  <2>4. D * (p * v + (p - 1)) = D * (p * v) + D * (p - 1) BY <1>4
  <2>5. (n * m) * (D - 1) <= (n * m) * D BY <1>1, MulMono
  <2>6. W = (n * m) * D + D * (p - 1) BY <1>1
  <2>7. /\ m * (p * u) \in Int /\ m * (D * q) \in Int /\ p * (D * v) \in Int /\ D * (p - 1) \in Int
        /\ (n * m) * (D - 1) \in Int /\ (n * m) * D \in Int /\ p * diff \in Int /\ p * w \in Int
    BY <1>1, <1>4, <1>5, <1>6
  <2> HIDE DEF diff, W
  <2>8. p * diff <= W BY <1>6, <1>7, <2>1, <2>2, <2>3, <2>4, <2>5, <2>6, <2>7
  <2> SUFFICES ASSUME w + 1 <= diff PROVE FALSE BY <1>5, <1>6
  <2>9. p * (w + 1) <= p * diff BY <1>5, <1>6, MulMono
  <2>10. p * (w + 1) = p * w + p BY <1>5
  <2> QED BY <1>2, <1>5, <2>7, <2>8, <2>9, <2>10
<1>10. ((a + 0 \div D + b) - v) * D - m * os = (D * a - os * m) + (D * b - u * m) + diff
  <2>1. ((a + 0 \div D + b) - v) * D = D * a + D * b - D * v
    <3>1. PICK z \in Int : z = 0 \div D /\ z = 0 BY <1>1
    <3>2. ((a + z + b) - v) * D = D * a + D * b - D * v BY <1>3, <1>4, <3>1
    <3> QED BY <3>1, <3>2, Zenon
  <2>2. m * os = os * m OBVIOUS
  <2>3. D * a \in Int /\ D * b \in Int /\ D * v \in Int BY <1>3, <1>4
  <2> QED BY <1>1, <2>1, <2>2, <2>3
<1>11. D * a \in Int /\ D * b \in Int BY <1>3
<1> HIDE DEF diff
<1>12. (D * a - os * m) + (D * b - u * m) + diff \in (-(3 * (D - 1)))..w
  BY <1>1, <1>3, <1>5, <1>6, <1>8, <1>9, <1>11
<1> QED BY <1>10, <1>12 DEF a, b, v, w, W

\* What it says of the processor.
LEMMA SnapshotCpu ==
  ASSUME FiguresTypes, InTime, Accounted, SnapshotWith({}),
         si'.Cpu # Nothing, last'.did.stopped = {}, Compared' = Guest
  PROVE  LET n == Cardinality(Guest) IN
         si'.Cpu.Usedos * (Interval' * Ms) - MHz * last'.did.os
           \in (-(3 * (Interval' * Ms - 1)))..(((n * MHz + Percent - 1) * (Interval' * Ms)) \div Percent)
<1> DEFINE n == Cardinality(Guest)
           dt == host.ts - si.Ts
           D == dt * Ms
           vms == si'.Vms
           u == SumFunction(did.cpu)
           f == [g \in Guest |-> vms[g].CpuUtilization]
           h == [g \in Guest |-> Percent * did.cpu[g]]
           q == SumFunction(f)
           delta(k) == Counter_delta_uint64(host.cpu[k], si.cpu[k])
<1>1. si'.Ts = host.ts
      /\ vms = [g \in Guest |-> get_domain_stats(g, host.vms[g], host.ts, Before(g))]
      /\ si'.Cpu = IF si = Nothing \/ host.ts <= si.Ts THEN Nothing ELSE CpuFigures(host.cpu, vms, host.ts)
  BY DEF SnapshotWith, system_info_get, Before
<1>2. si # Nothing /\ ~(host.ts <= si.Ts) /\ si'.Cpu = CpuFigures(host.cpu, vms, host.ts) BY <1>1
<1>3. /\ last'.did = did /\ last'.old = [Ts |-> si.Ts, net_rx |-> [g \in DOMAIN si.Vms |-> si.Vms[g].net_rx]]
  BY <1>2 DEF SnapshotWith
<1>4. Interval' = dt /\ did.stopped = {} BY <1>1, <1>3 DEF Interval
<1>5. dt \in 1..MaxTs /\ host.ts \in Int /\ si.Ts \in Int
  <2>1. host.ts \in 1..MaxTs /\ si.Ts \in 1..host.ts BY <1>2 DEF FiguresTypes
  <2> QED BY <1>2, <2>1, Constants
<1>6. DOMAIN vms = Guest BY <1>1
<1>7. /\ did.cpu \in [Guest -> Nat] /\ did.rx \in [Guest -> Nat] /\ did.os \in Nat
      /\ did.os <= dt /\ \A g \in Guest : did.cpu[g] <= Ms * dt
  BY <1>2 DEF FiguresTypes, InTime
<1> HIDE DEF dt, vms
<1>8. D \in Nat \ {0} /\ D = Ms * dt /\ D <= Ms * MaxTs /\ dt <= D
  <2>1. D \in Nat \ {0} /\ D = Ms * dt BY <1>5, Constants
  <2>2. Ms * dt <= Ms * MaxTs BY <1>5, Constants, MulMono
  <2>3. dt * 1 <= dt * Ms BY <1>5, Constants, MulMono
  <2> QED BY <1>5, <2>1, <2>2, <2>3
<1>9. DOMAIN si.Vms = Guest
  <2>1. DOMAIN si.Vms \subseteq Guest BY <1>2 DEF FiguresTypes
  <2>2. Compared' \subseteq DOMAIN si.Vms BY <1>3 DEF Compared
  <2> QED BY <2>1, <2>2
<1>10. SnapshotWith({}) /\ DeltasExact' BY SnapshotDeltas
<1>11. \A g \in Guest : f[g] = h[g] \div D
  <2> SUFFICES ASSUME NEW g \in Guest PROVE vms[g].CpuUtilization = (Percent * did.cpu[g]) \div (Ms * dt)
    BY <1>8
  <2>1. g \in Compared' /\ g \notin last'.did.stopped /\ Interval' > 0 BY <1>4, <1>5
  <2>2. si'.Vms[g].CpuUtilization = (Percent * last'.did.cpu[g]) \div (Ms * Interval')
    BY <1>10, <2>1 DEF DeltasExact
  <2> QED BY <1>3, <1>4, <2>2 DEF vms
<1>12. h \in [Guest -> Nat] /\ f \in [Guest -> Int]
  <2>1. h \in [Guest -> Nat] BY <1>7, Constants
  <2>2. \A g \in Guest : h[g] \div D \in Int
    <3> SUFFICES ASSUME NEW g \in Guest PROVE h[g] \div D \in Int OBVIOUS
    <3> HIDE DEF D, h
    <3>1. PICK x \in Int : x = h[g] BY <2>1
    <3> QED BY <1>8, <3>1, DivBounds
  <2>3. \A g \in Guest : f[g] \in Int BY <1>11, <2>2
  <2> QED BY <2>1, <2>3
<1>13. u \in Nat /\ q \in Nat /\ D * q <= Percent * u /\ Percent * u <= D * q + n * (D - 1)
  <2>1. SumFunction(h) = Percent * u BY <1>7, <1>12, SumScaled, Constants
  <2>2. u \in Nat BY <1>7, SumOverGuests
  <2> HIDE DEF h, f, D
  <2> QED BY <1>8, <1>11, <1>12, <2>1, <2>2, SumQuotients
<1>14. delta("kernel") = did.os /\ delta("iowait") = 0 /\ delta("user") = u
  <2>1. /\ host.cpu["kernel"] = Uint64(si.cpu["kernel"] + did.os)
        /\ host.cpu["iowait"] = si.cpu["iowait"]
        /\ host.cpu["user"] = Uint64(si.cpu["user"] + u)
    BY <1>2 DEF Accounted
  <2>2. /\ si.cpu["kernel"] \in 0..MaxUint64 /\ si.cpu["user"] \in 0..MaxUint64
        /\ si.cpu["iowait"] \in 0..MaxUint64
    BY <1>2 DEF FiguresTypes, CpuKinds
  <2>3. Ms * MaxTs \in Nat /\ n * (Ms * MaxTs) \in Nat /\ Percent * (Ms * MaxTs) \in Nat BY Constants
  <2>4. did.os <= MaxUint64
    <3>1. 1 * (Ms * MaxTs) <= Percent * (Ms * MaxTs) BY <2>3, Constants
    <3> QED BY <1>5, <1>7, <1>8, <2>3, <3>1, WidthAssumption, Ranges, Constants
  <2>5. u <= MaxUint64
    <3>1. \A g \in Guest : did.cpu[g] <= Ms * MaxTs
      <4> SUFFICES ASSUME NEW g \in Guest PROVE did.cpu[g] <= Ms * MaxTs OBVIOUS
      <4> QED BY <1>7, <1>8, <2>3
    <3>2. u <= n * (Ms * MaxTs) BY <1>7, <2>3, <3>1, SumOverGuests
    <3>3. n * (Ms * MaxTs) < M64 BY WidthAssumption
    <3> HIDE DEF u
    <3> QED BY <1>13, <2>3, <3>2, <3>3, Ranges
  <2> HIDE DEF u
  <2>6. delta("kernel") = did.os BY <1>7, <2>1, <2>2, <2>4, DeltaUint64, Ranges
  <2>7. delta("user") = u BY <1>13, <2>1, <2>2, <2>5, DeltaUint64, Ranges
  <2>8. delta("iowait") = 0
    <3>1. PICK x \in Int : x = si.cpu["iowait"] BY <2>2, Ranges
    <3> QED BY <2>1, <3>1 DEF Counter_delta_uint64
  <2> QED BY <2>6, <2>7, <2>8
<1>15. si'.Cpu.Usedos = ((did.os * MHz) \div D + 0 \div D + (u * MHz) \div D) - (q * MHz) \div Percent
  <2>1. CpuUsed(host.cpu, si.cpu, dt) =
          (delta("kernel") * MHz) \div D + (delta("iowait") * MHz) \div D + (delta("user") * MHz) \div D
    BY DEF CpuUsed
  <2>2. 0 * MHz = 0 BY Constants
  <2>3. CpuUsed(host.cpu, si.cpu, dt) = (did.os * MHz) \div D + 0 \div D + (u * MHz) \div D
    <3> HIDE DEF delta, D, u
    <3> QED BY <1>14, <2>1, <2>2
  <2>4. CpuFigures(host.cpu, vms, host.ts).Usedos = CpuUsed(host.cpu, si.cpu, dt) - (q * MHz) \div Percent
    BY <1>6 DEF CpuFigures, dt
  <2> HIDE DEF D, u, q
  <2>5. si'.Cpu.Usedos = CpuFigures(host.cpu, vms, host.ts).Usedos BY <1>2, Zenon
  <2>6. PICK x : x = (did.os * MHz) \div D + 0 \div D + (u * MHz) \div D OBVIOUS
  <2>7. PICK y : y = (q * MHz) \div Percent OBVIOUS
  <2>8. si'.Cpu.Usedos = x - y BY <2>3, <2>4, <2>5, <2>6, <2>7, Zenon
  <2> QED BY <2>6, <2>7, <2>8, Zenon
<1> HIDE DEF D, u, q
<1>16. (((did.os * MHz) \div D + 0 \div D + (u * MHz) \div D) - (q * MHz) \div Percent) * D - MHz * did.os
         \in (-(3 * (D - 1)))..(((n * MHz + Percent - 1) * D) \div Percent)
  BY <1>7, <1>8, <1>13, LeftOfCpu, Constants
<1> QED BY <1>3, <1>4, <1>15, <1>16 DEF D

\* A snapshot makes UsedosIsTheOs true.
LEMMA SnapshotUsedos ==
  ASSUME FiguresTypes, InTime, Accounted, NEW skip, SnapshotWith(skip)
  PROVE  UsedosIsTheOs'
<1> SUFFICES ASSUME si' # Nothing, last'.skip = {}
             PROVE  LET n == Cardinality(Guest) IN
                    /\ si'.Memory.Usedos * KiB - last'.os \in (-(KiB - 1))..((KiB - 1) * (2 + n))
                    /\ Hugepages \subseteq last'.on =>
                         si'.Hp.Usedos * KiB \in (-(KiB - 1))..((KiB - 1) * (1 + n))
                    /\ (si'.Cpu # Nothing /\ last'.did.stopped = {} /\ Compared' = Guest) =>
                         si'.Cpu.Usedos * (Interval' * Ms) - MHz * last'.did.os
                           \in (-(3 * (Interval' * Ms - 1)))..
                               (((n * MHz + Percent - 1) * (Interval' * Ms)) \div Percent)
  BY DEF UsedosIsTheOs
<1>1. SnapshotWith({})
  <2>1. last'.skip = skip BY DEF SnapshotWith
  <2> QED BY <2>1
<1> QED BY <1>1, SnapshotMemory, SnapshotCpu

-----------------------------------------------------------------------------
(* Figures: the theorems                                                    *)

\* Every step keeps FiguresInv.
LEMMA FiguresStep == FiguresInv /\ [FiguresNext]_figuresVars => FiguresInv'
<1> SUFFICES ASSUME FiguresInv, [FiguresNext]_figuresVars PROVE FiguresInv' OBVIOUS
<1>0. FiguresTypes /\ InTime /\ Accounted /\ DeltasExact /\ UsedosIsTheOs BY DEF FiguresInv
<1>1. CASE Work
  <2>1. FiguresTypes' BY <1>0, <1>1, WorkDoes
  <2>2. PICK c, b, o : WorkWith(c, b, o) BY <1>0, <1>1, WorkDoes
  <2>3. si' = si /\ last' = last BY <1>1 DEF Work
  <2>4. InTime' BY <1>0, <2>2, <2>3, WorkInTime
  <2>5. Accounted' BY <1>0, <2>1, <2>2, <2>3, <2>4, WorkAccounted
  <2> QED BY <1>0, <2>1, <2>3, <2>4, <2>5, SameSnapshot DEF FiguresInv
<1>2. CASE Snapshot
  <2>1. FiguresTypes' BY <1>0, <1>2, SnapshotDoes
  <2>2. PICK skip : SnapshotWith(skip) BY <1>0, <1>2, SnapshotDoes
  <2>3. InTime' /\ Accounted' BY <1>0, <2>1, <2>2, SnapshotNew
  <2>4. DeltasExact' BY <1>0, <2>2, SnapshotDeltas
  <2>5. UsedosIsTheOs' BY <1>0, <2>2, SnapshotUsedos
  <2> QED BY <2>1, <2>3, <2>4, <2>5 DEF FiguresInv
<1>3. CASE \E g \in Guest : Stop(g) BY <1>3, StopInv
<1>4. CASE \E g \in Guest : Boot(g) BY <1>4, BootInv
<1>5. CASE UNCHANGED figuresVars
  BY <1>0, <1>5 DEF figuresVars, FiguresInv, FiguresTypes, InTime, Accounted, DeltasExact, UsedosIsTheOs,
                    Compared, Interval
<1> QED BY <1>1, <1>2, <1>3, <1>4, <1>5 DEF FiguresNext

\* The figures of a VM tell what it used and received since the snapshot before, wherever
\* its counters wrapped in between, and a VM that stopped is not said to have received
\* more than it did: for any number of VMs, of snapshots between them and of failures, as
\* long as the widths are enough for what can happen between two snapshots.
THEOREM FigureDeltasExact == FiguresSpec => []DeltasExact
<1>1. FiguresInv => DeltasExact BY DEF FiguresInv
<1> QED BY <1>1, FiguresStart, FiguresStep, PTL DEF FiguresSpec

\* Usedos is what the rest of the host uses, but for what the divisions lose, which is
\* less than a unit for each of them: of memory, of huge pages and of the processor.
THEOREM FigureUsedosIsTheOs == FiguresSpec => []UsedosIsTheOs
<1>1. FiguresInv => UsedosIsTheOs BY DEF FiguresInv
<1> QED BY <1>1, FiguresStart, FiguresStep, PTL DEF FiguresSpec
=============================================================================
