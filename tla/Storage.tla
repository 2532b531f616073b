------------------------------- MODULE Storage -------------------------------
(***************************************************************************)
(* The ownership of managed disks: pkg/lockman's resource files, pkg/      *)
(* storage on top of them, and the handlers vm_create, vm_update and       *)
(* vm_delete of pkg/virtx that use both, any number of them at once and on *)
(* any hosts of the cluster.                                               *)
(*                                                                         *)
(* A managed disk has a resource: a directory on shared storage holding a  *)
(* sanlock resource file whose LVB names the VM that owns the disk.        *)
(* Create_resource renames a prepared directory into place.  Everything    *)
(* done to the disk or to its resource is a chain of commands given to     *)
(* lockman.Run, which runs them under the lease of the resource once       *)
(* virtx-check-lvb has found the VM's uuid in the LVB.  A domain that runs *)
(* holds the leases of its managed disks.                                  *)
(*                                                                         *)
(* A disk stands for its path and for the resource name made of it.        *)
(* Left out: what an image holds, and the XML a definition is turned into. *)
(***************************************************************************)
EXTENDS Naturals, FiniteSets

CONSTANTS
  Vm,          \* VM uuids
  Disk,        \* disk paths
  Req,         \* requests that may be served at one time
  Device,      \* Device[d]: "DISK", "CDROM" or "LUN"
  Definitions, \* the definitions clients ask for
  Serial,      \* TRUE: clients have one request at a time for a VM
  FaultKinds,  \* the faults that may happen
  MaxFaults,   \* and how many of them
  None

ASSUME DeviceAssumption == Device \in [Disk -> {"DISK", "CDROM", "LUN"}]
ASSUME NoneAssumption == None \notin Vm \cup Req \cup Disk
ASSUME UuidAssumption == "none" \notin Vm /\ "empty" \notin Vm
ASSUME DisjointAssumption == Vm \cap Req = {}
ASSUME FaultAssumption ==
  MaxFaults \in Nat /\ FaultKinds \subseteq {"define", "describe", "save", "command", "crash"}

\* A VM definition: its managed and its unmanaged disks.
Vmdef == [man : SUBSET Disk, unman : SUBSET Disk]

ASSUME DefinitionsAssumption ==
  /\ Definitions \subseteq Vmdef /\ None \notin Vmdef
  /\ \A v \in Definitions : v.man \cap v.unman = {}

VARIABLES
  res,      \* res[d]: the VM in the LVB, or "none" (no directory) or "empty"
  lease,    \* lease[d]: the VM or the request that holds the lease, or None
  img,      \* img[d]: the image or LUN of d is there
  def,      \* def[u]: u's definition in libvirt, or None
  reg,      \* reg[u]: u's definition in the registry (pkg/vmreg), or None
  running,  \* the VMs whose domain runs
  shown,    \* shown[u]: u's run state in the inventory, which lags behind
  used,     \* uuids New_uuid has given out
  warned,   \* VMs of which a request was answered with an error or a warning
  req,      \* req[r]: the handler serving request r
  faults

vars == <<res, lease, img, def, reg, running, shown, used, warned, req, faults>>

\* The path of a disk is known to the definition, managed or not.
Disks(v) == v.man \cup v.unman

NoDisks == [man |-> {}, unman |-> {}]

\* A handler.  todo: the disks its loop has still to do; cur: the one it is at;
\* created: CreatedResources; prov, del: options of the request.
Handler == [pc : {"idle", "create", "provision", "undefine", "rollback", "delete"},
            step : {"next", "disk", "rm", "rmdir"},
            vm : Vm \cup {None}, new : Vmdef, old : Vmdef,
            prov : BOOLEAN, del : BOOLEAN,
            todo : SUBSET Disk, cur : Disk \cup {None}, created : SUBSET Disk]

Idle == [pc |-> "idle", step |-> "next", vm |-> None, new |-> NoDisks, old |-> NoDisks,
         prov |-> FALSE, del |-> FALSE, todo |-> {}, cur |-> None, created |-> {}]

Active(u) == {r \in Req : req[r].vm = u}

Truth(u) == IF def[u] = None THEN "unknown" ELSE IF u \in running THEN "on" ELSE "off"

Init ==
  /\ res = [d \in Disk |-> "none"]
  /\ lease = [d \in Disk |-> None]
  /\ img \in [Disk -> BOOLEAN]
  /\ def = [u \in Vm |-> None]
  /\ reg = [u \in Vm |-> None]
  /\ running = {}
  /\ shown = [u \in Vm |-> "unknown"]
  /\ used = {}
  /\ warned = {}
  /\ req = [r \in Req |-> Idle]
  /\ faults = 0

Fault(kind) ==
  /\ kind \in FaultKinds
  /\ faults < MaxFaults
  /\ faults' = faults + 1

\* Handler r goes on with the fields of its record changed as in h.
Become(r, h) == req' = [req EXCEPT ![r] = h]

\* A response with an error status or a Warning header.
Warn(r) == warned' = warned \cup {req[r].vm}

-----------------------------------------------------------------------------
(* The rest of the world: domains start and stop, the inventory catches up. *)

\* virDomainCreate: the lock manager takes the leases named in the definition,
\* whatever their LVB says, or the domain does not start.
Boot(u) ==
  /\ def[u] # None /\ u \notin running
  /\ \A d \in def[u].man : res[d] \in Vm /\ lease[d] = None
  /\ running' = running \cup {u}
  /\ lease' = [d \in Disk |-> IF d \in def[u].man THEN u ELSE lease[d]]
  /\ UNCHANGED <<res, img, def, reg, shown, used, warned, req, faults>>

Stop(u) ==
  /\ u \in running
  /\ running' = running \ {u}
  /\ lease' = [d \in Disk |-> IF lease[d] = u THEN None ELSE lease[d]]
  /\ UNCHANGED <<res, img, def, reg, shown, used, warned, req, faults>>

Refresh(u) ==
  /\ shown' = [shown EXCEPT ![u] = Truth(u)]
  /\ UNCHANGED <<res, lease, img, def, reg, running, used, warned, req, faults>>

-----------------------------------------------------------------------------
(* pkg/lockman                                                              *)

\* A variant of Creatable: the rename replaces a directory whatever is in it.
CreatableAlways(d) == res[d] \in Vm \cup {"none", "empty"}

\* Create_resource: rename of the temporary directory, which fails if another
\* one with a resource file in it is in its place.  The Stat before it only
\* makes it fail sooner.
Creatable(d) == res[d] \in {"none", "empty"}

\* The renamed directory holds a file with the VM's uuid in its LVB.
lm_init_resource_file(d, u) == [res EXCEPT ![d] = u]

\* virtx-check-lvb finds the VM's uuid in the LVB.
check_lvb(d, u) == res[d] = u

\* A variant of Runnable: the LVB is not checked.
RunnableUnchecked(d, u) == lease[d] = None /\ res[d] \in Vm

\* Run: sanlock grants the lease of the resource file, and the check of its LVB
\* that is put before the commands succeeds.
Runnable(d, u) == lease[d] = None /\ check_lvb(d, u)

-----------------------------------------------------------------------------
(* pkg/virtx: the handlers start                                            *)

vm_create(r, u, v, prov) ==
  /\ req[r].pc = "idle"
  /\ u \notin used
  /\ used' = used \cup {u}
  /\ Become(r, [Idle EXCEPT !.pc = "create", !.vm = u, !.new = v, !.prov = prov,
                            !.todo = Disks(v)])
  /\ UNCHANGED <<res, lease, img, def, reg, running, shown, warned, faults>>

\* A request for an existing VM is served if the inventory has it powered off.
Admitted(r, u) ==
  /\ req[r].pc = "idle"
  /\ shown[u] = "off"
  /\ Serial => Active(u) = {}

\* The old definition comes from the registry.
vm_update(r, u, v, prov, del) ==
  /\ Admitted(r, u)
  /\ reg[u] # None
  /\ Become(r, [Idle EXCEPT !.pc = "create", !.vm = u, !.new = v, !.old = reg[u],
                            !.prov = prov, !.del = del,
                            !.todo = Disks(v) \ Disks(reg[u])])
  /\ UNCHANGED <<res, lease, img, def, reg, running, shown, used, warned, faults>>

\* The definition comes from libvirt.
vm_delete(r, u, del) ==
  /\ Admitted(r, u)
  /\ def[u] # None
  /\ Become(r, [Idle EXCEPT !.pc = "undefine", !.vm = u, !.old = def[u], !.del = del])
  /\ UNCHANGED <<res, lease, img, def, reg, running, shown, used, warned, faults>>

-----------------------------------------------------------------------------
(* pkg/storage: Create and Rollback                                         *)

\* An error in Create, To_xml or Define_domain: the resources created are rolled
\* back and the response is an error.
RollbackWith(r, created) ==
  /\ Become(r, [Idle EXCEPT !.pc = "rollback", !.vm = req[r].vm, !.todo = created])
  /\ Warn(r)

\* Detect: the image or the LUN is there.
Detect(d) == img[d]

\* lun_wipe looks at the device before it runs anything.
Wipeable(d) == Device[d] = "LUN" => img[d]

\* The next disk of the loop: a managed one gets its resource, and is then
\* provisioned or, like an unmanaged one, has to be there (Detect).
CreateNext(r, d) ==
  /\ req[r].pc = "create" /\ d \in req[r].todo
  /\ LET h == req[r]
         managed == d \in h.new.man
         created == IF managed THEN h.created \cup {d} ELSE h.created
     IN
     \/ /\ managed /\ ~Creatable(d)
        /\ RollbackWith(r, h.created)
        /\ UNCHANGED res
     \/ /\ managed => Creatable(d)
        /\ res' = IF managed THEN lm_init_resource_file(d, h.vm) ELSE res
        /\ \/ /\ managed /\ h.prov /\ Device[d] # "CDROM"
              /\ Become(r, [h EXCEPT !.pc = "provision", !.cur = d,
                                     !.created = created, !.todo = @ \ {d}])
              /\ UNCHANGED warned
           \/ /\ ~(managed /\ h.prov) /\ Detect(d)
              /\ Become(r, [h EXCEPT !.created = created, !.todo = @ \ {d}])
              /\ UNCHANGED warned
           \/ /\ IF managed /\ h.prov THEN Device[d] = "CDROM" ELSE ~Detect(d)
              /\ RollbackWith(r, created)
  /\ UNCHANGED <<lease, img, def, reg, running, shown, used, faults>>

\* storage_create_disk: qemu-img or wipefs and blkdiscard, under the lease.  A
\* LUN has to be there to be wiped.
ProvisionStart(r) ==
  /\ req[r].pc = "provision" /\ req[r].step = "next"
  /\ LET h == req[r]
         ok == Runnable(h.cur, h.vm) /\ Wipeable(h.cur)
     IN
     \/ /\ ok
        /\ lease' = [lease EXCEPT ![h.cur] = r]
        /\ Become(r, [h EXCEPT !.step = "disk"])
        /\ UNCHANGED warned
     \/ /\ ~ok
        /\ RollbackWith(r, h.created)
        /\ UNCHANGED lease
  /\ UNCHANGED <<res, img, def, reg, running, shown, used, faults>>

ProvisionEnd(r) ==
  /\ req[r].pc = "provision" /\ req[r].step = "disk"
  /\ LET h == req[r] IN
     /\ lease' = [lease EXCEPT ![h.cur] = None]
     /\ \/ /\ img' = [img EXCEPT ![h.cur] = TRUE]
           /\ Become(r, [h EXCEPT !.pc = "create", !.step = "next", !.cur = None])
           /\ UNCHANGED <<warned, faults>>
        \/ /\ Fault("command")
           /\ RollbackWith(r, h.created)
           /\ UNCHANGED img
  /\ UNCHANGED <<res, def, reg, running, shown, used>>

-----------------------------------------------------------------------------
(* pkg/hypervisor: Define_domain and Delete_domain                          *)

\* vmreg.Save and vmreg.Delete.  That they fail is only logged.
Register(u, v) ==
  \/ reg' = [reg EXCEPT ![u] = v] /\ UNCHANGED faults
  \/ Fault("save") /\ UNCHANGED reg

\* storage.Delete takes over from handler h, if there is something to delete.
Deleting(h, todo) ==
  IF todo = {} THEN Idle
  ELSE [Idle EXCEPT !.pc = "delete", !.vm = h.vm, !.del = h.del, !.todo = todo]

\* A variant of Define_domain: an update does not delete the disks it has dropped.
Define_domain_only(r) ==
  /\ req[r].pc = "create" /\ req[r].todo = {}
  /\ def' = [def EXCEPT ![req[r].vm] = req[r].new]
  /\ reg' = [reg EXCEPT ![req[r].vm] = req[r].new]
  /\ Become(r, Idle)
  /\ UNCHANGED <<res, lease, img, running, shown, used, warned, faults>>

\* Define_domain defines the domain, asks libvirt for the XML it has made of the
\* definition, and saves that.  It fails, too, if the domain is defined and the XML
\* cannot be had.  An update goes on to delete the disks it has dropped.
Define_domain(r) ==
  /\ req[r].pc = "create" /\ req[r].todo = {}
  /\ LET h == req[r] IN
     \/ /\ def' = [def EXCEPT ![h.vm] = h.new]
        /\ Register(h.vm, h.new)
        /\ Become(r, Deleting(h, h.old.man \ Disks(h.new)))
        /\ UNCHANGED warned
     \/ /\ \/ Fault("define") /\ UNCHANGED def
           \/ Fault("describe") /\ def' = [def EXCEPT ![h.vm] = h.new]
        /\ RollbackWith(r, h.created)
        /\ UNCHANGED reg
  /\ UNCHANGED <<res, lease, img, running, shown, used>>

\* Delete_domain looks at the state of the domain itself before Undefine.
Delete_domain(r) ==
  /\ req[r].pc = "undefine"
  /\ LET h == req[r]
         ok == def[h.vm] # None /\ h.vm \notin running
     IN
     \/ /\ ok
        /\ def' = [def EXCEPT ![h.vm] = None]
        /\ Register(h.vm, None)
        /\ Become(r, Deleting(h, h.old.man))
        /\ UNCHANGED warned
     \/ /\ ~ok
        /\ Become(r, Idle)
        /\ Warn(r)
        /\ UNCHANGED <<def, reg, faults>>
  /\ UNCHANGED <<res, lease, img, running, shown, used>>

-----------------------------------------------------------------------------
(* pkg/storage: Delete and Rollback, disk by disk                           *)

\* The record of handler h when it is through with the disk it is at.
NextDisk(h) ==
  IF h.todo = {} THEN Idle ELSE [h EXCEPT !.step = "next", !.cur = None]

\* The image goes too: Delete with Deletestorage, never Rollback.
RemovesDisk(h) == h.pc = "delete" /\ h.del

\* A variant of RemoveStart: the commands run outside lockman.Run.
RemoveUnlocked(r, d) ==
  /\ req[r].pc \in {"rollback", "delete"} /\ req[r].step = "next"
  /\ d \in req[r].todo
  /\ res[d] = req[r].vm
  /\ Become(r, [req[r] EXCEPT !.todo = @ \ {d}, !.cur = d,
                              !.step = IF RemovesDisk(req[r]) THEN "disk" ELSE "rm"])
  /\ UNCHANGED <<res, lease, img, def, reg, running, shown, used, warned, faults>>

\* storage_delete_disk or Delete_resource: the lease and the LVB check.  A CDROM
\* has no delete operation.
RemoveStart(r, d) ==
  /\ req[r].pc \in {"rollback", "delete"} /\ req[r].step = "next"
  /\ d \in req[r].todo
  /\ LET h == [req[r] EXCEPT !.todo = @ \ {d}]
         ok == Runnable(d, h.vm) /\ ~(RemovesDisk(h) /\ Device[d] = "CDROM")
     IN
     \/ /\ ok
        /\ lease' = [lease EXCEPT ![d] = r]
        /\ Become(r, [h EXCEPT !.step = IF RemovesDisk(h) THEN "disk" ELSE "rm",
                               !.cur = d])
        /\ UNCHANGED warned
     \/ /\ ~ok
        /\ Become(r, NextDisk(h))
        /\ Warn(r)
        /\ UNCHANGED lease
  /\ UNCHANGED <<res, img, def, reg, running, shown, used, faults>>

\* A command of the chain fails: the chain ends and the lease is given back.
RemoveFails(r) ==
  /\ lease' = [lease EXCEPT ![req[r].cur] = IF @ = r THEN None ELSE @]
  /\ Become(r, NextDisk(req[r]))
  /\ Warn(r)
  /\ UNCHANGED <<res, img>>

\* rm of the image, or the wiping of the LUN, which stays.
RemoveDisk(r) ==
  /\ req[r].pc \in {"rollback", "delete"} /\ req[r].step = "disk"
  /\ \/ /\ img[req[r].cur]
        /\ img' = [img EXCEPT ![req[r].cur] = (Device[req[r].cur] = "LUN")]
        /\ Become(r, [req[r] EXCEPT !.step = "rm"])
        /\ UNCHANGED <<res, lease, warned, faults>>
     \/ /\ ~img[req[r].cur]
        /\ RemoveFails(r)
        /\ UNCHANGED faults
     \/ /\ Fault("command")
        /\ RemoveFails(r)
  /\ UNCHANGED <<def, reg, running, shown, used>>

\* rm of the resource file: its lease goes with it.
RemoveResource(r) ==
  /\ req[r].pc \in {"rollback", "delete"} /\ req[r].step = "rm"
  /\ \/ /\ res' = [res EXCEPT ![req[r].cur] = "empty"]
        /\ lease' = [lease EXCEPT ![req[r].cur] = None]
        /\ Become(r, [req[r] EXCEPT !.step = "rmdir"])
        /\ UNCHANGED <<img, warned, faults>>
     \/ /\ Fault("command")
        /\ RemoveFails(r)
  /\ UNCHANGED <<def, reg, running, shown, used>>

\* rmdir of its directory, which by now may be another VM's.
RemoveDirectory(r) ==
  /\ req[r].pc \in {"rollback", "delete"} /\ req[r].step = "rmdir"
  /\ \/ /\ res[req[r].cur] = "empty"
        /\ res' = [res EXCEPT ![req[r].cur] = "none"]
        /\ Become(r, NextDisk(req[r]))
        /\ UNCHANGED <<lease, img, warned>>
     \/ /\ res[req[r].cur] # "empty"
        /\ RemoveFails(r)
  /\ UNCHANGED <<def, reg, running, shown, used, faults>>

\* Rollback of nothing ends at once.
RollbackNothing(r) ==
  /\ req[r].pc = "rollback" /\ req[r].step = "next" /\ req[r].todo = {}
  /\ Become(r, Idle)
  /\ UNCHANGED <<res, lease, img, def, reg, running, shown, used, warned, faults>>

\* virtxd, and the command it runs, end: nothing is undone.
Crash(r) ==
  /\ Fault("crash")
  /\ req[r].pc # "idle"
  /\ lease' = [d \in Disk |-> IF lease[d] = r THEN None ELSE lease[d]]
  /\ Become(r, Idle)
  /\ Warn(r)
  /\ UNCHANGED <<res, img, def, reg, running, shown, used>>

-----------------------------------------------------------------------------

Next ==
  \/ \E u \in Vm : Boot(u) \/ Stop(u) \/ Refresh(u)
  \/ \E r \in Req :
       \/ \E u \in Vm, v \in Definitions, prov \in BOOLEAN :
            \/ vm_create(r, u, v, prov)
            \/ \E del \in BOOLEAN : vm_update(r, u, v, prov, del)
       \/ \E u \in Vm, del \in BOOLEAN : vm_delete(r, u, del)
       \/ \E d \in Disk : CreateNext(r, d) \/ RemoveStart(r, d)
       \/ ProvisionStart(r) \/ ProvisionEnd(r)
       \/ Define_domain(r) \/ Delete_domain(r)
       \/ RemoveDisk(r) \/ RemoveResource(r) \/ RemoveDirectory(r)
       \/ RollbackNothing(r) \/ Crash(r)

Spec == Init /\ [][Next]_vars

-----------------------------------------------------------------------------

\* Every variable has the values its declaration says.
TypeOK ==
  /\ res \in [Disk -> Vm \cup {"none", "empty"}]
  /\ lease \in [Disk -> Vm \cup Req \cup {None}]
  /\ img \in [Disk -> BOOLEAN]
  /\ def \in [Vm -> Vmdef \cup {None}]
  /\ reg \in [Vm -> Vmdef \cup {None}]
  /\ running \subseteq Vm /\ used \subseteq Vm /\ warned \subseteq Vm
  /\ shown \in [Vm -> {"unknown", "off", "on"}]
  /\ req \in [Req -> Handler]
  /\ faults \in 0..MaxFaults

\* From the check of the LVB to the last command on the disk or its resource file,
\* a handler holds the lease and the resource still belongs to its VM: no rename
\* by Create_resource, no other chain of Run and no domain comes in between.
RunHoldsResource ==
  \A r \in Req : req[r].step \in {"disk", "rm"} =>
    lease[req[r].cur] = r /\ res[req[r].cur] = req[r].vm

\* While a domain runs, nothing happens to its managed disks or their resources,
\* although no handler checks at that time that it is powered off: README, "any
\* operation involving the disk will happen under a resource lease".
RunningDisksUntouched ==
  [][\A d \in Disk : lease[d] \in Vm => res'[d] = res[d] /\ img'[d] = img[d]]_vars

\* The image of an owned disk, and its resource file, are written or removed by
\* requests for the VM that owns it and by no other.
OnlyOwnerTouches ==
  [][\A d \in Disk : res[d] \in Vm /\ (res'[d] # res[d] \/ img'[d] # img[d]) =>
       \E r \in Req : req[r].cur = d /\ req[r].vm = res[d]]_vars

\* README, "Managed": every managed disk of a defined VM has a resource with this
\* VM's uuid in it, so no two defined VMs have a managed disk in common.
DefinedVmsOwnDisks ==
  \A u \in Vm : def[u] # None => \A d \in def[u].man : res[d] = u

\* A resource left behind, of a VM that does not have the disk and for which no
\* handler is active, has been reported by an error or a warning to a client:
\* storage.Create, Rollback and Delete lose none in silence.
NoSilentLeak ==
  \A d \in Disk, u \in Vm :
    /\ res[d] = u /\ Active(u) = {} /\ u \notin warned
    => def[u] # None /\ d \in def[u].man
=============================================================================
