------------------------------ MODULE Migration ------------------------------
(***************************************************************************)
(* Where a VM is: its domain in the libvirt of a host, its file in the     *)
(* registry on shared storage (pkg/vmreg), and the record of its migration *)
(* that pkg/hypervisor keeps in the domain's metadata (oplog).             *)
(*                                                                         *)
(* vm_migrate answers at once and leaves the work to a goroutine on the    *)
(* source host: record STARTED, Migrate3, move the registry file, record   *)
(* COMPLETED.  Nothing keeps a second request from doing the same to the   *)
(* same VM, on this host or, once the VM has arrived, on the next one.     *)
(*                                                                         *)
(* VMs do not meet here, so there is one.  The XML of a definition is left *)
(* out but for the record it carries.  Module Cluster says how inventories *)
(* follow the domains; here an entry may be any that was true.             *)
(***************************************************************************)
EXTENDS Naturals, FiniteSets

CONSTANTS
  Host,
  Home,        \* the host of the VM at first
  Req,         \* requests for a migration that may be worked on at one time
  Worlds,      \* sets of what may happen: faults, calls of vm_register, and
               \* clients that do not wait for one migration to end
  MaxFaults,   \* how many faults there may be
  None

ASSUME MigrationAssumption ==
  /\ Home \in Host
  /\ None \notin Host \cup Req
  /\ Worlds \subseteq SUBSET {"crash", "move", "migrate", "register", "overlap"}
  /\ MaxFaults \in Nat

VARIABLES
  dom,     \* dom[h]: the state of the domain in the libvirt of h
  log,     \* log[h]: the record of OpVmMigrate in the domain on h
  job,     \* job[h]: the request libvirt migrates the domain of h for, or None
  reg,     \* reg[h]: the record in the file of h in the registry, or "absent"
  up,      \* the hosts whose virtxd runs
  shown,   \* shown[h]: where and in which state the inventory of h has the VM
  deleted, \* an event was sent that makes inventories drop the VM
  req,     \* req[r]: the goroutine of request r
  faults,
  may      \* the world of this behaviour

vars == <<dom, log, job, reg, up, shown, deleted, req, faults, may>>

DomainState == {"undefined", "off", "on"}

Record == {"none", "STARTED", "FAILED", "COMPLETED"}

Task == [pc : {"idle", "start", "migrate", "perform", "cancelled", "fail", "move", "complete"},
         src : Host \cup {None}, dst : Host \cup {None}, live : BOOLEAN]

Idle == [pc |-> "idle", src |-> None, dst |-> None, live |-> FALSE]

Defined == {h \in Host : dom[h] # "undefined"}

Registered == {h \in Host : reg[h] # "absent"}

Entries(d) == {[host |-> h, state |-> d[h]] : h \in {g \in Host : d[g] # "undefined"}}

Quiet == \A r \in Req : req[r].pc = "idle"

Init ==
  /\ \E s \in {"off", "on"} :
       dom = [h \in Host |-> IF h = Home THEN s ELSE "undefined"]
  /\ log = [h \in Host |-> "none"]
  /\ job = [h \in Host |-> None]
  /\ reg = [h \in Host |-> IF h = Home THEN "none" ELSE "absent"]
  /\ up = Host
  /\ shown \in [Host -> Entries(dom)]
  /\ deleted = FALSE
  /\ req = [r \in Req |-> Idle]
  /\ faults = 0
  /\ may \in Worlds

Fault(kind) ==
  /\ kind \in may
  /\ faults < MaxFaults
  /\ faults' = faults + 1

Become(r, t) == req' = [req EXCEPT ![r] = t]

Goto(r, pc) == Become(r, [req[r] EXCEPT !.pc = pc])

\* SetMetadata fails on a domain that is gone, which is not looked at.
oplog_record(h, state) ==
  log' = IF h \in Defined THEN [log EXCEPT ![h] = state] ELSE log

-----------------------------------------------------------------------------
(* The domain is started and stopped, the inventories catch up.             *)

\* The disk leases keep a second copy of the VM from starting.
Boot(h) ==
  /\ dom[h] = "off" /\ job[h] = None
  /\ \A g \in Host : dom[g] # "on"
  /\ dom' = [dom EXCEPT ![h] = "on"]
  /\ UNCHANGED <<log, job, reg, up, shown, deleted, req, faults, may>>

Stop(h) ==
  /\ dom[h] = "on"
  /\ dom' = [dom EXCEPT ![h] = "off"]
  /\ UNCHANGED <<log, job, reg, up, shown, deleted, req, faults, may>>

Learn(h) ==
  /\ h \in up
  /\ \E s \in Entries(dom) \cup (IF deleted THEN {None} ELSE {}) :
       shown' = [shown EXCEPT ![h] = s]
  /\ UNCHANGED <<dom, log, job, reg, up, deleted, req, faults, may>>

-----------------------------------------------------------------------------
(* vm_migrate and Migrate_domain                                            *)

\* Proxied to the host of the VM, whose own inventory decides.
vm_migrate(r, h, g, live) ==
  /\ req[r].pc = "idle"
  /\ "overlap" \in may \/ Quiet
  /\ h \in up
  /\ shown[h] = [host |-> h, state |-> IF live THEN "on" ELSE "off"]
  /\ g # h
  /\ Become(r, [pc |-> "start", src |-> h, dst |-> g, live |-> live])
  /\ UNCHANGED <<dom, log, job, reg, up, shown, deleted, faults, may>>

\* A variant of RecordStarted: nothing is recorded.
StartUnrecorded(r) ==
  /\ req[r].pc = "start"
  /\ IF req[r].src \in Defined THEN Goto(r, "migrate") ELSE Become(r, Idle)
  /\ UNCHANGED <<dom, log, job, reg, up, shown, deleted, faults, may>>

RecordStarted(r) ==
  /\ req[r].pc = "start"
  /\ IF req[r].src \in Defined
     THEN oplog_record(req[r].src, "STARTED") /\ Goto(r, "migrate")
     ELSE UNCHANGED log /\ Become(r, Idle)
  /\ UNCHANGED <<dom, job, reg, up, shown, deleted, faults, may>>

\* libvirt runs one migration of a domain at a time.
Migratable(t) ==
  /\ dom[t.src] = IF t.live THEN "on" ELSE "off"
  /\ job[t.src] = None
  /\ dom[t.dst] # "on"

MigrateBegin(r) ==
  /\ req[r].pc = "migrate"
  /\ \/ /\ Migratable(req[r])
        /\ job' = [job EXCEPT ![req[r].src] = r]
        /\ Goto(r, "perform")
     \/ /\ ~Migratable(req[r])
        /\ Goto(r, "fail")
        /\ UNCHANGED job
  /\ UNCHANGED <<dom, log, reg, up, shown, deleted, faults, may>>

\* Migrate3 returns: the domain is persistent on the destination, with its
\* metadata, and undefined on the source; or all is as before.
MigrateEnd(r) ==
  /\ req[r].pc \in {"perform", "cancelled"}
  /\ LET h == req[r].src  g == req[r].dst
         ok == req[r].pc = "perform" /\ dom[h] = IF req[r].live THEN "on" ELSE "off"
     IN
     /\ job' = [job EXCEPT ![h] = None]
     /\ \/ /\ ok
           /\ dom' = [dom EXCEPT ![h] = "undefined", ![g] = dom[h]]
           /\ log' = [log EXCEPT ![h] = "none", ![g] = log[h]]
           /\ deleted' = TRUE
           /\ Goto(r, "move")
           /\ UNCHANGED faults
        \/ /\ IF ok THEN Fault("migrate") ELSE UNCHANGED faults
           /\ Goto(r, "fail")
           /\ UNCHANGED <<dom, log, deleted>>
  /\ UNCHANGED <<reg, up, shown, may>>

RecordFailed(r) ==
  /\ req[r].pc = "fail"
  /\ oplog_record(req[r].src, "FAILED")
  /\ Become(r, Idle)
  /\ UNCHANGED <<dom, job, reg, up, shown, deleted, faults, may>>

\* Variants of Move: the hosts are swapped; and the old file is removed first.
MoveSwapped(new_host, old_host) ==
  reg' = IF new_host \in Registered
         THEN [reg EXCEPT ![new_host] = "absent", ![old_host] = reg[new_host]]
         ELSE reg

MoveRemoves(new_host, old_host) == reg' = [reg EXCEPT ![old_host] = "absent"]

\* vmreg.Move: one rename; that there is no file to rename is only logged.
Move(new_host, old_host) ==
  reg' = IF old_host \in Registered
         THEN [reg EXCEPT ![old_host] = "absent", ![new_host] = reg[old_host]]
         ELSE reg

MoveFile(r) ==
  /\ req[r].pc = "move"
  /\ \/ Move(req[r].dst, req[r].src) /\ UNCHANGED faults
     \/ Fault("move") /\ UNCHANGED reg
  /\ Goto(r, "complete")
  /\ UNCHANGED <<dom, log, job, up, shown, deleted, may>>

RecordCompleted(r) ==
  /\ req[r].pc = "complete"
  /\ oplog_record(req[r].dst, "COMPLETED")
  /\ Become(r, Idle)
  /\ UNCHANGED <<dom, job, reg, up, shown, deleted, faults, may>>

-----------------------------------------------------------------------------
(* vm_migrate_abort and vm_migrate_get                                      *)

\* A variant of Abort_migration: the goroutine is told, libvirt is not.
AbortWaiting(h) ==
  /\ h \in up
  /\ shown[h] # None /\ shown[h].host = h
  /\ log[h] = "STARTED" /\ job[h] # None
  /\ req' = [req EXCEPT ![job[h]].pc = "fail"]
  /\ UNCHANGED <<dom, log, job, reg, up, shown, deleted, faults, may>>

\* Refused unless the record says STARTED; then migrate_cancel hits whatever
\* migration there is.
Abort_migration(h) ==
  /\ h \in up
  /\ shown[h] # None /\ shown[h].host = h
  /\ log[h] = "STARTED" /\ job[h] # None
  /\ req' = [req EXCEPT ![job[h]].pc = "cancelled"]
  /\ UNCHANGED <<dom, log, job, reg, up, shown, deleted, faults, may>>

\* The state told to clients: from the record, or from QEMU while it is STARTED.
Get_migration_info(h) ==
  IF log[h] = "STARTED" THEN (IF job[h] = None THEN "none" ELSE "active") ELSE log[h]

-----------------------------------------------------------------------------
(* vm_register                                                              *)

\* Known to the inventory: from libvirt to the registry.
vm_register_vmreg(h) ==
  /\ "register" \in may
  /\ h \in up /\ shown[h] # None /\ shown[h].host = h
  /\ h \in Defined
  /\ reg' = [reg EXCEPT ![h] = log[h]]
  /\ UNCHANGED <<dom, log, job, up, shown, deleted, req, faults, may>>

\* Unknown to the inventory: from the registry to libvirt.  Define_domain takes
\* the place of a definition that is there.
vm_register_libvirt(h) ==
  /\ "register" \in may
  /\ h \in up /\ shown[h] = None
  /\ h \in Registered
  /\ dom' = [dom EXCEPT ![h] = IF @ = "undefined" THEN "off" ELSE @]
  /\ log' = [log EXCEPT ![h] = reg[h]]
  /\ UNCHANGED <<job, reg, up, shown, deleted, req, faults, may>>

-----------------------------------------------------------------------------
(* virtxd ends and starts                                                   *)

\* The goroutines end with virtxd.  libvirt gives up a migration whose client is
\* gone.
Crash(h) ==
  /\ Fault("crash")
  /\ h \in up
  /\ up' = up \ {h}
  /\ shown' = [shown EXCEPT ![h] = None]
  /\ job' = [job EXCEPT ![h] = None]
  /\ req' = [r \in Req |-> IF req[r].src = h THEN Idle ELSE req[r]]
  /\ UNCHANGED <<dom, log, reg, deleted, may>>

\* check_vmreg: virtxd ends at once if a domain of this host is registered under
\* another one.  That it is not registered here is only logged.
check_vmreg(h) == h \in Defined => Registered \subseteq {h}

Start(h) ==
  /\ h \notin up
  /\ check_vmreg(h)
  /\ up' = up \cup {h}
  /\ UNCHANGED <<dom, log, job, reg, shown, deleted, req, faults, may>>

Next ==
  \/ \E h \in Host :
       \/ Boot(h) \/ Stop(h) \/ Learn(h)
       \/ Abort_migration(h)
       \/ vm_register_vmreg(h) \/ vm_register_libvirt(h)
       \/ Crash(h) \/ Start(h)
  \/ \E r \in Req :
       \/ \E h, g \in Host, live \in BOOLEAN : vm_migrate(r, h, g, live)
       \/ RecordStarted(r) \/ MigrateBegin(r) \/ MigrateEnd(r) \/ RecordFailed(r)
       \/ MoveFile(r) \/ RecordCompleted(r)

Spec == Init /\ [][Next]_vars

-----------------------------------------------------------------------------

\* Every variable has the values its declaration says.
TypeOK ==
  /\ dom \in [Host -> DomainState]
  /\ log \in [Host -> Record]
  /\ job \in [Host -> Req \cup {None}]
  /\ reg \in [Host -> Record \cup {"absent"}]
  /\ up \subseteq Host
  /\ shown \in [Host -> [host : Host, state : {"off", "on"}] \cup {None}]
  /\ deleted \in BOOLEAN
  /\ req \in [Req -> Task]
  /\ faults \in 0..MaxFaults
  /\ may \in Worlds

\* Neither virtxd nor the registry fails, and vm_register is not used; and clients wait.
Reliable == may \subseteq {"migrate", "overlap"}
Orderly == may \subseteq {"migrate"}

\* check_vmreg: "all vms in libvirt are registered in vmreg, and in the correct
\* host only", whenever no migration is under way.
RegistryFollows == Orderly /\ Quiet => Registered = Defined

\* Get_migration_info and Abort_migration "check instead the virtx migration
\* operation record first": it never says that a migration ended, or was none,
\* while libvirt runs one, which could then not be aborted; and whatever becomes of a
\* migration, aborted, failed or overtaken by another one, it is not left STARTED.
RecordTellsRunning ==
  /\ Orderly => \A h \in Host : job[h] # None => Get_migration_info(h) = "active"
  /\ Reliable /\ Quiet => \A h \in Host : log[h] # "STARTED"

\* Through crashes, failed moves and registrations, some libvirt has the VM and the
\* registry has its file under some host: vm_register can always repair the rest.
\* Migrations alone, two at once or one after the other without a pause, leave it
\* defined on one host only: MIGRATE_PERSIST_DEST and MIGRATE_UNDEFINE_SOURCE.
NeverForgotten ==
  /\ Defined # {} /\ Registered # {}
  /\ Reliable => Cardinality(Defined) = 1

\* A migration libvirt runs has a goroutine waiting for its end, which will move the
\* registry file and write the record; there is one at most.
MigrationHasOwner ==
  \A h \in Host : job[h] # None =>
    req[job[h]].src = h /\ req[job[h]].pc \in {"perform", "cancelled"}
=============================================================================
