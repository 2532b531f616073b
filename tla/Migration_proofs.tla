-------------------------- MODULE Migration_proofs --------------------------
(***************************************************************************)
(* What Migration promises, proved for any hosts, any number of requests   *)
(* at once, any worlds and any number of faults.                           *)
(*                                                                         *)
(*   JInv     a migration libvirt runs and the goroutine that waits for it *)
(*            belong to each other, one to one;                            *)
(*   LogInv   without crashes, failed moves and registrations the VM is on *)
(*            one host, and a record that says STARTED is one which some   *)
(*            goroutine has still to write, whichever of several           *)
(*            overlapping migrations left it;                              *)
(*   Tidy     with one migration after the other, at which of its steps    *)
(*            the registry lags behind libvirt, and from where to where    *)
(*            the record says STARTED.                                     *)
(***************************************************************************)
EXTENDS Migration, FiniteSetTheorems, TLAPS

\* A goroutine at work has a source and a destination, and they differ.
TaskOK(t) ==
  /\ t.pc = "idle" => t = Idle
  /\ t.pc # "idle" => t.src \in Host /\ t.dst \in Host /\ t.src # t.dst

\* The type invariant and what makes it inductive.
TInv == TypeOK /\ \A r \in Req : TaskOK(req[r])

\* The record of an idle goroutine.
LEMMA IdleTask == Idle \in Task /\ TaskOK(Idle) /\ Idle.pc = "idle" /\ Idle.src = None
BY DEF Idle, Task, TaskOK

\* The task of r is replaced, those of the others are not.
LEMMA BecomeTypes ==
  ASSUME TInv, NEW r \in Req, NEW t \in Task, TaskOK(t), Become(r, t)
  PROVE  /\ req' \in [Req -> Task] /\ \A q \in Req : TaskOK(req'[q])
         /\ req'[r] = t /\ \A q \in Req : q # r => req'[q] = req[q]
BY DEF TInv, TypeOK, Become

\* Goto keeps the hosts of the migration.
LEMMA GotoTypes ==
  ASSUME TInv, NEW r \in Req, req[r].pc # "idle",
         NEW pc \in {"start", "migrate", "perform", "cancelled", "fail", "move", "complete"},
         Goto(r, pc)
  PROVE  /\ req' \in [Req -> Task] /\ \A q \in Req : TaskOK(req'[q])
         /\ req'[r].pc = pc /\ req'[r].src = req[r].src /\ req'[r].dst = req[r].dst
         /\ \A q \in Req : q # r => req'[q] = req[q]
<1> DEFINE t == [req[r] EXCEPT !.pc = pc]
<1>1. req[r] \in Task /\ TaskOK(req[r]) BY DEF TInv, TypeOK
<1>2. t \in Task /\ t.pc = pc /\ t.src = req[r].src /\ t.dst = req[r].dst BY <1>1 DEF Task
<1>3. TaskOK(t) BY <1>1, <1>2 DEF TaskOK
<1>4. Become(r, t) BY DEF Goto
<1> HIDE DEF t
<1> QED BY <1>2, <1>3, <1>4, BecomeTypes

\* The entries an inventory may have are well-formed.
LEMMA EntriesTypes ==
  ASSUME NEW d \in [Host -> DomainState]
  PROVE  Entries(d) \subseteq [host : Host, state : {"off", "on"}]
BY DEF Entries, DomainState

\* The initial state has the types.
LEMMA InitTypes == Init => TInv
<1> SUFFICES ASSUME Init PROVE TInv OBVIOUS
<1>1. dom \in [Host -> DomainState] BY DEF Init, DomainState
<1>2. shown \in [Host -> [host : Host, state : {"off", "on"}] \cup {None}]
  BY <1>1, EntriesTypes DEF Init
<1>3. req \in [Req -> Task] /\ \A r \in Req : TaskOK(req[r]) BY IdleTask DEF Init
<1>4. log \in [Host -> Record] /\ reg \in [Host -> Record \cup {"absent"}] /\ up \subseteq Host
  BY DEF Init, Record
<1>5. job \in [Host -> Req \cup {None}] /\ deleted \in BOOLEAN /\ may \in Worlds
  BY DEF Init
<1>6. faults \in 0..MaxFaults BY MigrationAssumption DEF Init
<1> QED BY <1>1, <1>2, <1>3, <1>4, <1>5, <1>6 DEF TInv, TypeOK

\* Boot, Stop, Learn, vm_register and Start keep the types.
LEMMA WorldTypes ==
  ASSUME TInv, NEW h \in Host,
         \/ Boot(h) \/ Stop(h) \/ Learn(h)
         \/ vm_register_vmreg(h) \/ vm_register_libvirt(h) \/ Start(h)
  PROVE  TInv'
<1>1. CASE Boot(h) BY <1>1 DEF Boot, TInv, TypeOK, DomainState
<1>2. CASE Stop(h) BY <1>2 DEF Stop, TInv, TypeOK, DomainState
<1>3. CASE Learn(h)
  <2>1. shown' \in [Host -> [host : Host, state : {"off", "on"}] \cup {None}]
    BY <1>3, EntriesTypes DEF Learn, TInv, TypeOK
  <2> QED BY <1>3, <2>1 DEF Learn, TInv, TypeOK
<1>4. CASE vm_register_vmreg(h) BY <1>4 DEF vm_register_vmreg, TInv, TypeOK
<1>5. CASE vm_register_libvirt(h)
  BY <1>5 DEF vm_register_libvirt, TInv, TypeOK, DomainState, Registered
<1>6. CASE Start(h) BY <1>6 DEF Start, TInv, TypeOK
<1> QED BY <1>1, <1>2, <1>3, <1>4, <1>5, <1>6

\* The count of faults stays within its bound.
LEMMA FaultTypes == ASSUME TInv, NEW kind, Fault(kind) PROVE faults' \in 0..MaxFaults
BY MigrationAssumption DEF Fault, TInv, TypeOK

\* A crash ends the goroutines of one host.
LEMMA CrashTypes ==
  ASSUME TInv, NEW h \in Host, Crash(h)
  PROVE  TInv' /\ \A r \in Req : req'[r] = IF req[r].src = h THEN Idle ELSE req[r]
<1>1. req' \in [Req -> Task] /\ \A r \in Req : TaskOK(req'[r])
  BY IdleTask DEF Crash, TInv, TypeOK
<1>2. faults' \in 0..MaxFaults BY FaultTypes DEF Crash
<1> QED BY <1>1, <1>2 DEF Crash, TInv, TypeOK


\* vm_migrate leaves a goroutine with two hosts.
LEMMA MigrateTypes ==
  ASSUME TInv, NEW r \in Req, NEW h \in Host, NEW g \in Host, NEW live \in BOOLEAN,
         vm_migrate(r, h, g, live)
  PROVE  /\ TInv' /\ req'[r].pc = "start" /\ req'[r].src = h /\ req'[r].dst = g
         /\ \A q \in Req : q # r => req'[q] = req[q]
<1> DEFINE t == [pc |-> "start", src |-> h, dst |-> g, live |-> live]
<1>1. t \in Task /\ TaskOK(t) /\ t.pc = "start" /\ t.src = h /\ t.dst = g
  BY DEF Task, TaskOK, vm_migrate
<1>2. Become(r, t) BY DEF vm_migrate
<1> HIDE DEF t
<1> QED BY <1>1, <1>2, BecomeTypes DEF vm_migrate, TInv, TypeOK

\* What a goroutine at its next point is: idle, or there with the same hosts.
At(r, pc) ==
  /\ TInv'
  /\ req'[r].pc = pc
  /\ pc # "idle" => req'[r].src = req[r].src /\ req'[r].dst = req[r].dst
  /\ \A q \in Req : q # r => req'[q] = req[q]

\* The steps that write the record of the operation.
LEMMA RecordTypes ==
  ASSUME TInv, NEW r \in Req
  PROVE  /\ RecordStarted(r) => At(r, IF req[r].src \in Defined THEN "migrate" ELSE "idle")
         /\ RecordFailed(r) => At(r, "idle")
         /\ RecordCompleted(r) => At(r, "idle")
<1>1. \A h, s : s \in Record /\ oplog_record(h, s) => log' \in [Host -> Record]
  BY DEF oplog_record, Defined, TInv, TypeOK
<1>2. ASSUME RecordStarted(r) PROVE At(r, IF req[r].src \in Defined THEN "migrate" ELSE "idle")
  <2>1. log' \in [Host -> Record] BY <1>1, <1>2 DEF RecordStarted, TInv, TypeOK, Record
  <2>2. CASE req[r].src \in Defined
    <3>1. Goto(r, "migrate") /\ req[r].pc # "idle" BY <1>2, <2>2 DEF RecordStarted
    <3> QED BY <1>2, <2>1, <2>2, <3>1, GotoTypes DEF RecordStarted, At, TInv, TypeOK
  <2>3. CASE req[r].src \notin Defined
    <3>1. Become(r, Idle) BY <1>2, <2>3 DEF RecordStarted
    <3> QED BY <1>2, <2>1, <2>3, <3>1, IdleTask, BecomeTypes DEF RecordStarted, At, TInv, TypeOK
  <2> QED BY <2>2, <2>3
<1>3. ASSUME RecordFailed(r) PROVE At(r, "idle")
  <2>1. log' \in [Host -> Record] BY <1>1, <1>3 DEF RecordFailed, Record
  <2> QED BY <1>3, <2>1, IdleTask, BecomeTypes DEF RecordFailed, At, TInv, TypeOK
<1>4. ASSUME RecordCompleted(r) PROVE At(r, "idle")
  <2>1. log' \in [Host -> Record] BY <1>1, <1>4 DEF RecordCompleted, Record
  <2> QED BY <1>4, <2>1, IdleTask, BecomeTypes DEF RecordCompleted, At, TInv, TypeOK
<1> QED BY <1>2, <1>3, <1>4

\* Migrate3 is called.
LEMMA BeginTypes ==
  ASSUME TInv, NEW r \in Req, MigrateBegin(r)
  PROVE  At(r, IF Migratable(req[r]) THEN "perform" ELSE "fail")
<1>1. job' \in [Host -> Req \cup {None}] BY DEF MigrateBegin, TInv, TypeOK
<1>2. req[r].pc # "idle" BY DEF MigrateBegin
<1>3. CASE Migratable(req[r])
  <2>1. Goto(r, "perform") BY <1>3 DEF MigrateBegin
  <2> QED BY <1>1, <1>2, <1>3, <2>1, GotoTypes DEF MigrateBegin, At, TInv, TypeOK
<1>4. CASE ~Migratable(req[r])
  <2>1. Goto(r, "fail") BY <1>4 DEF MigrateBegin
  <2> QED BY <1>1, <1>2, <1>4, <2>1, GotoTypes DEF MigrateBegin, At, TInv, TypeOK
<1> QED BY <1>3, <1>4

\* Migrate3 returns: the VM has moved, or nothing has.
Arrives(r) ==
  /\ dom[req[r].src] # "undefined"
  /\ dom' = [dom EXCEPT ![req[r].src] = "undefined", ![req[r].dst] = dom[req[r].src]]
  /\ log' = [log EXCEPT ![req[r].src] = "none", ![req[r].dst] = log[req[r].src]]
  /\ At(r, "move")

\* Both outcomes keep the types.
LEMMA EndTypes ==
  ASSUME TInv, NEW r \in Req, MigrateEnd(r)
  PROVE  Arrives(r) \/ (At(r, "fail") /\ UNCHANGED <<dom, log>>)
<1>1. job' \in [Host -> Req \cup {None}] BY DEF MigrateEnd, TInv, TypeOK
<1>2. req[r].pc # "idle" /\ UNCHANGED <<reg, up, shown, may>> BY DEF MigrateEnd
<1>3. req[r].src \in Host /\ req[r].dst \in Host BY <1>2 DEF TInv, TaskOK
<1> DEFINE ok == req[r].pc = "perform" /\ dom[req[r].src] = IF req[r].live THEN "on" ELSE "off"
<1>4. CASE /\ ok
           /\ dom' = [dom EXCEPT ![req[r].src] = "undefined", ![req[r].dst] = dom[req[r].src]]
           /\ log' = [log EXCEPT ![req[r].src] = "none", ![req[r].dst] = log[req[r].src]]
           /\ deleted' = TRUE /\ Goto(r, "move") /\ UNCHANGED faults
  <2>1. dom' \in [Host -> DomainState] /\ log' \in [Host -> Record]
    BY <1>3, <1>4 DEF TInv, TypeOK, DomainState, Record
  <2>2. deleted' \in BOOLEAN BY <1>4
  <2>3. At(r, "move") BY <1>1, <1>2, <1>4, <2>1, <2>2, GotoTypes DEF At, TInv, TypeOK
  <2>4. dom[req[r].src] # "undefined" BY <1>4
  <2> QED BY <1>4, <2>3, <2>4 DEF Arrives
<1>5. CASE /\ IF ok THEN Fault("migrate") ELSE UNCHANGED faults
           /\ Goto(r, "fail") /\ UNCHANGED <<dom, log, deleted>>
  <2>1. faults' \in 0..MaxFaults BY <1>5, FaultTypes DEF TInv, TypeOK
  <2>2. At(r, "fail") BY <1>1, <1>2, <1>5, <2>1, GotoTypes DEF At, TInv, TypeOK
  <2> QED BY <1>5, <2>2
<1> QED BY <1>4, <1>5 DEF MigrateEnd

\* The file of the registry is moved.
LEMMA MoveTypes ==
  ASSUME TInv, NEW r \in Req, MoveFile(r)
  PROVE  At(r, "complete")
<1>1. reg' \in [Host -> Record \cup {"absent"}]
  BY DEF MoveFile, Move, Registered, TInv, TypeOK
<1>2. faults' \in 0..MaxFaults BY FaultTypes DEF MoveFile, TInv, TypeOK
<1> QED BY <1>1, <1>2, GotoTypes DEF MoveFile, At, TInv, TypeOK

-----------------------------------------------------------------------------
(* Migrations and the goroutines that wait for them.                        *)

\* The goroutine is inside Migrate3.
Waits(t) == t.pc \in {"perform", "cancelled"}

\* A migration belongs to the goroutine that waits for it, and to no other.
JInv ==
  /\ TInv
  /\ MigrationHasOwner
  /\ \A r \in Req : Waits(req[r]) => job[req[r].src] = r

\* Abort_migration cancels the goroutine that waits for this migration.
LEMMA AbortTypes ==
  ASSUME JInv, NEW h \in Host, Abort_migration(h)
  PROVE  /\ job[h] \in Req /\ Waits(req[job[h]])
         /\ At(job[h], "cancelled")
<1>1. job[h] \in Req BY DEF Abort_migration, JInv, TInv, TypeOK
<1>2. Waits(req[job[h]]) BY DEF Abort_migration, JInv, MigrationHasOwner, Waits
<1>3. Goto(job[h], "cancelled")
  BY <1>1 DEF Abort_migration, Goto, Become, JInv, TInv, TypeOK
<1> QED BY <1>1, <1>2, <1>3, GotoTypes DEF Abort_migration, At, JInv, TInv, TypeOK, Waits

\* Every step keeps that.
LEMMA NextOwner == JInv /\ [Next]_vars => JInv'
<1> SUFFICES ASSUME JInv, [Next]_vars PROVE JInv' OBVIOUS
<1> USE DEF JInv, MigrationHasOwner, Waits
<1>0. TInv /\ \A r \in Req : req[r].pc # "idle" => req[r].src \in Host
  BY DEF TInv, TaskOK
<1>1. CASE UNCHANGED vars BY <1>1 DEF vars, TInv, TypeOK
<1>2. ASSUME NEW h \in Host,
             \/ Boot(h) \/ Stop(h) \/ Learn(h)
             \/ vm_register_vmreg(h) \/ vm_register_libvirt(h) \/ Start(h)
      PROVE  JInv'
  <2>1. UNCHANGED <<req, job>>
    BY <1>2 DEF Boot, Stop, Learn, vm_register_vmreg, vm_register_libvirt, Start
  <2> QED BY <1>0, <1>2, <2>1, WorldTypes
<1>3. ASSUME NEW h \in Host, Abort_migration(h) PROVE JInv'
  <2>1. job' = job BY <1>3 DEF Abort_migration
  <2>2. PICK r \in Req : r = job[h] /\ Waits(req[r]) /\ At(r, "cancelled")
    <3> HIDE DEF JInv, Waits
    <3> QED BY <1>3, AbortTypes
  <2>3. job \in [Host -> Req \cup {None}] BY DEF TInv, TypeOK
  <2>4. MigrationHasOwner' BY <1>0, <2>1, <2>2, <2>3 DEF At
  <2>5. \A q \in Req : Waits(req'[q]) => job'[req'[q].src] = q BY <1>0, <2>1, <2>2 DEF At
  <2> QED BY <2>2, <2>4, <2>5 DEF At
<1>4. ASSUME NEW h \in Host, Crash(h) PROVE JInv'
  <2>1. \A g \in Host : job'[g] = IF g = h THEN None ELSE job[g]
    BY <1>4 DEF Crash, TInv, TypeOK
  <2>2. TInv' /\ \A r \in Req : req'[r] = IF req[r].src = h THEN Idle ELSE req[r]
    BY <1>0, <1>4, CrashTypes
  <2>3. job \in [Host -> Req \cup {None}] BY DEF TInv, TypeOK
  <2>4. MigrationHasOwner' BY <1>0, <2>1, <2>2, <2>3, IdleTask
  <2>5. \A r \in Req : Waits(req'[r]) => job'[req'[r].src] = r
    BY <1>0, <2>1, <2>2, IdleTask
  <2> QED BY <2>2, <2>4, <2>5
<1>5. ASSUME NEW r \in Req, NEW h \in Host, NEW g \in Host, NEW live \in BOOLEAN,
             vm_migrate(r, h, g, live)
      PROVE  JInv'
  <2>1. job' = job /\ req[r].pc = "idle" BY <1>5 DEF vm_migrate
  <2>2. job \in [Host -> Req \cup {None}] BY DEF TInv, TypeOK
  <2>3. /\ TInv' /\ req'[r].pc = "start" /\ \A q \in Req : q # r => req'[q] = req[q]
    BY <1>0, <1>5, MigrateTypes
  <2> QED BY <1>0, <2>1, <2>2, <2>3
<1>6. ASSUME NEW r \in Req, RecordStarted(r) \/ RecordFailed(r) \/ MoveFile(r) \/ RecordCompleted(r)
      PROVE  JInv'
  <2>1. job' = job /\ ~Waits(req[r])
    BY <1>6 DEF RecordStarted, RecordFailed, MoveFile, RecordCompleted
  <2>2. \E pc \in {"migrate", "idle", "complete"} : At(r, pc)
    BY <1>0, <1>6, RecordTypes, MoveTypes
  <2>3. job \in [Host -> Req \cup {None}] BY DEF TInv, TypeOK
  <2> QED BY <1>0, <2>1, <2>2, <2>3 DEF At
<1>7. ASSUME NEW r \in Req, MigrateBegin(r) PROVE JInv'
  <2>1. req[r].pc = "migrate" BY <1>7 DEF MigrateBegin
  <2>2. job \in [Host -> Req \cup {None}] BY DEF TInv, TypeOK
  <2>3. CASE Migratable(req[r])
    <3>1. At(r, "perform") BY <1>0, <1>7, <2>3, BeginTypes
    <3>2. job[req[r].src] = None BY <2>3 DEF Migratable
    <3>3. \A g \in Host : job'[g] = IF g = req[r].src THEN r ELSE job[g]
      BY <1>0, <1>7, <2>2, <2>3 DEF MigrateBegin
    <3>4. MigrationHasOwner' BY <1>0, <2>1, <2>2, <3>1, <3>3 DEF At
    <3>5. \A q \in Req : Waits(req'[q]) => job'[req'[q].src] = q
      BY <1>0, <2>1, <3>1, <3>2, <3>3, MigrationAssumption DEF At
    <3> QED BY <3>1, <3>4, <3>5 DEF At
  <2>4. CASE ~Migratable(req[r])
    <3>1. At(r, "fail") /\ job' = job BY <1>0, <1>7, <2>4, BeginTypes DEF MigrateBegin
    <3> QED BY <1>0, <2>1, <2>2, <3>1 DEF At
  <2> QED BY <2>3, <2>4
<1>8. ASSUME NEW r \in Req, MigrateEnd(r) PROVE JInv'
  <2>1. Waits(req[r]) BY <1>8 DEF MigrateEnd
  <2>2. job \in [Host -> Req \cup {None}] BY DEF TInv, TypeOK
  <2>3. \A g \in Host : job'[g] = IF g = req[r].src THEN None ELSE job[g]
    BY <1>8, <2>2 DEF MigrateEnd
  <2>4. At(r, "move") \/ At(r, "fail") BY <1>0, <1>8, EndTypes DEF Arrives
  <2>5. MigrationHasOwner' BY <1>0, <2>1, <2>2, <2>3, <2>4 DEF At
  <2>6. \A q \in Req : Waits(req'[q]) => job'[req'[q].src] = q
    BY <1>0, <2>1, <2>3, <2>4 DEF At
  <2> QED BY <2>4, <2>5, <2>6 DEF At
<1> QED BY <1>1, <1>2, <1>3, <1>4, <1>5, <1>6, <1>7, <1>8 DEF Next

\* No goroutine, no migration at first.
LEMMA InitOwner == Init => JInv
BY InitTypes DEF Init, JInv, MigrationHasOwner, Waits, Idle

\* The invariant holds throughout.
LEMMA Owners == Spec => []JInv
BY InitOwner, NextOwner, PTL DEF Spec

\* Every variable keeps the values its declaration says.
THEOREM MigrationTypeCorrect == Spec => []TypeOK
<1>1. JInv => TypeOK BY DEF JInv, TInv
<1> QED BY <1>1, Owners, PTL

\* A migration that libvirt runs always has the goroutine that will finish its
\* bookkeeping, however requests overlap, are aborted or are cut off by a crash.
THEOREM MigrationsOwned == Spec => []MigrationHasOwner
<1>1. JInv => MigrationHasOwner BY DEF JInv
<1> QED BY <1>1, Owners, PTL

-----------------------------------------------------------------------------
(* Where the VM is defined and registered.                                  *)

\* A step leaves the definitions alone, or adds one (vm_register), or moves one.
LEMMA DefinedStep ==
  ASSUME JInv, Next
  PROVE  \/ Defined' = Defined
         \/ "register" \in may /\ \E h \in Host : Defined' = Defined \cup {h}
         \/ \E r \in Req : /\ Arrives(r) /\ req[r].src \in Defined
                           /\ req[r].dst \in Host /\ req[r].src # req[r].dst
                           /\ Defined' = (Defined \ {req[r].src}) \cup {req[r].dst}
<1>0. TInv /\ dom \in [Host -> DomainState] BY DEF JInv, TInv, TypeOK
<1>1. ASSUME NEW h \in Host, Boot(h) \/ Stop(h) PROVE Defined' = Defined
  BY <1>0, <1>1 DEF Boot, Stop, Defined
<1>2. ASSUME NEW h \in Host, vm_register_libvirt(h)
      PROVE  "register" \in may /\ Defined' = Defined \cup {h}
  BY <1>0, <1>2 DEF vm_register_libvirt, Defined
<1>3. ASSUME NEW h \in Host,
             \/ Learn(h) \/ Abort_migration(h) \/ vm_register_vmreg(h) \/ Crash(h) \/ Start(h)
      PROVE  Defined' = Defined
  BY <1>3 DEF Learn, Abort_migration, vm_register_vmreg, Crash, Start, Defined
<1>4. ASSUME NEW r \in Req,
             \/ \E h, g \in Host, live \in BOOLEAN : vm_migrate(r, h, g, live)
             \/ RecordStarted(r) \/ MigrateBegin(r) \/ RecordFailed(r)
             \/ MoveFile(r) \/ RecordCompleted(r)
      PROVE  Defined' = Defined
  BY <1>4 DEF vm_migrate, RecordStarted, MigrateBegin, RecordFailed, MoveFile, RecordCompleted,
              Defined
<1>5. ASSUME NEW r \in Req, MigrateEnd(r)
      PROVE  \/ Defined' = Defined
             \/ /\ Arrives(r) /\ req[r].src \in Defined
                /\ req[r].dst \in Host /\ req[r].src # req[r].dst
                /\ Defined' = (Defined \ {req[r].src}) \cup {req[r].dst}
  <2>1. req[r].src \in Host /\ req[r].dst \in Host /\ req[r].src # req[r].dst
    BY <1>0, <1>5 DEF MigrateEnd, TInv, TaskOK
  <2>2. CASE UNCHANGED dom BY <2>2 DEF Defined
  <2>3. CASE Arrives(r)
    <3>1. \A h \in Host : dom'[h] = IF h = req[r].dst THEN dom[req[r].src]
                                    ELSE IF h = req[r].src THEN "undefined" ELSE dom[h]
      BY <1>0, <2>1, <2>3 DEF Arrives
    <3>2. dom[req[r].src] # "undefined" BY <2>3 DEF Arrives
    <3> QED BY <2>1, <2>3, <3>1, <3>2 DEF Defined
  <2> QED BY <1>0, <1>5, <2>2, <2>3, EndTypes
<1> QED BY <1>1, <1>2, <1>3, <1>4, <1>5 DEF Next

\* A step leaves the registry alone, or moves its file, or vm_register writes one.
LEMMA RegisteredStep ==
  ASSUME JInv, Next
  PROVE  \/ Registered' = Registered
         \/ "register" \in may /\ \E h \in Host : Registered' = Registered \cup {h}
         \/ \E r \in Req : /\ MoveFile(r) /\ req[r].src \in Registered
                           /\ Registered' = (Registered \ {req[r].src}) \cup {req[r].dst}
<1>0. TInv /\ reg \in [Host -> Record \cup {"absent"}] /\ log \in [Host -> Record]
  BY DEF JInv, TInv, TypeOK
<1>1. ASSUME NEW h \in Host, vm_register_vmreg(h)
      PROVE  "register" \in may /\ Registered' = Registered \cup {h}
  BY <1>0, <1>1 DEF vm_register_vmreg, Registered, Record
<1>2. ASSUME NEW h \in Host,
             \/ Boot(h) \/ Stop(h) \/ Learn(h) \/ Abort_migration(h) \/ vm_register_libvirt(h)
             \/ Crash(h) \/ Start(h)
      PROVE  Registered' = Registered
  BY <1>2 DEF Boot, Stop, Learn, Abort_migration, vm_register_libvirt, Crash, Start, Registered
<1>3. ASSUME NEW r \in Req,
             \/ \E h, g \in Host, live \in BOOLEAN : vm_migrate(r, h, g, live)
             \/ RecordStarted(r) \/ MigrateBegin(r) \/ MigrateEnd(r) \/ RecordFailed(r)
             \/ RecordCompleted(r)
      PROVE  Registered' = Registered
  BY <1>3 DEF vm_migrate, RecordStarted, MigrateBegin, MigrateEnd, RecordFailed, RecordCompleted,
              Registered
<1>4. ASSUME NEW r \in Req, MoveFile(r)
      PROVE  \/ Registered' = Registered
             \/ /\ req[r].src \in Registered
                /\ Registered' = (Registered \ {req[r].src}) \cup {req[r].dst}
  <2>1. req[r].src \in Host /\ req[r].dst \in Host /\ req[r].src # req[r].dst
    BY <1>0, <1>4 DEF MoveFile, TInv, TaskOK
  <2>2. CASE UNCHANGED reg BY <2>2 DEF Registered
  <2>3. CASE /\ req[r].src \in Registered
             /\ reg' = [reg EXCEPT ![req[r].src] = "absent", ![req[r].dst] = reg[req[r].src]]
    <3>1. \A h \in Host : reg'[h] = IF h = req[r].dst THEN reg[req[r].src]
                                    ELSE IF h = req[r].src THEN "absent" ELSE reg[h]
      BY <1>0, <2>1, <2>3
    <3>2. req[r].src \in Registered /\ reg[req[r].src] # "absent" BY <2>3 DEF Registered
    <3>3. Registered' = (Registered \ {req[r].src}) \cup {req[r].dst}
      BY <2>1, <3>1, <3>2 DEF Registered
    <3> QED BY <3>2, <3>3
  <2> QED BY <1>4, <2>2, <2>3 DEF MoveFile, Move
<1> QED BY <1>1, <1>2, <1>3, <1>4 DEF Next

\* Some libvirt has the VM and some file of the registry does.
Known == Defined # {} /\ Registered # {}

\* Migrations alone leave one definition.
OneHost == Reliable => \E h \in Host : Defined = {h}

\* Both are kept.
LEMMA NextKnown == JInv /\ Known /\ OneHost /\ [Next]_vars => Known' /\ OneHost'
<1> SUFFICES ASSUME JInv, Known, OneHost, [Next]_vars PROVE Known' /\ OneHost' OBVIOUS
<1>1. CASE UNCHANGED vars
  BY <1>1 DEF vars, Known, OneHost, Defined, Registered, Reliable
<1>2. CASE Next
  <2>1. may' = may
    BY <1>2 DEF Next, Boot, Stop, Learn, Abort_migration, vm_register_vmreg, vm_register_libvirt,
       Crash, Start, vm_migrate, RecordStarted, MigrateBegin, MigrateEnd, RecordFailed,
       MoveFile, RecordCompleted
  <2>2. Known' BY <1>2, DefinedStep, RegisteredStep DEF Known
  <2>3. OneHost'
    <3> SUFFICES ASSUME Reliable PROVE \E h \in Host : Defined' = {h}
      BY <2>1 DEF OneHost, Reliable
    <3>1. "register" \notin may BY DEF Reliable
    <3> QED BY <1>2, <3>1, DefinedStep DEF OneHost
  <2> QED BY <2>2, <2>3
<1> QED BY <1>1, <1>2

\* Both hold initially: on the first host of the VM.
LEMMA InitKnown == Init => Known /\ OneHost
<1> SUFFICES ASSUME Init PROVE Known /\ OneHost OBVIOUS
<1>1. Defined = {Home} BY MigrationAssumption DEF Init, Defined
<1>2. Registered = {Home} BY MigrationAssumption DEF Init, Registered
<1> QED BY <1>1, <1>2, MigrationAssumption DEF Known, OneHost

\* Through crashes, failed moves and registrations the VM stays defined and registered
\* somewhere, and migrations alone, however many at once, leave it defined on one host.
THEOREM VmNeverForgotten == Spec => []NeverForgotten
<1>1. Spec => [](Known /\ OneHost) BY InitKnown, NextKnown, Owners, PTL DEF Spec
<1>2. Known /\ OneHost => NeverForgotten
  BY FS_Singleton DEF Known, OneHost, NeverForgotten
<1> QED BY <1>1, <1>2, PTL

-----------------------------------------------------------------------------
(* The record of the operation.                                             *)

\* The goroutine will write the last record of its migration at h, if h still has the
\* VM then: FAILED on its source, or COMPLETED on its destination.
Writes(t, h) ==
  \/ t.pc \in {"migrate", "perform", "cancelled", "fail"} /\ t.src = h
  \/ t.pc \in {"move", "complete"} /\ t.dst = h

\* A record that says STARTED will be written again, and a host without the VM has none.
Logged ==
  Reliable => \A h \in Host :
    /\ h \notin Defined => log[h] = "none"
    /\ log[h] = "STARTED" => \E r \in Req : Writes(req[r], h)

\* What makes it inductive.
LogInv == JInv /\ Known /\ OneHost /\ Logged

\* Definitions and records stand, and who is to write a record still is.
LEMMA QuietStep ==
  ASSUME Logged, UNCHANGED <<dom, log, may>>,
         \A r \in Req, h \in Host : Writes(req[r], h) => Writes(req'[r], h)
  PROVE  Logged'
BY DEF Logged, Defined, Reliable

\* The record of h is written by goroutine r.
LEMMA WriteStep ==
  ASSUME JInv, Logged, NEW r \in Req, NEW h \in Host, NEW s \in Record,
         oplog_record(h, s), UNCHANGED <<dom, may>>,
         \A q \in Req : q # r => req'[q] = req[q],
         \A g \in Host : Writes(req[r], g) => g = h,
         s = "STARTED" => Writes(req'[r], h)
  PROVE  Logged'
<1> SUFFICES ASSUME Reliable, NEW g \in Host
             PROVE  /\ g \notin Defined => log'[g] = "none"
                    /\ log'[g] = "STARTED" => \E q \in Req : Writes(req'[q], g)
  BY DEF Logged, Reliable, Defined, Writes
<1>1. log \in [Host -> Record] BY DEF JInv, TInv, TypeOK
<1>2. g # h => log'[g] = log[g] BY <1>1 DEF oplog_record
<1>3. log'[h] = IF h \in Defined THEN s ELSE log[h] BY <1>1 DEF oplog_record
<1>4. /\ g \notin Defined => log[g] = "none"
      /\ log[g] = "STARTED" => \E q \in Req : Writes(req[q], g)
  BY DEF Logged
<1>5. CASE g = h BY <1>3, <1>4, <1>5
<1>6. CASE g # h BY <1>2, <1>4, <1>6
<1> QED BY <1>5, <1>6

\* The migration takes the record along, and its goroutine will write it at the
\* destination.
LEMMA ArriveStep ==
  ASSUME JInv, OneHost, Logged, NEW r \in Req, MigrateEnd(r), Arrives(r)
  PROVE  Logged'
<1> DEFINE h == req[r].src
           g == req[r].dst
<1>1. h \in Host /\ g \in Host /\ h # g BY DEF JInv, TInv, TaskOK, MigrateEnd
<1>2. may' = may /\ log \in [Host -> Record] /\ dom \in [Host -> DomainState]
  BY DEF MigrateEnd, JInv, TInv, TypeOK
<1> SUFFICES ASSUME Reliable, NEW k \in Host
             PROVE  /\ k \notin Defined' => log'[k] = "none"
                    /\ log'[k] = "STARTED" => \E q \in Req : Writes(req'[q], k)
  BY <1>2 DEF Logged, Reliable, Writes
<1>3. Defined = {h} BY <1>1 DEF OneHost, Arrives, Defined
<1>4. log'[h] = "none" /\ log'[g] = log[h] /\ (k \notin {g, h} => log'[k] = log[k])
  BY <1>1, <1>2 DEF Arrives
<1>5. k # h => log[k] = "none" BY <1>3 DEF Logged
<1>6. g \in Defined' BY <1>1, <1>2 DEF Arrives, Defined
<1>7. Writes(req'[r], g) BY <1>1 DEF Arrives, At, Writes
<1> QED BY <1>4, <1>5, <1>6, <1>7

\* Every step keeps it.
LEMMA NextLogged == LogInv /\ [Next]_vars => Logged'
<1> SUFFICES ASSUME LogInv, [Next]_vars PROVE Logged' OBVIOUS
<1>0. JInv /\ TInv /\ Known /\ OneHost /\ Logged BY DEF LogInv, JInv
<1>1. CASE UNCHANGED vars BY <1>0, <1>1, QuietStep DEF vars
<1>2. ASSUME NEW h \in Host, Boot(h) \/ Stop(h) PROVE Logged'
  <2>1. Defined' = Defined /\ UNCHANGED <<log, req, may>>
    BY <1>0, <1>2 DEF Boot, Stop, Defined, TInv, TypeOK
  <2> QED BY <1>0, <2>1 DEF Logged, Reliable
<1>3. ASSUME NEW h \in Host, Learn(h) \/ Start(h) \/ vm_register_vmreg(h) PROVE Logged'
  <2>1. UNCHANGED <<dom, log, req, may>> BY <1>3 DEF Learn, Start, vm_register_vmreg
  <2> QED BY <1>0, <2>1, QuietStep
<1>4. ASSUME NEW h \in Host, vm_register_libvirt(h) \/ Crash(h) PROVE Logged'
  <2>1. ~Reliable /\ may' = may BY <1>4 DEF vm_register_libvirt, Crash, Fault, Reliable
  <2> QED BY <2>1 DEF Logged, Reliable
<1>5. ASSUME NEW h \in Host, Abort_migration(h) PROVE Logged'
  <2>1. UNCHANGED <<dom, log, may>> BY <1>5 DEF Abort_migration
  <2>2. PICK r \in Req : Waits(req[r]) /\ At(r, "cancelled") BY <1>0, <1>5, AbortTypes
  <2>3. \A q \in Req, g \in Host : Writes(req[q], g) => Writes(req'[q], g)
    BY <2>2 DEF At, Waits, Writes
  <2> QED BY <1>0, <2>1, <2>3, QuietStep
<1>6. ASSUME NEW r \in Req, NEW h \in Host, NEW g \in Host, NEW live \in BOOLEAN,
             vm_migrate(r, h, g, live)
      PROVE  Logged'
  <2>1. UNCHANGED <<dom, log, may>> /\ req[r].pc = "idle" BY <1>6 DEF vm_migrate
  <2>2. \A q \in Req : q # r => req'[q] = req[q] BY <1>0, <1>6, MigrateTypes
  <2>3. \A q \in Req, k \in Host : Writes(req[q], k) => Writes(req'[q], k)
    BY <2>1, <2>2 DEF Writes
  <2> QED BY <1>0, <2>1, <2>3, QuietStep
<1>7. ASSUME NEW r \in Req, RecordStarted(r) PROVE Logged'
  <2>1. /\ req[r].pc = "start" /\ UNCHANGED <<dom, may>> /\ req[r].src \in Host
        /\ "STARTED" \in Record
    BY <1>0, <1>7 DEF RecordStarted, TInv, TaskOK, Record
  <2>2. CASE req[r].src \in Defined
    <3>1. At(r, "migrate") BY <1>0, <1>7, <2>2, RecordTypes
    <3>2. Writes(req'[r], req[r].src) BY <3>1 DEF At, Writes
    <3>3. oplog_record(req[r].src, "STARTED") BY <1>7, <2>2 DEF RecordStarted
    <3>4. \A g \in Host : ~Writes(req[r], g) BY <2>1 DEF Writes
    <3> QED BY <1>0, <2>1, <3>1, <3>2, <3>3, <3>4, WriteStep DEF At
  <2>3. CASE req[r].src \notin Defined
    <3>1. At(r, "idle") /\ log' = log BY <1>0, <1>7, <2>3, RecordTypes DEF RecordStarted
    <3>2. \A q \in Req, k \in Host : Writes(req[q], k) => Writes(req'[q], k)
      BY <2>1, <3>1 DEF Writes, At
    <3> QED BY <1>0, <2>1, <3>1, <3>2, QuietStep
  <2> QED BY <2>2, <2>3
<1>8. ASSUME NEW r \in Req, MigrateBegin(r) PROVE Logged'
  <2>1. UNCHANGED <<dom, log, may>> /\ req[r].pc = "migrate" BY <1>8 DEF MigrateBegin
  <2>2. At(r, "perform") \/ At(r, "fail") BY <1>0, <1>8, BeginTypes
  <2>3. \A q \in Req, k \in Host : Writes(req[q], k) => Writes(req'[q], k)
    BY <2>1, <2>2 DEF Writes, At
  <2> QED BY <1>0, <2>1, <2>3, QuietStep
<1>9. ASSUME NEW r \in Req, MigrateEnd(r) PROVE Logged'
  <2>1. CASE Arrives(r) BY <1>0, <1>9, <2>1, ArriveStep
  <2>2. CASE At(r, "fail") /\ UNCHANGED <<dom, log>>
    <3>1. may' = may /\ req[r].pc \in {"perform", "cancelled"} BY <1>9 DEF MigrateEnd
    <3>2. \A q \in Req, k \in Host : Writes(req[q], k) => Writes(req'[q], k)
      BY <2>2, <3>1 DEF Writes, At
    <3> QED BY <1>0, <2>2, <3>1, <3>2, QuietStep
  <2> QED BY <1>0, <1>9, <2>1, <2>2, EndTypes
<1>10. ASSUME NEW r \in Req, RecordFailed(r) PROVE Logged'
  <2>1. /\ req[r].pc = "fail" /\ UNCHANGED <<dom, may>> /\ req[r].src \in Host
        /\ oplog_record(req[r].src, "FAILED") /\ "FAILED" \in Record
    BY <1>0, <1>10 DEF RecordFailed, TInv, TaskOK, Record
  <2>2. At(r, "idle") BY <1>0, <1>10, RecordTypes
  <2>3. \A g \in Host : Writes(req[r], g) => g = req[r].src BY <2>1 DEF Writes
  <2> QED BY <1>0, <2>1, <2>2, <2>3, WriteStep DEF At
<1>11. ASSUME NEW r \in Req, RecordCompleted(r) PROVE Logged'
  <2>1. /\ req[r].pc = "complete" /\ UNCHANGED <<dom, may>> /\ req[r].dst \in Host
        /\ oplog_record(req[r].dst, "COMPLETED") /\ "COMPLETED" \in Record
    BY <1>0, <1>11 DEF RecordCompleted, TInv, TaskOK, Record
  <2>2. At(r, "idle") BY <1>0, <1>11, RecordTypes
  <2>3. \A g \in Host : Writes(req[r], g) => g = req[r].dst BY <2>1 DEF Writes
  <2> QED BY <1>0, <2>1, <2>2, <2>3, WriteStep DEF At
<1>12. ASSUME NEW r \in Req, MoveFile(r) PROVE Logged'
  <2>1. UNCHANGED <<dom, log, may>> /\ req[r].pc = "move" BY <1>12 DEF MoveFile
  <2>2. At(r, "complete") BY <1>0, <1>12, MoveTypes
  <2>3. \A q \in Req, k \in Host : Writes(req[q], k) => Writes(req'[q], k)
    BY <2>1, <2>2 DEF Writes, At
  <2> QED BY <1>0, <2>1, <2>3, QuietStep
<1> QED BY <1>1, <1>2, <1>3, <1>4, <1>5, <1>6, <1>7, <1>8, <1>9, <1>10, <1>11, <1>12 DEF Next

\* It holds initially and throughout.
LEMMA Logs == Spec => []LogInv
<1>1. Init => LogInv
  <2>1. Init => Logged BY DEF Init, Logged
  <2> QED BY <2>1, InitOwner, InitKnown DEF LogInv
<1>2. LogInv /\ [Next]_vars => LogInv' BY NextLogged, NextOwner, NextKnown DEF LogInv
<1> QED BY <1>1, <1>2, PTL DEF Spec

-----------------------------------------------------------------------------
(* One migration after the other.                                           *)

\* There is one goroutine at most.
Solo == \A r, q \in Req : req[r].pc # "idle" /\ req[q].pc # "idle" => r = q

\* The registry follows the VM when the goroutine moves its file, and not before.
Placed ==
  /\ \A r \in Req : req[r].pc = "move" =>
       Registered = {req[r].src} /\ Defined = {req[r].dst}
  /\ (\A r \in Req : req[r].pc # "move") => Registered = Defined

\* The record says STARTED from before Migrate3 is called until it has returned.
Noted ==
  \A r \in Req : req[r].pc \in {"migrate", "perform", "cancelled"} =>
    log[req[r].src] = "STARTED"

\* The invariant of orderly behaviours.
Tidy == Orderly => Solo /\ Placed /\ Noted

\* A goroutine at work goes on, or ends, and nothing is moved.
LEMMA WorkStep ==
  ASSUME Solo, Placed, Noted, NEW r \in Req, req[r].pc \notin {"idle", "move"},
         NEW pc, pc # "move", At(r, pc), UNCHANGED <<dom, reg>>,
         pc \in {"migrate", "perform", "cancelled"} => log'[req[r].src] = "STARTED"
  PROVE  (Solo /\ Placed /\ Noted)'
<1>1. \A q \in Req : q # r => req'[q] = req[q] /\ req[q].pc = "idle" BY DEF At, Solo
<1>2. Solo' BY <1>1 DEF Solo
<1>3. Placed' BY <1>1 DEF Placed, At, Registered, Defined
<1>4. Noted' BY <1>1 DEF Noted, At
<1> QED BY <1>2, <1>3, <1>4

\* Every step keeps it.
LEMMA NextTidy == LogInv /\ Tidy /\ [Next]_vars => Tidy'
<1> SUFFICES ASSUME LogInv, Tidy, [Next]_vars PROVE Tidy' OBVIOUS
<1>0. JInv /\ TInv /\ Known /\ OneHost BY DEF LogInv, JInv
<1>1. CASE UNCHANGED vars
  BY <1>1 DEF vars, Tidy, Orderly, Solo, Placed, Noted, Defined, Registered
<1>2. CASE Next
  <2>1. may' = may
    BY <1>2 DEF Next, Boot, Stop, Learn, Abort_migration, vm_register_vmreg, vm_register_libvirt,
       Crash, Start, vm_migrate, RecordStarted, MigrateBegin, MigrateEnd, RecordFailed,
       MoveFile, RecordCompleted
  <2> SUFFICES ASSUME Orderly PROVE (Solo /\ Placed /\ Noted)'
    BY <2>1 DEF Tidy, Orderly
  <2>2. /\ Solo /\ Placed /\ Noted
        /\ "register" \notin may /\ "crash" \notin may /\ "move" \notin may
        /\ "overlap" \notin may
    BY DEF Tidy, Orderly
  <2>3. ASSUME NEW h \in Host,
               \/ Boot(h) \/ Stop(h) \/ Learn(h)
               \/ vm_register_vmreg(h) \/ vm_register_libvirt(h) \/ Crash(h) \/ Start(h)
        PROVE  (Solo /\ Placed /\ Noted)'
    <3>1. UNCHANGED <<req, log, reg>>
      BY <2>2, <2>3 DEF Boot, Stop, Learn, vm_register_vmreg, vm_register_libvirt, Crash, Fault,
                        Start
    <3>2. Defined' = Defined
      BY <1>0, <2>2, <2>3 DEF Boot, Stop, Learn, vm_register_vmreg, vm_register_libvirt, Crash,
                              Fault, Start, Defined, TInv, TypeOK
    <3> QED BY <2>2, <3>1, <3>2 DEF Solo, Placed, Noted, Registered
  <2>4. ASSUME NEW h \in Host, Abort_migration(h) PROVE (Solo /\ Placed /\ Noted)'
    <3>1. PICK r \in Req : Waits(req[r]) /\ At(r, "cancelled") BY <1>0, <2>4, AbortTypes
    <3>2. UNCHANGED <<dom, reg, log>> BY <2>4 DEF Abort_migration
    <3> QED BY <2>2, <3>1, <3>2, WorkStep DEF Noted, Waits
  <2>5. ASSUME NEW r \in Req, NEW h \in Host, NEW g \in Host, NEW live \in BOOLEAN,
               vm_migrate(r, h, g, live)
        PROVE  (Solo /\ Placed /\ Noted)'
    <3>1. \A q \in Req : req[q].pc = "idle" BY <2>2, <2>5 DEF vm_migrate, Quiet
    <3>2. req'[r].pc = "start" /\ \A q \in Req : q # r => req'[q] = req[q]
      BY <1>0, <2>5, MigrateTypes
    <3>3. UNCHANGED <<dom, reg, log>> BY <2>5 DEF vm_migrate
    <3> QED BY <2>2, <3>1, <3>2, <3>3 DEF Solo, Placed, Noted, Registered, Defined
  <2>6. ASSUME NEW r \in Req, RecordStarted(r) PROVE (Solo /\ Placed /\ Noted)'
    <3>1. req[r].pc = "start" /\ UNCHANGED <<dom, reg>> /\ req[r].src \in Host
      BY <1>0, <2>6 DEF RecordStarted, TInv, TaskOK
    <3>2. CASE req[r].src \in Defined
      <4>1. At(r, "migrate") BY <1>0, <2>6, <3>2, RecordTypes
      <4>2. log'[req[r].src] = "STARTED"
        BY <1>0, <2>6, <3>1, <3>2 DEF RecordStarted, oplog_record, TInv, TypeOK
      <4> QED BY <2>2, <3>1, <4>1, <4>2, WorkStep
    <3>3. CASE req[r].src \notin Defined
      <4>1. At(r, "idle") BY <1>0, <2>6, <3>3, RecordTypes
      <4> QED BY <2>2, <3>1, <4>1, WorkStep
    <3> QED BY <3>2, <3>3
  <2>7. ASSUME NEW r \in Req, MigrateBegin(r) PROVE (Solo /\ Placed /\ Noted)'
    <3>1. req[r].pc = "migrate" /\ UNCHANGED <<dom, reg, log>> BY <2>7 DEF MigrateBegin
    <3>2. At(r, "perform") \/ At(r, "fail") BY <1>0, <2>7, BeginTypes
    <3>3. log'[req[r].src] = "STARTED" BY <2>2, <3>1 DEF Noted
    <3> QED BY <2>2, <3>1, <3>2, <3>3, WorkStep
  <2>8. ASSUME NEW r \in Req, MigrateEnd(r) PROVE (Solo /\ Placed /\ Noted)'
    <3>1. /\ req[r].pc \in {"perform", "cancelled"} /\ UNCHANGED reg
          /\ req[r].src \in Host /\ req[r].dst \in Host /\ req[r].src # req[r].dst
      BY <1>0, <2>8 DEF MigrateEnd, TInv, TaskOK
    <3>2. CASE At(r, "fail") /\ UNCHANGED <<dom, log>> BY <2>2, <3>1, <3>2, WorkStep
    <3>3. CASE Arrives(r)
      <4>1. \A q \in Req : q # r => req'[q] = req[q] /\ req[q].pc = "idle"
        BY <2>2, <3>1, <3>3 DEF Arrives, At, Solo
      <4>2. Defined = {req[r].src}
        BY <1>0, <3>1, <3>3 DEF OneHost, Orderly, Reliable, Arrives, Defined
      <4>3. Registered = Defined BY <2>2, <3>1, <4>1 DEF Placed
      <4>4. Defined' = {req[r].dst}
        <5>1. \A h \in Host : dom'[h] = IF h = req[r].dst THEN dom[req[r].src]
                                        ELSE IF h = req[r].src THEN "undefined" ELSE dom[h]
          BY <1>0, <3>1, <3>3 DEF Arrives, TInv, TypeOK
        <5>2. dom[req[r].src] # "undefined" BY <3>3 DEF Arrives
        <5> QED BY <3>1, <4>2, <5>1, <5>2 DEF Defined
      <4>5. Registered' = Registered BY <3>1 DEF Registered
      <4>6. /\ req'[r].pc = "move" /\ req'[r].src = req[r].src /\ req'[r].dst = req[r].dst
        BY <3>3 DEF Arrives, At
      <4>7. Solo' BY <4>1 DEF Solo
      <4>8. Placed' BY <4>1, <4>2, <4>3, <4>4, <4>5, <4>6 DEF Placed
      <4>9. Noted' BY <4>1, <4>6 DEF Noted
      <4> QED BY <4>7, <4>8, <4>9
    <3> QED BY <1>0, <2>8, <3>2, <3>3, EndTypes
  <2>9. ASSUME NEW r \in Req, RecordFailed(r) \/ RecordCompleted(r)
        PROVE  (Solo /\ Placed /\ Noted)'
    <3>1. req[r].pc \in {"fail", "complete"} /\ UNCHANGED <<dom, reg>>
      BY <2>9 DEF RecordFailed, RecordCompleted
    <3>2. At(r, "idle") BY <1>0, <2>9, RecordTypes
    <3> QED BY <2>2, <3>1, <3>2, WorkStep
  <2>10. ASSUME NEW r \in Req, MoveFile(r) PROVE (Solo /\ Placed /\ Noted)'
    <3>1. /\ req[r].pc = "move" /\ UNCHANGED <<dom, log>> /\ Move(req[r].dst, req[r].src)
          /\ req[r].src \in Host /\ req[r].dst \in Host /\ req[r].src # req[r].dst
      BY <1>0, <2>2, <2>10 DEF MoveFile, Fault, TInv, TaskOK
    <3>2. At(r, "complete") BY <1>0, <2>10, MoveTypes
    <3>3. \A q \in Req : q # r => req'[q] = req[q] /\ req[q].pc = "idle"
      BY <2>2, <3>1, <3>2 DEF At, Solo
    <3>4. Registered = {req[r].src} /\ Defined = {req[r].dst} BY <2>2, <3>1 DEF Placed
    <3>5. Registered' = {req[r].dst}
      <4>1. \A h \in Host : reg'[h] = IF h = req[r].dst THEN reg[req[r].src]
                                      ELSE IF h = req[r].src THEN "absent" ELSE reg[h]
        BY <1>0, <3>1, <3>4 DEF Move, TInv, TypeOK
      <4>2. reg[req[r].src] # "absent" BY <3>1, <3>4 DEF Registered
      <4> QED BY <3>1, <3>4, <4>1, <4>2 DEF Registered
    <3>6. Defined' = Defined BY <3>1 DEF Defined
    <3>7. Solo' BY <3>3 DEF Solo
    <3>8. Placed' BY <3>2, <3>3, <3>4, <3>5, <3>6 DEF Placed, At
    <3>9. Noted' BY <3>2, <3>3 DEF Noted, At
    <3> QED BY <3>7, <3>8, <3>9
  <2> QED BY <1>2, <2>3, <2>4, <2>5, <2>6, <2>7, <2>8, <2>9, <2>10 DEF Next
<1> QED BY <1>1, <1>2

\* It holds throughout.
LEMMA Orders == Spec => []Tidy
<1>1. Init => Tidy
  <2> SUFFICES ASSUME Init PROVE Solo /\ Placed /\ Noted BY DEF Tidy
  <2>1. \A r \in Req : req[r].pc = "idle" BY DEF Init, Idle
  <2>2. Defined = Registered BY MigrationAssumption DEF Init, Defined, Registered
  <2> QED BY <2>1, <2>2 DEF Solo, Placed, Noted
<1> QED BY <1>1, NextTidy, Logs, PTL DEF Spec

\* Without faults, and with clients that wait for one migration to end, libvirt and the
\* registry agree on the host of the VM whenever no migration is under way.
THEOREM RegistryAgrees == Spec => []RegistryFollows
<1>1. Tidy => RegistryFollows BY DEF Tidy, RegistryFollows, Quiet, Placed
<1> QED BY <1>1, Orders, PTL

\* The record of the operation is STARTED while libvirt runs the migration, and no
\* migration, aborted, failed or overtaken, leaves it so.
THEOREM RecordIsTrue == Spec => []RecordTellsRunning
<1>1. LogInv /\ Tidy => RecordTellsRunning
  <2> SUFFICES ASSUME LogInv, Tidy PROVE RecordTellsRunning OBVIOUS
  <2>1. ASSUME Orderly, NEW h \in Host, job[h] # None PROVE Get_migration_info(h) = "active"
    <3>1. PICK r \in Req : r = job[h] BY <2>1 DEF LogInv, JInv, TInv, TypeOK
    <3>2. req[r].src = h /\ req[r].pc \in {"perform", "cancelled"}
      BY <2>1, <3>1 DEF LogInv, JInv, MigrationHasOwner
    <3>3. log[h] = "STARTED" BY <2>1, <3>2 DEF Tidy, Noted
    <3> QED BY <2>1, <3>3 DEF Get_migration_info
  <2>2. ASSUME Reliable, Quiet, NEW h \in Host PROVE log[h] # "STARTED"
    BY <2>2 DEF LogInv, Logged, Quiet, Writes
  <2> QED BY <2>1, <2>2 DEF RecordTellsRunning
<1> QED BY <1>1, Logs, Orders, PTL
=============================================================================
