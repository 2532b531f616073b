--------------------------- MODULE Storage_proofs ---------------------------
(***************************************************************************)
(* What Storage promises, proved for any number of VMs, disks, requests    *)
(* and faults.                                                             *)
(*                                                                         *)
(* Three invariants, each resting on the one before:                       *)
(*                                                                         *)
(*   TInv   the types, and which fields of a handler's record are set in   *)
(*          which of its states;                                           *)
(*   LInv   a lease is held only over a resource that has an owner, and a  *)
(*          handler inside lockman.Run holds the lease over its own VM's;  *)
(*   OInv   VM by VM: the managed disks of its definition are its own, its *)
(*          handler (there is one at most) knows which definition it works *)
(*          on, and each of its resources is in the definition, or on the  *)
(*          list of its handler, or known to a client.                     *)
(*                                                                         *)
(* TInv and LInv hold of every behaviour.  OInv needs the three conditions *)
(* of Orderly: when TLC is given an instance that lacks any one of them it *)
(* finds a behaviour in which a defined VM does not own a managed disk.    *)
(***************************************************************************)
EXTENDS Storage, TLAPS

\* The fields of handler h agree with the state it is in.
HandlerOK(h) ==
  /\ h.pc \in {"idle", "create", "undefine"} => h.step = "next"
  /\ h.pc = "idle" => h.vm = None
  /\ h.pc # "idle" => h.vm \in Vm
  /\ h.pc = "provision" => h.step \in {"next", "disk"} /\ h.cur \in Disk
  /\ h.step # "next" => h.cur \in Disk
  /\ h.pc \in {"rollback", "delete"} /\ h.step = "next" => h.cur = None

\* The type invariant and what makes it inductive.
TInv == TypeOK /\ \A r \in Req : HandlerOK(req[r])

\* The initial state has the types.
LEMMA InitTypes == Init => TInv
<1> SUFFICES ASSUME Init PROVE TInv OBVIOUS
<1>1. Idle \in Handler /\ HandlerOK(Idle)
  BY NoneAssumption DEF Idle, Handler, HandlerOK, NoDisks, Vmdef
<1> QED BY <1>1, FaultAssumption DEF Init, TInv, TypeOK

\* The record of handler r is replaced.
LEMMA BecomeTypes ==
  ASSUME TInv, NEW r \in Req, NEW h \in Handler, HandlerOK(h), Become(r, h)
  PROVE  /\ req' \in [Req -> Handler]
         /\ \A q \in Req : HandlerOK(req'[q])
         /\ req'[r] = h
         /\ \A q \in Req : q # r => req'[q] = req[q]
BY DEF TInv, TypeOK, Become

\* The record of a handler that serves nothing.
LEMMA IdleTypes == Idle \in Handler /\ HandlerOK(Idle)
BY NoneAssumption DEF Idle, Handler, HandlerOK, NoDisks, Vmdef

\* RollbackWith writes a well-formed record and warns of a VM.
LEMMA RollbackTypes ==
  ASSUME TInv, NEW r \in Req, NEW c \in SUBSET Disk, req[r].pc # "idle", RollbackWith(r, c)
  PROVE  /\ req' \in [Req -> Handler]
         /\ \A q \in Req : HandlerOK(req'[q])
         /\ warned' \subseteq Vm
<1> DEFINE h == [Idle EXCEPT !.pc = "rollback", !.vm = req[r].vm, !.todo = c]
<1>1. req[r].vm \in Vm BY DEF TInv, HandlerOK
<1>2. h \in Handler /\ HandlerOK(h)
  BY <1>1 DEF Idle, Handler, HandlerOK, NoDisks, Vmdef
<1> HIDE DEF h
<1>3. Become(r, h) BY DEF h, RollbackWith
<1>4. warned' \subseteq Vm BY <1>1 DEF RollbackWith, Warn, TInv, TypeOK
<1> QED BY <1>2, <1>3, <1>4, BecomeTypes

\* One disk of the loop of storage.Create keeps the types.
LEMMA CreateNextTypes ==
  ASSUME TInv, NEW r \in Req, NEW d \in Disk, CreateNext(r, d)
  PROVE  TInv'
<1> DEFINE h == req[r]
           managed == d \in h.new.man
           created == IF managed THEN h.created \cup {d} ELSE h.created
<1>0. /\ h \in Handler /\ h.pc = "create" /\ h.step = "next" /\ h.vm \in Vm
      /\ created \in SUBSET Disk /\ h.created \in SUBSET Disk
  BY DEF TInv, TypeOK, CreateNext, Handler, HandlerOK
<1>1. UNCHANGED <<lease, img, def, reg, running, shown, used, faults>> BY DEF CreateNext
<1>2. res' \in [Disk -> Vm \cup {"none", "empty"}]
  BY <1>0 DEF CreateNext, TInv, TypeOK, lm_init_resource_file
<1>3. /\ req' \in [Req -> Handler]
      /\ \A q \in Req : HandlerOK(req'[q])
      /\ warned' \subseteq Vm
  <2>1. CASE RollbackWith(r, h.created) \/ RollbackWith(r, created)
    BY <1>0, <2>1, RollbackTypes
  <2>2. CASE Become(r, [h EXCEPT !.pc = "provision", !.cur = d,
                                 !.created = created, !.todo = @ \ {d}]) /\ UNCHANGED warned
    <3> DEFINE g == [h EXCEPT !.pc = "provision", !.cur = d, !.created = created, !.todo = @ \ {d}]
    <3>1. g \in Handler /\ HandlerOK(g) BY <1>0 DEF Handler, HandlerOK
    <3> HIDE DEF g
    <3>2. Become(r, g) BY <2>2 DEF g
    <3> QED BY <2>2, <3>1, <3>2, BecomeTypes DEF TInv, TypeOK
  <2>3. CASE Become(r, [h EXCEPT !.created = created, !.todo = @ \ {d}]) /\ UNCHANGED warned
    <3> DEFINE g == [h EXCEPT !.created = created, !.todo = @ \ {d}]
    <3>1. g \in Handler /\ HandlerOK(g) BY <1>0 DEF Handler, HandlerOK
    <3> HIDE DEF g
    <3>2. Become(r, g) BY <2>3 DEF g
    <3> QED BY <2>3, <3>1, <3>2, BecomeTypes DEF TInv, TypeOK
  <2> QED BY <2>1, <2>2, <2>3 DEF CreateNext
<1> QED BY <1>1, <1>2, <1>3 DEF TInv, TypeOK

\* Idle takes the place of a record.
LEMMA BecomeIdle ==
  ASSUME TInv, NEW r \in Req, Become(r, Idle)
  PROVE  /\ req' \in [Req -> Handler]
         /\ \A q \in Req : HandlerOK(req'[q])
         /\ req'[r] = Idle
         /\ \A q \in Req : q # r => req'[q] = req[q]
BY IdleTypes, BecomeTypes

\* The count of faults stays within its bound.
LEMMA FaultTypes == ASSUME TInv, NEW kind, Fault(kind) PROVE faults' \in 0..MaxFaults
BY FaultAssumption DEF Fault, TInv, TypeOK

\* Only VMs are warned of: a handler that is not idle serves one.
LEMMA WarnTypes ==
  ASSUME TInv, NEW r \in Req, req[r].pc # "idle", Warn(r) PROVE warned' \subseteq Vm
BY DEF Warn, TInv, TypeOK, HandlerOK

\* vm_create keeps the types.
LEMMA CreateTypes ==
  ASSUME TInv, NEW r \in Req, NEW u \in Vm, NEW v \in Definitions, NEW prov \in BOOLEAN,
         vm_create(r, u, v, prov)
  PROVE  TInv'
<1> DEFINE g == [Idle EXCEPT !.pc = "create", !.vm = u, !.new = v, !.prov = prov,
                             !.todo = Disks(v)]
<1>1. g \in Handler /\ HandlerOK(g)
  BY DefinitionsAssumption DEF Idle, Handler, HandlerOK, NoDisks, Vmdef, Disks
<1> HIDE DEF g
<1>2. Become(r, g) BY DEF vm_create, g
<1> QED BY <1>1, <1>2, BecomeTypes DEF vm_create, TInv, TypeOK

\* vm_update keeps the types.
LEMMA UpdateTypes ==
  ASSUME TInv, NEW r \in Req, NEW u \in Vm, NEW v \in Definitions, NEW prov \in BOOLEAN,
         NEW del \in BOOLEAN, vm_update(r, u, v, prov, del)
  PROVE  TInv'
<1> DEFINE g == [Idle EXCEPT !.pc = "create", !.vm = u, !.new = v, !.old = reg[u],
                             !.prov = prov, !.del = del,
                             !.todo = Disks(v) \ Disks(reg[u])]
<1>0. reg[u] \in Vmdef BY DEF vm_update, TInv, TypeOK
<1>1. g \in Handler /\ HandlerOK(g)
  BY <1>0, DefinitionsAssumption DEF Idle, Handler, HandlerOK, NoDisks, Vmdef, Disks
<1> HIDE DEF g
<1>2. Become(r, g) BY DEF vm_update, g
<1> QED BY <1>1, <1>2, BecomeTypes DEF vm_update, TInv, TypeOK

\* vm_delete keeps the types.
LEMMA DeleteTypes ==
  ASSUME TInv, NEW r \in Req, NEW u \in Vm, NEW del \in BOOLEAN, vm_delete(r, u, del)
  PROVE  TInv'
<1> DEFINE g == [Idle EXCEPT !.pc = "undefine", !.vm = u, !.old = def[u], !.del = del]
<1>0. def[u] \in Vmdef BY DEF vm_delete, TInv, TypeOK
<1>1. g \in Handler /\ HandlerOK(g)
  BY <1>0 DEF Idle, Handler, HandlerOK, NoDisks, Vmdef
<1> HIDE DEF g
<1>2. Become(r, g) BY DEF vm_delete, g
<1> QED BY <1>1, <1>2, BecomeTypes DEF vm_delete, TInv, TypeOK

\* So do both ends of the provisioning of a disk.
LEMMA ProvisionTypes ==
  ASSUME TInv, NEW r \in Req, ProvisionStart(r) \/ ProvisionEnd(r)
  PROVE  TInv'
<1> DEFINE h == req[r]
<1>0. /\ h \in Handler /\ h.pc = "provision" /\ h.vm \in Vm /\ h.cur \in Disk
      /\ h.created \in SUBSET Disk
  BY DEF TInv, TypeOK, ProvisionStart, ProvisionEnd, Handler, HandlerOK
<1>1. ASSUME RollbackWith(r, h.created)
      PROVE  /\ req' \in [Req -> Handler]
             /\ \A q \in Req : HandlerOK(req'[q])
             /\ warned' \subseteq Vm
  BY <1>0, <1>1, RollbackTypes
<1>2. CASE ProvisionStart(r)
  <2> DEFINE g == [h EXCEPT !.step = "disk"]
  <2>1. g \in Handler /\ HandlerOK(g) BY <1>0 DEF Handler, HandlerOK
  <2> HIDE DEF g
  <2>2. lease' \in [Disk -> Vm \cup Req \cup {None}]
    BY <1>0, <1>2 DEF ProvisionStart, TInv, TypeOK
  <2>3. (Become(r, g) /\ UNCHANGED warned) \/ RollbackWith(r, h.created)
    BY <1>2 DEF ProvisionStart, g
  <2>4. /\ req' \in [Req -> Handler]
        /\ \A q \in Req : HandlerOK(req'[q])
        /\ warned' \subseteq Vm
    BY <1>1, <2>1, <2>3, BecomeTypes DEF TInv, TypeOK
  <2>5. UNCHANGED <<res, img, def, reg, running, shown, used, faults>>
    BY <1>2 DEF ProvisionStart
  <2> QED BY <2>2, <2>4, <2>5 DEF TInv, TypeOK
<1>3. CASE ProvisionEnd(r)
  <2> DEFINE g == [h EXCEPT !.pc = "create", !.step = "next", !.cur = None]
  <2>1. g \in Handler /\ HandlerOK(g) BY <1>0 DEF Handler, HandlerOK
  <2> HIDE DEF g
  <2>2. lease' \in [Disk -> Vm \cup Req \cup {None}] /\ img' \in [Disk -> BOOLEAN]
    BY <1>3 DEF ProvisionEnd, TInv, TypeOK
  <2>3. \/ Become(r, g) /\ UNCHANGED <<warned, faults>>
        \/ RollbackWith(r, h.created) /\ Fault("command")
    BY <1>3 DEF ProvisionEnd, g
  <2>4. /\ req' \in [Req -> Handler]
        /\ \A q \in Req : HandlerOK(req'[q])
        /\ warned' \subseteq Vm
        /\ faults' \in 0..MaxFaults
    BY <1>1, <2>1, <2>3, BecomeTypes, FaultTypes DEF TInv, TypeOK
  <2>5. UNCHANGED <<res, def, reg, running, shown, used>> BY <1>3 DEF ProvisionEnd
  <2> QED BY <2>2, <2>4, <2>5 DEF TInv, TypeOK
<1> QED BY <1>2, <1>3

\* storage.Delete starts from a well-formed record.
LEMMA DeletingTypes ==
  ASSUME NEW h \in Handler, h.vm \in Vm, NEW todo \in SUBSET Disk
  PROVE  Deleting(h, todo) \in Handler /\ HandlerOK(Deleting(h, todo))
<1>1. CASE todo = {} BY <1>1, IdleTypes DEF Deleting
<1>2. CASE todo # {}
  BY <1>2, NoneAssumption DEF Deleting, Idle, Handler, HandlerOK, NoDisks, Vmdef
<1> QED BY <1>1, <1>2

\* Define_domain and Delete_domain keep the types.
LEMMA DomainTypes ==
  ASSUME TInv, NEW r \in Req, Define_domain(r) \/ Delete_domain(r)
  PROVE  TInv'
<1> DEFINE h == req[r]
<1>0. /\ h \in Handler /\ h.pc \in {"create", "undefine"} /\ h.vm \in Vm
      /\ h.created \in SUBSET Disk /\ h.new \in Vmdef
      /\ h.old.man \in SUBSET Disk
  BY DEF TInv, TypeOK, Define_domain, Delete_domain, Handler, HandlerOK, Vmdef
<1>1. CASE Define_domain(r)
  <2> DEFINE g == Deleting(h, h.old.man \ Disks(h.new))
  <2>1. g \in Handler /\ HandlerOK(g)
    <3>1. h.old.man \ Disks(h.new) \in SUBSET Disk BY <1>0
    <3> QED BY <1>0, <3>1, DeletingTypes
  <2> HIDE DEF g
  <2>2. def' \in [Vm -> Vmdef \cup {None}]
    BY <1>0, <1>1 DEF Define_domain, TInv, TypeOK
  <2>3. \/ Become(r, g) /\ UNCHANGED warned /\ Register(h.vm, h.new)
        \/ /\ RollbackWith(r, h.created) /\ (Fault("define") \/ Fault("describe"))
           /\ UNCHANGED reg
    BY <1>1 DEF Define_domain, g
  <2>4. faults' \in 0..MaxFaults /\ reg' \in [Vm -> Vmdef \cup {None}]
    BY <1>0, <2>3, FaultTypes DEF Register, TInv, TypeOK
  <2>5. /\ req' \in [Req -> Handler]
        /\ \A q \in Req : HandlerOK(req'[q])
        /\ warned' \subseteq Vm
    BY <1>0, <2>1, <2>3, BecomeTypes, RollbackTypes DEF TInv, TypeOK
  <2>6. UNCHANGED <<res, lease, img, running, shown, used>> BY <1>1 DEF Define_domain
  <2> QED BY <2>2, <2>4, <2>5, <2>6 DEF TInv, TypeOK
<1>2. CASE Delete_domain(r)
  <2> DEFINE g == Deleting(h, h.old.man)
  <2>1. g \in Handler /\ HandlerOK(g) BY <1>0, DeletingTypes
  <2> HIDE DEF g
  <2>2. def' \in [Vm -> Vmdef \cup {None}]
    BY <1>0, <1>2 DEF Delete_domain, TInv, TypeOK
  <2>3. \/ Become(r, g) /\ UNCHANGED warned /\ Register(h.vm, None)
        \/ Become(r, Idle) /\ Warn(r) /\ UNCHANGED <<def, reg, faults>>
    BY <1>2 DEF Delete_domain, g
  <2>4. faults' \in 0..MaxFaults /\ reg' \in [Vm -> Vmdef \cup {None}]
    BY <1>0, <2>3, FaultTypes DEF Register, TInv, TypeOK
  <2>5. /\ req' \in [Req -> Handler]
        /\ \A q \in Req : HandlerOK(req'[q])
        /\ warned' \subseteq Vm
    BY <1>0, <2>1, <2>3, BecomeTypes, BecomeIdle, WarnTypes DEF TInv, TypeOK
  <2>6. UNCHANGED <<res, lease, img, running, shown, used>> BY <1>2 DEF Delete_domain
  <2> QED BY <2>2, <2>4, <2>5, <2>6 DEF TInv, TypeOK
<1> QED BY <1>1, <1>2

\* A removing handler goes on with a well-formed record.
LEMMA NextDiskTypes ==
  ASSUME NEW h \in Handler, h.pc \in {"rollback", "delete"}, h.vm \in Vm
  PROVE  NextDisk(h) \in Handler /\ HandlerOK(NextDisk(h))
<1>1. CASE h.todo = {} BY <1>1, IdleTypes DEF NextDisk
<1>2. CASE h.todo # {} BY <1>2 DEF NextDisk, Handler, HandlerOK
<1> QED BY <1>1, <1>2

\* The steps of Delete and Rollback keep the types.
LEMMA RemoveTypes ==
  ASSUME TInv, NEW r \in Req,
         \/ \E d \in Disk : RemoveStart(r, d)
         \/ RemoveDisk(r) \/ RemoveResource(r) \/ RemoveDirectory(r) \/ RollbackNothing(r)
  PROVE  TInv'
<1>0. /\ req[r] \in Handler /\ req[r].pc \in {"rollback", "delete"} /\ req[r].vm \in Vm
      /\ req[r].step # "next" => req[r].cur \in Disk
  BY DEF TInv, TypeOK, HandlerOK, RemoveStart, RemoveDisk, RemoveResource, RemoveDirectory,
         RollbackNothing
<1>1. ASSUME NEW d \in Disk, RemoveStart(r, d) PROVE TInv'
  <2> DEFINE h == [req[r] EXCEPT !.todo = @ \ {d}]
             g == [h EXCEPT !.step = IF RemovesDisk(h) THEN "disk" ELSE "rm", !.cur = d]
  <2>1. h \in Handler /\ h.pc = req[r].pc /\ h.vm = req[r].vm BY <1>0 DEF Handler
  <2>2. g \in Handler /\ HandlerOK(g) BY <1>0, <2>1 DEF Handler, HandlerOK
  <2>3. NextDisk(h) \in Handler /\ HandlerOK(NextDisk(h)) BY <1>0, <2>1, NextDiskTypes
  <2>4. lease' \in [Disk -> Vm \cup Req \cup {None}]
    BY <1>1 DEF RemoveStart, TInv, TypeOK
  <2>5. \/ Become(r, g) /\ UNCHANGED warned
        \/ Become(r, NextDisk(h)) /\ Warn(r)
    BY <1>1 DEF RemoveStart
  <2> HIDE DEF g, h
  <2>6. /\ req' \in [Req -> Handler]
        /\ \A q \in Req : HandlerOK(req'[q])
        /\ warned' \subseteq Vm
    BY <1>0, <2>2, <2>3, <2>5, BecomeTypes, WarnTypes DEF TInv, TypeOK
  <2>7. UNCHANGED <<res, img, def, reg, running, shown, used, faults>> BY <1>1 DEF RemoveStart
  <2> QED BY <2>4, <2>6, <2>7 DEF TInv, TypeOK
<1>2. ASSUME RemoveFails(r), req[r].step # "next", faults' \in 0..MaxFaults,
             UNCHANGED <<def, reg, running, shown, used>>
      PROVE  TInv'
  <2>1. NextDisk(req[r]) \in Handler /\ HandlerOK(NextDisk(req[r])) BY <1>0, NextDiskTypes
  <2>2. /\ req' \in [Req -> Handler]
        /\ \A q \in Req : HandlerOK(req'[q])
        /\ warned' \subseteq Vm
    BY <1>0, <1>2, <2>1, BecomeTypes, WarnTypes DEF RemoveFails, TInv, TypeOK
  <2>3. lease' \in [Disk -> Vm \cup Req \cup {None}]
    BY <1>0, <1>2 DEF RemoveFails, TInv, TypeOK
  <2> QED BY <1>2, <2>2, <2>3 DEF RemoveFails, TInv, TypeOK
<1>3. CASE RemoveDisk(r)
  <2> DEFINE g == [req[r] EXCEPT !.step = "rm"]
  <2>1. g \in Handler /\ HandlerOK(g) BY <1>0, <1>3 DEF Handler, HandlerOK, RemoveDisk
  <2> HIDE DEF g
  <2>2. CASE Become(r, g) /\ img' = [img EXCEPT ![req[r].cur] = (Device[req[r].cur] = "LUN")]
             /\ UNCHANGED <<res, lease, warned, faults>>
    BY <1>3, <2>1, <2>2, BecomeTypes DEF RemoveDisk, TInv, TypeOK
  <2>3. CASE RemoveFails(r) /\ (UNCHANGED faults \/ Fault("command"))
    BY <1>2, <1>3, <2>3, FaultTypes DEF RemoveDisk, TInv, TypeOK
  <2> QED BY <1>3, <2>2, <2>3 DEF RemoveDisk, g
<1>4. CASE RemoveResource(r)
  <2> DEFINE g == [req[r] EXCEPT !.step = "rmdir"]
  <2>1. g \in Handler /\ HandlerOK(g) BY <1>0, <1>4 DEF Handler, HandlerOK, RemoveResource
  <2> HIDE DEF g
  <2>2. CASE /\ Become(r, g) /\ res' = [res EXCEPT ![req[r].cur] = "empty"]
             /\ lease' = [lease EXCEPT ![req[r].cur] = None]
             /\ UNCHANGED <<img, warned, faults>>
    BY <1>4, <2>1, <2>2, BecomeTypes DEF RemoveResource, TInv, TypeOK
  <2>3. CASE RemoveFails(r) /\ Fault("command")
    BY <1>2, <1>4, <2>3, FaultTypes DEF RemoveResource, TInv, TypeOK
  <2> QED BY <1>4, <2>2, <2>3 DEF RemoveResource, g
<1>5. CASE RemoveDirectory(r)
  <2>1. NextDisk(req[r]) \in Handler /\ HandlerOK(NextDisk(req[r])) BY <1>0, NextDiskTypes
  <2>2. CASE Become(r, NextDisk(req[r])) /\ res' = [res EXCEPT ![req[r].cur] = "none"]
             /\ UNCHANGED <<lease, img, warned>>
    BY <1>5, <2>1, <2>2, BecomeTypes DEF RemoveDirectory, TInv, TypeOK
  <2>3. CASE RemoveFails(r)
    BY <1>2, <1>5, <2>3 DEF RemoveDirectory, TInv, TypeOK
  <2> QED BY <1>5, <2>2, <2>3 DEF RemoveDirectory
<1>6. CASE RollbackNothing(r)
  BY <1>6, BecomeIdle DEF RollbackNothing, TInv, TypeOK
<1> QED BY <1>1, <1>3, <1>4, <1>5, <1>6

\* Domains and the inventory keep the types.
LEMMA WorldTypes ==
  ASSUME TInv, NEW u \in Vm, Boot(u) \/ Stop(u) \/ Refresh(u)
  PROVE  TInv'
<1>1. CASE Boot(u) BY <1>1 DEF Boot, TInv, TypeOK
<1>2. CASE Stop(u) BY <1>2 DEF Stop, TInv, TypeOK
<1>3. CASE Refresh(u) BY <1>3 DEF Refresh, Truth, TInv, TypeOK
<1> QED BY <1>1, <1>2, <1>3

\* A crash keeps the types.
LEMMA CrashTypes == ASSUME TInv, NEW r \in Req, Crash(r) PROVE TInv'
<1>1. lease' \in [Disk -> Vm \cup Req \cup {None}] BY DEF Crash, TInv, TypeOK
<1> QED BY <1>1, BecomeIdle, WarnTypes, FaultTypes DEF Crash, TInv, TypeOK

\* Every step keeps the types.
LEMMA NextTypes == TInv /\ [Next]_vars => TInv'
<1> SUFFICES ASSUME TInv, [Next]_vars PROVE TInv' OBVIOUS
<1>1. CASE UNCHANGED vars BY <1>1 DEF vars, TInv, TypeOK
<1>2. ASSUME NEW u \in Vm, Boot(u) \/ Stop(u) \/ Refresh(u) PROVE TInv'
  BY <1>2, WorldTypes
<1>3. ASSUME NEW r \in Req, NEW u \in Vm, NEW v \in Definitions, NEW prov \in BOOLEAN,
             vm_create(r, u, v, prov) \/ \E del \in BOOLEAN : vm_update(r, u, v, prov, del)
      PROVE  TInv'
  BY <1>3, CreateTypes, UpdateTypes
<1>4. ASSUME NEW r \in Req, NEW u \in Vm, NEW del \in BOOLEAN, vm_delete(r, u, del)
      PROVE  TInv'
  BY <1>4, DeleteTypes
<1>5. ASSUME NEW r \in Req, NEW d \in Disk, CreateNext(r, d) \/ RemoveStart(r, d)
      PROVE  TInv'
  BY <1>5, CreateNextTypes, RemoveTypes
<1>6. ASSUME NEW r \in Req,
             \/ ProvisionStart(r) \/ ProvisionEnd(r)
             \/ Define_domain(r) \/ Delete_domain(r)
             \/ RemoveDisk(r) \/ RemoveResource(r) \/ RemoveDirectory(r)
             \/ RollbackNothing(r) \/ Crash(r)
      PROVE  TInv'
  BY <1>6, ProvisionTypes, DomainTypes, RemoveTypes, CrashTypes
<1> QED BY <1>1, <1>2, <1>3, <1>4, <1>5, <1>6 DEF Next

\* Every variable keeps the values its declaration says, for any number of VMs, disks
\* and requests, whichever faults happen.
THEOREM StorageTypeCorrect == Spec => []TypeOK
<1>1. Spec => []TInv BY InitTypes, NextTypes, PTL DEF Spec
<1>2. TInv => TypeOK BY DEF TInv
<1> QED BY <1>1, <1>2, PTL
-----------------------------------------------------------------------------
(* Leases.                                                                  *)

\* The lease a domain holds is the lease of a resource file some VM owns.
LeasedOwned == \A d \in Disk : lease[d] \in Vm => res[d] \in Vm

\* The lease invariant.
LInv == TInv /\ LeasedOwned /\ RunHoldsResource

\* What a step of handler r may do to the disks, their resources and their leases.
HandlerStep(r) ==
  /\ \A q \in Req : q # r => req'[q] = req[q]
  /\ \A d \in Disk : lease'[d] # lease[d] =>
       lease[d] \in {r, None} /\ lease'[d] \in {r, None}
  /\ \A d \in Disk : img'[d] # img[d] \/ (res'[d] # res[d] /\ res[d] \in Vm) =>
       req[r].cur = d /\ req[r].step \in {"disk", "rm"}
  /\ req'[r].step \in {"disk", "rm"} =>
       lease'[req'[r].cur] = r /\ res'[req'[r].cur] = req'[r].vm

\* What other requests and the domains hold stands whatever r does.
LEMMA HandlerStepKeeps ==
  ASSUME LInv, TInv', NEW r \in Req, HandlerStep(r)
  PROVE  LInv'
<1>1. LeasedOwned'
  <2> SUFFICES ASSUME NEW d \in Disk, lease'[d] \in Vm PROVE res'[d] \in Vm
    BY DEF LeasedOwned
  <2>1. lease[d] = lease'[d] BY DisjointAssumption, NoneAssumption DEF HandlerStep
  <2>2. res[d] \in Vm BY <2>1 DEF LInv, LeasedOwned
  <2>3. res'[d] = res[d]
    BY <2>1, <2>2, DisjointAssumption DEF LInv, RunHoldsResource, HandlerStep
  <2> QED BY <2>2, <2>3
<1>2. RunHoldsResource'
  <2> SUFFICES ASSUME NEW q \in Req, req'[q].step \in {"disk", "rm"}
               PROVE  lease'[req'[q].cur] = q /\ res'[req'[q].cur] = req'[q].vm
    BY DEF RunHoldsResource
  <2>1. CASE q = r BY <2>1 DEF HandlerStep
  <2>2. CASE q # r
    <3> DEFINE d == req[q].cur
    <3>1. req'[q] = req[q] BY <2>2 DEF HandlerStep
    <3>2. d \in Disk /\ req[q].vm \in Vm
      BY <3>1 DEF LInv, TInv, HandlerOK, TypeOK, Handler
    <3>3. lease[d] = q /\ res[d] = req[q].vm
      BY <3>1 DEF LInv, RunHoldsResource
    <3>4. lease'[d] = q BY <2>2, <3>2, <3>3, NoneAssumption DEF HandlerStep
    <3>5. res'[d] = res[d]
      BY <2>2, <3>2, <3>3 DEF HandlerStep, LInv, RunHoldsResource
    <3> QED BY <3>1, <3>3, <3>4, <3>5
  <2> QED BY <2>1, <2>2
<1> QED BY <1>1, <1>2 DEF LInv

\* The record of r is the new one, those of the other handlers are the old ones.
LEMMA BecomeIs ==
  ASSUME TInv, NEW r \in Req, NEW h, Become(r, h)
  PROVE  req'[r] = h /\ \A q \in Req : q # r => req'[q] = req[q]
BY DEF TInv, TypeOK, Become

\* A handler starts.
LEMMA StartStep ==
  ASSUME TInv, NEW r \in Req, NEW h, Become(r, h), h.step = "next", UNCHANGED <<res, lease, img>>
  PROVE  HandlerStep(r)
BY BecomeIs DEF HandlerStep

\* An idle handler is not inside a chain of commands.
LEMMA IdleNext == Idle.step = "next"
BY DEF Idle

\* A rollback starts outside a chain of commands.
LEMMA RollbackNext ==
  ASSUME TInv, NEW r \in Req, NEW c, RollbackWith(r, c)
  PROVE  req'[r].step = "next" /\ \A q \in Req : q # r => req'[q] = req[q]
<1> DEFINE h == [Idle EXCEPT !.pc = "rollback", !.vm = req[r].vm, !.todo = c]
<1>1. h.step = "next" BY DEF Idle
<1> HIDE DEF h
<1> QED BY <1>1, BecomeIs DEF RollbackWith, h

\* Create_resource only takes the place of a directory that no VM owns.
LEMMA CreateNextStep ==
  ASSUME LInv, NEW r \in Req, NEW d \in Disk, CreateNext(r, d)
  PROVE  HandlerStep(r)
<1>0. TInv /\ req[r] \in Handler /\ req[r].step = "next"
  BY DEF LInv, TInv, TypeOK, HandlerOK, CreateNext
<1>1. req'[r].step = "next" /\ \A q \in Req : q # r => req'[q] = req[q]
  <2> DEFINE g(created, pc, cur) ==
        [req[r] EXCEPT !.pc = pc, !.cur = cur, !.created = created, !.todo = @ \ {d}]
      k(created) == [req[r] EXCEPT !.created = created, !.todo = @ \ {d}]
  <2>1. \A c, p, e : g(c, p, e).step = "next" BY <1>0 DEF Handler
  <2>2. \A c : k(c).step = "next" BY <1>0 DEF Handler
  <2>3. \/ \E c : RollbackWith(r, c)
        \/ \E c : Become(r, g(c, "provision", d))
        \/ \E c : Become(r, k(c))
    BY DEF CreateNext
  <2> HIDE DEF g, k
  <2> QED BY <1>0, <2>1, <2>2, <2>3, BecomeIs, RollbackNext
<1>2. UNCHANGED <<lease, img>> BY DEF CreateNext
<1>3. \A e \in Disk : res'[e] # res[e] => res[e] \notin Vm
  BY <1>0, UuidAssumption DEF CreateNext, lm_init_resource_file, Creatable, TInv, TypeOK
<1> QED BY <1>1, <1>2, <1>3 DEF HandlerStep

\* lockman.Run takes a free lease, of a resource that is the VM's.
LEMMA ProvisionStartStep ==
  ASSUME LInv, NEW r \in Req, ProvisionStart(r)
  PROVE  HandlerStep(r)
<1> DEFINE h == req[r]
           g == [h EXCEPT !.step = "disk"]
<1>0. TInv /\ h \in Handler /\ h.cur \in Disk
  BY DEF LInv, TInv, TypeOK, HandlerOK, ProvisionStart
<1>1. UNCHANGED <<res, img>> BY DEF ProvisionStart
<1>2. CASE Runnable(h.cur, h.vm) /\ lease' = [lease EXCEPT ![h.cur] = r] /\ Become(r, g)
  <2>1. g.cur = h.cur /\ g.vm = h.vm BY <1>0 DEF Handler
  <2> HIDE DEF g
  <2>2. req'[r] = g /\ \A q \in Req : q # r => req'[q] = req[q] BY <1>0, <1>2, BecomeIs
  <2>3. lease'[h.cur] = r /\ lease[h.cur] = None /\ res[h.cur] = h.vm
    BY <1>0, <1>2 DEF Runnable, check_lvb, TInv, TypeOK
  <2>4. \A d \in Disk : d # h.cur => lease'[d] = lease[d]
    BY <1>0, <1>2 DEF TInv, TypeOK
  <2> QED BY <1>0, <1>1, <2>1, <2>2, <2>3, <2>4 DEF HandlerStep
<1>3. CASE RollbackWith(r, h.created) /\ UNCHANGED lease
  BY <1>0, <1>1, <1>3, RollbackNext DEF HandlerStep
<1> QED BY <1>2, <1>3 DEF ProvisionStart

\* It gives the lease back and has touched the one disk.
LEMMA ProvisionEndStep ==
  ASSUME LInv, NEW r \in Req, ProvisionEnd(r)
  PROVE  HandlerStep(r)
<1> DEFINE h == req[r]
           g == [h EXCEPT !.pc = "create", !.step = "next", !.cur = None]
<1>0. TInv /\ h \in Handler /\ h.cur \in Disk /\ h.step = "disk" /\ lease[h.cur] = r
  BY DEF LInv, TInv, TypeOK, HandlerOK, ProvisionEnd, RunHoldsResource
<1>1. UNCHANGED res BY DEF ProvisionEnd
<1>2. g.step = "next" BY <1>0 DEF Handler
<1>3. \A d \in Disk : lease'[d] = IF d = h.cur THEN None ELSE lease[d]
  BY DEF ProvisionEnd, LInv, TInv, TypeOK
<1>4. \A d \in Disk : img'[d] # img[d] => d = h.cur
  BY DEF ProvisionEnd, LInv, TInv, TypeOK
<1>5. Become(r, g) \/ RollbackWith(r, h.created) BY DEF ProvisionEnd
<1> HIDE DEF g
<1>6. req'[r].step = "next" /\ \A q \in Req : q # r => req'[q] = req[q]
  BY <1>0, <1>2, <1>5, BecomeIs, RollbackNext
<1> QED BY <1>0, <1>1, <1>3, <1>4, <1>6 DEF HandlerStep

\* The next disk begins outside a chain of commands.
LEMMA NextDiskNext ==
  ASSUME NEW h \in Handler PROVE NextDisk(h).step = "next"
BY DEF NextDisk, Idle, Handler

\* So does storage.Delete.
LEMMA DeletingNext == \A h, todo : Deleting(h, todo).step = "next"
BY DEF Deleting, Idle

\* Define_domain and Delete_domain touch no disk and no lease.
LEMMA DomainStep ==
  ASSUME LInv, NEW r \in Req, Define_domain(r) \/ Delete_domain(r)
  PROVE  HandlerStep(r)
<1>0. TInv BY DEF LInv
<1>1. UNCHANGED <<res, lease, img>> BY DEF Define_domain, Delete_domain
<1>2. \/ \E h, todo : Become(r, Deleting(h, todo))
      \/ \E c : RollbackWith(r, c)
      \/ Become(r, Idle)
  BY DEF Define_domain, Delete_domain
<1> QED BY <1>0, <1>1, <1>2, DeletingNext, IdleNext, RollbackNext, StartStep DEF HandlerStep

\* A removal takes a free lease, of a resource that is the VM's.
LEMMA RemoveStartStep ==
  ASSUME LInv, NEW r \in Req, NEW d \in Disk, RemoveStart(r, d)
  PROVE  HandlerStep(r)
<1> DEFINE h == [req[r] EXCEPT !.todo = @ \ {d}]
           g == [h EXCEPT !.step = IF RemovesDisk(h) THEN "disk" ELSE "rm", !.cur = d]
<1>0. TInv /\ h \in Handler /\ h.vm = req[r].vm /\ g.cur = d /\ g.vm = h.vm
  <2>1. TInv /\ req[r] \in Handler BY DEF LInv, TInv, TypeOK
  <2>2. h \in Handler /\ h.vm = req[r].vm BY <2>1 DEF Handler
  <2> HIDE DEF h
  <2>3. g.cur = d /\ g.vm = h.vm BY <2>2 DEF Handler
  <2> QED BY <2>1, <2>2, <2>3
<1>1. UNCHANGED <<res, img>> BY DEF RemoveStart
<1>2. CASE Runnable(d, h.vm) /\ lease' = [lease EXCEPT ![d] = r] /\ Become(r, g)
  <2> HIDE DEF g, h
  <2>1. req'[r] = g /\ \A q \in Req : q # r => req'[q] = req[q] BY <1>0, <1>2, BecomeIs
  <2>2. lease'[d] = r /\ lease[d] = None /\ res[d] = h.vm
    BY <1>2 DEF Runnable, check_lvb, LInv, TInv, TypeOK
  <2>3. \A e \in Disk : e # d => lease'[e] = lease[e]
    BY <1>2 DEF LInv, TInv, TypeOK
  <2> QED BY <1>0, <1>1, <2>1, <2>2, <2>3 DEF HandlerStep
<1>3. CASE Become(r, NextDisk(h)) /\ UNCHANGED lease
  <2> HIDE DEF g, h
  <2> QED BY <1>0, <1>1, <1>3, NextDiskNext, StartStep
<1> QED BY <1>2, <1>3 DEF RemoveStart

\* A chain that fails gives back its own lease and no other.
LEMMA RemoveFailsStep ==
  ASSUME LInv, NEW r \in Req, RemoveFails(r), req[r].step # "next"
  PROVE  HandlerStep(r)
<1>0. TInv /\ req[r] \in Handler /\ req[r].cur \in Disk
  BY DEF LInv, TInv, TypeOK, HandlerOK
<1>1. req'[r].step = "next" /\ \A q \in Req : q # r => req'[q] = req[q]
  BY <1>0, NextDiskNext, BecomeIs DEF RemoveFails
<1>2. \A d \in Disk : lease'[d] # lease[d] => lease[d] = r /\ lease'[d] = None
  BY <1>0 DEF RemoveFails, TInv, TypeOK
<1> QED BY <1>1, <1>2 DEF RemoveFails, HandlerStep

\* rm and rmdir: only under the lease, or of a directory no VM owns.
LEMMA RemoveStep ==
  ASSUME LInv, NEW r \in Req,
         RemoveDisk(r) \/ RemoveResource(r) \/ RemoveDirectory(r) \/ RollbackNothing(r)
  PROVE  HandlerStep(r)
<1> DEFINE h == req[r]
<1>0. TInv /\ h \in Handler BY DEF LInv, TInv, TypeOK
<1>1. CASE RemoveFails(r)
  BY <1>1, RemoveFailsStep, <1>0, StartStep, IdleNext
  DEF RemoveDisk, RemoveResource, RemoveDirectory, RollbackNothing
<1>2. CASE RemoveDisk(r) /\ ~RemoveFails(r)
  <2> DEFINE g == [h EXCEPT !.step = "rm"]
  <2>1. g.cur = h.cur /\ g.vm = h.vm BY <1>0 DEF Handler
  <2>2. Become(r, g) BY <1>2 DEF RemoveDisk
  <2> HIDE DEF g
  <2>3. req'[r] = g /\ \A q \in Req : q # r => req'[q] = req[q] BY <1>0, <2>2, BecomeIs
  <2>4. /\ h.step = "disk" /\ UNCHANGED <<res, lease>>
        /\ \A d \in Disk : img'[d] # img[d] => d = h.cur
    BY <1>0, <1>2 DEF RemoveDisk, TInv, TypeOK
  <2>5. lease[h.cur] = r /\ res[h.cur] = h.vm BY <2>4 DEF LInv, RunHoldsResource
  <2> QED BY <2>1, <2>3, <2>4, <2>5 DEF HandlerStep
<1>3. CASE RemoveResource(r) /\ ~RemoveFails(r)
  <2> DEFINE g == [h EXCEPT !.step = "rmdir"]
  <2>1. g.step = "rmdir" BY <1>0 DEF Handler
  <2>2. Become(r, g) BY <1>3 DEF RemoveResource
  <2> HIDE DEF g
  <2>3. req'[r] = g /\ \A q \in Req : q # r => req'[q] = req[q] BY <1>0, <2>2, BecomeIs
  <2>4. /\ h.step = "rm" /\ UNCHANGED img
        /\ \A d \in Disk : res'[d] # res[d] => d = h.cur
        /\ \A d \in Disk : lease'[d] # lease[d] => d = h.cur /\ lease'[d] = None
    BY <1>0, <1>3 DEF RemoveResource, TInv, TypeOK
  <2>5. lease[h.cur] = r BY <2>4 DEF LInv, RunHoldsResource
  <2> QED BY <2>1, <2>3, <2>4, <2>5 DEF HandlerStep
<1>4. CASE RemoveDirectory(r) /\ ~RemoveFails(r)
  <2>1. req'[r].step = "next" /\ \A q \in Req : q # r => req'[q] = req[q]
    BY <1>0, <1>4, NextDiskNext, BecomeIs DEF RemoveDirectory
  <2>2. UNCHANGED <<img, lease>> BY <1>4 DEF RemoveDirectory
  <2>3. \A d \in Disk : res'[d] # res[d] => res[d] \notin Vm
    BY <1>0, <1>4, UuidAssumption DEF RemoveDirectory, TInv, TypeOK
  <2> QED BY <2>1, <2>2, <2>3 DEF HandlerStep
<1>5. CASE RollbackNothing(r)
  BY <1>0, <1>5, StartStep, IdleNext DEF RollbackNothing
<1> QED BY <1>1, <1>2, <1>3, <1>4, <1>5

\* A crash gives back the leases of the handler and of nobody else.
LEMMA CrashStep == ASSUME LInv, NEW r \in Req, Crash(r) PROVE HandlerStep(r)
<1>0. TInv BY DEF LInv
<1>1. req'[r].step = "next" /\ \A q \in Req : q # r => req'[q] = req[q]
  BY <1>0, BecomeIs, IdleNext DEF Crash
<1>2. \A d \in Disk : lease'[d] # lease[d] => lease[d] = r /\ lease'[d] = None
  BY <1>0 DEF Crash, TInv, TypeOK
<1> QED BY <1>1, <1>2 DEF Crash, HandlerStep

\* The start of a handler touches no disk and no lease.
LEMMA RequestStep ==
  ASSUME LInv, NEW r \in Req, NEW u \in Vm,
         \/ \E v \in Definitions, prov, del \in BOOLEAN :
              vm_create(r, u, v, prov) \/ vm_update(r, u, v, prov, del)
         \/ \E del \in BOOLEAN : vm_delete(r, u, del)
  PROVE  HandlerStep(r)
<1>0. TInv /\ UNCHANGED <<res, lease, img>> BY DEF LInv, vm_create, vm_update, vm_delete
<1>1. ASSUME NEW v \in Definitions, NEW prov \in BOOLEAN, vm_create(r, u, v, prov)
      PROVE  HandlerStep(r)
  <2> DEFINE h == [Idle EXCEPT !.pc = "create", !.vm = u, !.new = v, !.prov = prov,
                               !.todo = Disks(v)]
  <2>1. h.step = "next" BY DEF Idle
  <2>2. Become(r, h) BY <1>1 DEF vm_create
  <2> HIDE DEF h
  <2> QED BY <1>0, <2>1, <2>2, StartStep
<1>2. ASSUME NEW v \in Definitions, NEW prov \in BOOLEAN, NEW del \in BOOLEAN,
             vm_update(r, u, v, prov, del)
      PROVE  HandlerStep(r)
  <2> DEFINE h == [Idle EXCEPT !.pc = "create", !.vm = u, !.new = v, !.old = reg[u],
                               !.prov = prov, !.del = del,
                               !.todo = Disks(v) \ Disks(reg[u])]
  <2>1. h.step = "next" BY DEF Idle
  <2>2. Become(r, h) BY <1>2 DEF vm_update
  <2> HIDE DEF h
  <2> QED BY <1>0, <2>1, <2>2, StartStep
<1>3. ASSUME NEW del \in BOOLEAN, vm_delete(r, u, del) PROVE HandlerStep(r)
  <2> DEFINE h == [Idle EXCEPT !.pc = "undefine", !.vm = u, !.old = def[u], !.del = del]
  <2>1. h.step = "next" BY DEF Idle
  <2>2. Become(r, h) BY <1>3 DEF vm_delete
  <2> HIDE DEF h
  <2> QED BY <1>0, <2>1, <2>2, StartStep
<1> QED BY <1>1, <1>2, <1>3

\* Every step is a domain's, the inventory's or a handler's.
LEMMA NextStep ==
  ASSUME LInv, Next
  PROVE  (\E u \in Vm : Boot(u) \/ Stop(u) \/ Refresh(u)) \/ \E r \in Req : HandlerStep(r)
<1>1. ASSUME NEW r \in Req, NEW u \in Vm, NEW v \in Definitions, NEW prov \in BOOLEAN,
             vm_create(r, u, v, prov) \/ \E del \in BOOLEAN : vm_update(r, u, v, prov, del)
      PROVE  HandlerStep(r)
  BY <1>1, RequestStep
<1>2. ASSUME NEW r \in Req, NEW u \in Vm, NEW del \in BOOLEAN, vm_delete(r, u, del)
      PROVE  HandlerStep(r)
  BY <1>2, RequestStep
<1>3. ASSUME NEW r \in Req, NEW d \in Disk, CreateNext(r, d) \/ RemoveStart(r, d)
      PROVE  HandlerStep(r)
  BY <1>3, CreateNextStep, RemoveStartStep
<1>4. ASSUME NEW r \in Req,
             \/ ProvisionStart(r) \/ ProvisionEnd(r)
             \/ Define_domain(r) \/ Delete_domain(r)
             \/ RemoveDisk(r) \/ RemoveResource(r) \/ RemoveDirectory(r)
             \/ RollbackNothing(r) \/ Crash(r)
      PROVE  HandlerStep(r)
  BY <1>4, ProvisionStartStep, ProvisionEndStep, DomainStep, RemoveStep, CrashStep
<1> QED BY <1>1, <1>2, <1>3, <1>4 DEF Next

\* A domain takes free leases of owned resources and gives back its own.
LEMMA WorldKeeps ==
  ASSUME LInv, NEW u \in Vm, Boot(u) \/ Stop(u) \/ Refresh(u)
  PROVE  LeasedOwned' /\ RunHoldsResource' /\ UNCHANGED <<res, img>>
<1>0. \A r \in Req : req[r].step \in {"disk", "rm"} => req[r].cur \in Disk
  BY DEF LInv, TInv, HandlerOK
<1>1. UNCHANGED <<res, img, req>> BY DEF Boot, Stop, Refresh
<1>2. CASE Boot(u)
  <2>1. \A d \in Disk : lease'[d] # lease[d] => res[d] \in Vm /\ lease[d] = None
    BY <1>2 DEF Boot
  <2>2. LeasedOwned' BY <1>1, <2>1 DEF LInv, LeasedOwned
  <2>3. RunHoldsResource'
    BY <1>0, <1>1, <2>1, NoneAssumption DEF LInv, RunHoldsResource
  <2> QED BY <1>1, <2>2, <2>3
<1>3. CASE Stop(u)
  <2>1. \A d \in Disk : lease'[d] # lease[d] => lease[d] = u /\ lease'[d] = None
    BY <1>3 DEF Stop
  <2>2. LeasedOwned' BY <1>1, <2>1, NoneAssumption DEF LInv, LeasedOwned
  <2>3. RunHoldsResource'
    BY <1>0, <1>1, <2>1, DisjointAssumption DEF LInv, RunHoldsResource
  <2> QED BY <1>1, <2>2, <2>3
<1>4. CASE Refresh(u)
  BY <1>1, <1>4 DEF Refresh, LInv, LeasedOwned, RunHoldsResource
<1> QED BY <1>2, <1>3, <1>4

\* The lease invariant holds initially.
LEMMA InitLeases == Init => LInv
<1> SUFFICES ASSUME Init PROVE LInv OBVIOUS
<1>1. TInv BY InitTypes
<1>2. LeasedOwned BY NoneAssumption DEF Init, LeasedOwned
<1>3. RunHoldsResource BY DEF Init, RunHoldsResource, Idle
<1> QED BY <1>1, <1>2, <1>3 DEF LInv

\* It is inductive.
LEMMA NextLeases == LInv /\ [Next]_vars => LInv'
<1> SUFFICES ASSUME LInv, [Next]_vars PROVE LInv' OBVIOUS
<1>1. TInv' BY NextTypes DEF LInv
<1>2. CASE UNCHANGED vars BY <1>1, <1>2 DEF LInv, LeasedOwned, RunHoldsResource, vars
<1>3. CASE Next BY <1>1, <1>3, NextStep, WorldKeeps, HandlerStepKeeps DEF LInv
<1> QED BY <1>2, <1>3

\* It holds throughout.
LEMMA Leases == Spec => []LInv
BY InitLeases, NextLeases, PTL DEF Spec

\* From the LVB check of lockman.Run to the last command of its chain the handler holds
\* the lease, and the resource is its VM's, with any number of VMs, disks and concurrent
\* requests, crashes and failing commands included.
THEOREM RunIsExclusive == Spec => []RunHoldsResource
<1>1. LInv => RunHoldsResource BY DEF LInv
<1> QED BY <1>1, Leases, PTL

\* No step touches the image or the resource of a disk whose lease a domain holds.
THEOREM RunningIsSafe == Spec => RunningDisksUntouched
<1>1. LInv /\ [Next]_vars =>
        [\A d \in Disk : lease[d] \in Vm => res'[d] = res[d] /\ img'[d] = img[d]]_vars
  <2> SUFFICES ASSUME LInv, Next, NEW d \in Disk, lease[d] \in Vm
               PROVE  res'[d] = res[d] /\ img'[d] = img[d]
    OBVIOUS
  <2>1. ASSUME NEW r \in Req, HandlerStep(r) PROVE res'[d] = res[d] /\ img'[d] = img[d]
    BY <2>1, DisjointAssumption DEF LInv, LeasedOwned, RunHoldsResource, HandlerStep
  <2> QED BY <2>1, NextStep, WorldKeeps
<1> QED BY <1>1, Leases, PTL DEF Spec, RunningDisksUntouched

\* Whatever happens to an owned disk is done by a handler that works on it for the VM
\* that owns it.
THEOREM OwnersOnly == Spec => OnlyOwnerTouches
<1>1. LInv /\ [Next]_vars =>
        [\A d \in Disk : res[d] \in Vm /\ (res'[d] # res[d] \/ img'[d] # img[d]) =>
           \E r \in Req : req[r].cur = d /\ req[r].vm = res[d]]_vars
  <2> SUFFICES ASSUME LInv, Next, NEW d \in Disk, res[d] \in Vm,
                      res'[d] # res[d] \/ img'[d] # img[d]
               PROVE  \E r \in Req : req[r].cur = d /\ req[r].vm = res[d]
    OBVIOUS
  <2>1. ASSUME NEW r \in Req, HandlerStep(r)
        PROVE  req[r].cur = d /\ req[r].vm = res[d]
    BY <2>1 DEF LInv, RunHoldsResource, HandlerStep
  <2> QED BY <2>1, NextStep, WorldKeeps
<1> QED BY <1>1, Leases, PTL DEF Spec, OnlyOwnerTouches
-----------------------------------------------------------------------------
(* Ownership.                                                               *)

\* What the two ownership theorems assume: clients have one request at a time for a VM,
\* the registry's saves and libvirt's descriptions do not fail, and a disk that one
\* definition manages is not unmanaged in another.
Orderly ==
  /\ Serial
  /\ "save" \notin FaultKinds /\ "describe" \notin FaultKinds
  /\ \A v, w \in Definitions : v.man \cap w.unman = {}

\* Resources handler h answers for: those it has created, or has still to delete.
Reach(h) ==
  IF h.pc \in {"create", "provision"} THEN h.created
  ELSE IF h.pc = "delete" THEN h.todo \cup {h.cur} ELSE {}

\* The definition a creating handler starts from.
Before(u) == IF def[u] = None THEN NoDisks ELSE def[u]

\* A creating handler: what it has created is its VM's and new to the definition, and
\* what the new definition manages is still to do, created, or managed already.
CreateOK(h) ==
  /\ h.new \in Definitions
  /\ h.old = Before(h.vm)
  /\ h.created \subseteq h.new.man \ h.old.man
  /\ h.todo \cap Disks(h.old) = {}
  /\ \A d \in h.created : res[d] = h.vm
  /\ h.new.man \subseteq h.todo \cup h.created \cup h.old.man

\* A removing handler: no disk on its list is in the VM's definition.
RemoveOK(h) ==
  def[h.vm] # None => def[h.vm].man \cap (h.todo \cup {h.cur}) = {}

\* What an active handler relies on.
HInv(h) ==
  /\ h.pc \in {"create", "provision"} => CreateOK(h)
  /\ h.pc \in {"rollback", "delete"} => RemoveOK(h)
  /\ h.pc = "undefine" => def[h.vm] # None /\ h.old = def[h.vm]

\* VM u owns the managed disks of its definition.
OwnsDisks(u) == def[u] # None => \A d \in def[u].man : res[d] = u

\* Its resources are in its definition or a handler answers for them, or the client
\* has been told.
Accounted(u) ==
  \A d \in Disk : res[d] = u /\ u \notin warned =>
    \/ def[u] # None /\ d \in def[u].man
    \/ \E r \in Req : req[r].vm = u /\ d \in Reach(req[r])

\* The ownership invariant of VM u.
VmInv(u) ==
  /\ reg[u] = def[u]
  /\ def[u] # None => def[u] \in Definitions /\ u \in used
  /\ OwnsDisks(u)
  /\ \A r \in Req : req[r].vm = u =>
       u \in used /\ HInv(req[r]) /\ \A q \in Req : req[q].vm = u => q = r
  /\ Accounted(u)

\* The ownership invariant.
OInv == \A u \in Vm : VmInv(u)

\* A step of handler r that serves VM w.
VmStep(r, w) ==
  /\ HandlerStep(r)
  /\ req[r].vm \in {w, None} /\ req'[r].vm \in {w, None}
  /\ \A u \in Vm : u # w => def'[u] = def[u] /\ reg'[u] = reg[u]
  /\ \A d \in Disk : res'[d] # res[d] => res'[d] \in {w, "none", "empty"}
  /\ warned \subseteq warned' /\ used \subseteq used'

\* What any other VM relies on stands.
LEMMA OthersKeep ==
  ASSUME LInv, OInv, NEW r \in Req, NEW w \in Vm, VmStep(r, w), NEW u \in Vm, u # w
  PROVE  VmInv(u)'
<1>1. VmInv(u) /\ TypeOK BY DEF OInv, LInv, TInv
<1>2. def'[u] = def[u] /\ reg'[u] = reg[u] BY DEF VmStep
<1>3. \A d \in Disk : res[d] = u <=> res'[d] = u
  BY UuidAssumption, NoneAssumption DEF VmStep, HandlerStep, LInv, RunHoldsResource, TInv, HandlerOK
<1>4. \A q \in Req : (req[q].vm = u \/ req'[q].vm = u) => req'[q] = req[q]
  BY NoneAssumption DEF VmStep, HandlerStep
<1>5. u \in used => u \in used' BY DEF VmStep
<1>6. u \notin warned' => u \notin warned BY DEF VmStep
<1>7. def[u] # None => def[u].man \subseteq Disk BY <1>1 DEF TypeOK, Vmdef
<1>8. \A q \in Req : req[q].created \subseteq Disk BY <1>1 DEF TypeOK, Handler
<1>9. OwnsDisks(u)' BY <1>1, <1>2, <1>3, <1>7 DEF VmInv, OwnsDisks
<1>10. ASSUME NEW q \in Req, req'[q].vm = u
       PROVE  u \in used' /\ HInv(req[q])' /\ \A p \in Req : req'[p].vm = u => p = q
  <2>1. req'[q] = req[q] BY <1>4, <1>10
  <2>2. HInv(req[q]) BY <1>1, <1>10, <2>1 DEF VmInv
  <2>3. CreateOK(req[q]) => CreateOK(req[q])'
    BY <1>2, <1>3, <1>8, <1>10, <2>1 DEF CreateOK, Before
  <2>4. HInv(req[q])' BY <1>2, <1>10, <2>1, <2>2, <2>3 DEF HInv, RemoveOK
  <2> QED BY <1>1, <1>4, <1>5, <1>10, <2>1, <2>4 DEF VmInv
<1>11. Accounted(u)'
  <2> SUFFICES ASSUME NEW d \in Disk, res'[d] = u, u \notin warned'
               PROVE  \/ def'[u] # None /\ d \in def'[u].man
                      \/ \E q \in Req : req'[q].vm = u /\ d \in Reach(req'[q])
    BY DEF Accounted, Reach
  <2> QED BY <1>1, <1>2, <1>3, <1>4, <1>6 DEF VmInv, Accounted
<1> QED BY <1>1, <1>2, <1>5, <1>9, <1>10, <1>11 DEF VmInv

\* The same handler is the only one that serves its VM.
LEMMA OnlyHandler ==
  ASSUME OInv, NEW r \in Req, req[r].vm \in Vm, NEW q \in Req, q # r
  PROVE  req[q].vm # req[r].vm
BY DEF OInv, VmInv

\* The handler's VM has been told of: its resources need no account any more.
LEMMA WarnedKeeps ==
  ASSUME OInv, NEW r \in Req, NEW w \in Vm, req[r].vm = w, w \in warned', HandlerStep(r),
         UNCHANGED <<def, reg, used>>, OwnsDisks(w)', HInv(req[r])'
  PROVE  VmInv(w)'
<1>1. VmInv(w) BY DEF OInv
<1>2. \A q \in Req : q # r => req'[q].vm # w BY OnlyHandler DEF HandlerStep
<1>3. Accounted(w)' BY DEF Accounted
<1>4. w \in used BY <1>1 DEF VmInv
<1> QED BY <1>1, <1>2, <1>3, <1>4 DEF VmInv

\* A step that serves w needs to be looked at for w alone.
LEMMA Served ==
  ASSUME LInv, OInv, NEW r \in Req, NEW w \in Vm, VmStep(r, w), VmInv(w)'
  PROVE  OInv'
BY OthersKeep DEF OInv

\* A handler starts on a VM that no other handler serves.
LEMMA StartOwn ==
  ASSUME OInv, NEW r \in Req, NEW w \in Vm, NEW h, h.vm = w, Become(r, h), TInv,
         \A q \in Req : req[q].vm # w,
         UNCHANGED <<res, def, reg, warned>>, w \in used', HInv(req[r])'
  PROVE  VmInv(w)'
<1>1. req'[r] = h /\ \A q \in Req : q # r => req'[q] = req[q] BY BecomeIs
<1>2. VmInv(w) BY DEF OInv
<1>3. Accounted(w)' BY <1>2 DEF VmInv, Accounted
<1>4. OwnsDisks(w)' BY <1>2 DEF VmInv, OwnsDisks
<1> QED BY <1>1, <1>2, <1>3, <1>4 DEF VmInv

\* vm_create: a fresh uuid has no definition, no handler and no account to give.
LEMMA CreateOwn ==
  ASSUME Orderly, LInv, OInv, NEW r \in Req, NEW u \in Vm, NEW v \in Definitions,
         NEW prov \in BOOLEAN, vm_create(r, u, v, prov)
  PROVE  OInv'
<1> DEFINE h == [Idle EXCEPT !.pc = "create", !.vm = u, !.new = v, !.prov = prov,
                             !.todo = Disks(v)]
<1>0. TInv BY DEF LInv
<1>1. /\ h.pc = "create" /\ h.vm = u /\ h.new = v /\ h.todo = Disks(v) /\ h.step = "next"
      /\ h.old = NoDisks /\ h.created = {}
  BY DEF Idle
<1>2. Become(r, h) BY DEF vm_create
<1> HIDE DEF h
<1>a. req'[r] = h BY <1>0, <1>2, BecomeIs
<1>3. req[r].vm = None BY DEF vm_create, LInv, TInv, HandlerOK
<1>4. VmInv(u) /\ u \notin used BY DEF OInv, vm_create
<1>5. def[u] = None /\ \A q \in Req : req[q].vm # u BY <1>4 DEF VmInv
<1>6. UNCHANGED <<res, def, reg, warned>> /\ used' = used \cup {u} BY DEF vm_create
<1>7. HInv(req[r])'
  BY <1>a, <1>1, <1>5, <1>6 DEF HInv, CreateOK, Before, NoDisks, Disks
<1>8. HandlerStep(r) BY RequestStep
<1>10. VmStep(r, u) BY <1>a, <1>1, <1>3, <1>6, <1>8 DEF VmStep
<1>11. VmInv(u)' BY <1>0, <1>1, <1>2, <1>5, <1>6, <1>7, StartOwn
<1> QED BY <1>10, <1>11, Served

\* vm_update: what the new definition manages is new, or managed already.
LEMMA UpdateOwn ==
  ASSUME Orderly, LInv, OInv, NEW r \in Req, NEW u \in Vm, NEW v \in Definitions,
         NEW prov \in BOOLEAN, NEW del \in BOOLEAN, vm_update(r, u, v, prov, del)
  PROVE  OInv'
<1> DEFINE h == [Idle EXCEPT !.pc = "create", !.vm = u, !.new = v, !.old = reg[u],
                             !.prov = prov, !.del = del,
                             !.todo = Disks(v) \ Disks(reg[u])]
<1>0. TInv BY DEF LInv
<1>1. /\ h.pc = "create" /\ h.vm = u /\ h.new = v /\ h.todo = Disks(v) \ Disks(reg[u])
      /\ h.step = "next" /\ h.old = reg[u] /\ h.created = {}
  BY DEF Idle
<1>2. Become(r, h) BY DEF vm_update
<1> HIDE DEF h
<1>a. req'[r] = h BY <1>0, <1>2, BecomeIs
<1>3. req[r].vm = None BY DEF vm_update, Admitted, LInv, TInv, HandlerOK
<1>4. VmInv(u) BY DEF OInv
<1>5. reg[u] = def[u] /\ def[u] # None /\ def[u] \in Definitions /\ u \in used
  BY <1>4 DEF VmInv, vm_update
<1>6. \A q \in Req : req[q].vm # u BY DEF vm_update, Admitted, Orderly, Active
<1>7. UNCHANGED <<res, def, reg, warned, used>> BY DEF vm_update
<1>8. HInv(req[r])'
  <2>1. v.man \cap def[u].unman = {} BY <1>5 DEF Orderly
  <2> QED BY <1>a, <1>1, <1>5, <1>7, <2>1 DEF HInv, CreateOK, Before, Disks
<1>9. HandlerStep(r) BY RequestStep
<1>11. VmStep(r, u) BY <1>a, <1>1, <1>3, <1>7, <1>9 DEF VmStep
<1>12. VmInv(u)' BY <1>0, <1>1, <1>2, <1>5, <1>6, <1>7, <1>8, StartOwn
<1> QED BY <1>11, <1>12, Served

\* vm_delete works on the definition the VM has.
LEMMA DeleteOwn ==
  ASSUME Orderly, LInv, OInv, NEW r \in Req, NEW u \in Vm, NEW del \in BOOLEAN,
         vm_delete(r, u, del)
  PROVE  OInv'
<1> DEFINE h == [Idle EXCEPT !.pc = "undefine", !.vm = u, !.old = def[u], !.del = del]
<1>0. TInv BY DEF LInv
<1>1. h.pc = "undefine" /\ h.vm = u /\ h.old = def[u] /\ h.step = "next" BY DEF Idle
<1>2. Become(r, h) BY DEF vm_delete
<1> HIDE DEF h
<1>a. req'[r] = h BY <1>0, <1>2, BecomeIs
<1>3. req[r].vm = None BY DEF vm_delete, Admitted, LInv, TInv, HandlerOK
<1>4. VmInv(u) BY DEF OInv
<1>5. def[u] # None /\ u \in used BY <1>4 DEF VmInv, vm_delete
<1>6. \A q \in Req : req[q].vm # u BY DEF vm_delete, Admitted, Orderly, Active
<1>7. UNCHANGED <<res, def, reg, warned, used>> BY DEF vm_delete
<1>8. HInv(req[r])' BY <1>a, <1>1, <1>5, <1>7 DEF HInv
<1>9. HandlerStep(r) BY RequestStep
<1>11. VmStep(r, u) BY <1>a, <1>1, <1>3, <1>7, <1>9 DEF VmStep
<1>12. VmInv(u)' BY <1>0, <1>1, <1>2, <1>5, <1>6, <1>7, <1>8, StartOwn
<1> QED BY <1>11, <1>12, Served

\* Create or Define_domain fails: the handler goes on to roll back what it has created,
\* none of which the VM's definition has.
LEMMA RollbackOwn ==
  ASSUME LInv, OInv, NEW r \in Req, req[r].pc \in {"create", "provision"}, NEW c,
         NEW w \in Vm, req[r].vm = w,
         RollbackWith(r, c), c \subseteq Disk, c \cap Before(w).man = {},
         HandlerStep(r), UNCHANGED <<def, reg, used>>, OwnsDisks(w)',
         \A d \in Disk : res'[d] # res[d] => res'[d] = w
  PROVE  OInv'
<1> DEFINE h == [Idle EXCEPT !.pc = "rollback", !.vm = req[r].vm, !.todo = c]
<1>0. TInv BY DEF LInv
<1>1. h.pc = "rollback" /\ h.vm = w /\ h.todo = c /\ h.cur = None BY DEF Idle
<1>2. req'[r] = h BY <1>0, BecomeIs DEF RollbackWith
<1> HIDE DEF h
<1>3. warned' = warned \cup {w} BY DEF RollbackWith, Warn
<1>4. def[w] # None => def[w].man \subseteq Disk BY <1>0 DEF TInv, TypeOK, Vmdef
<1>5. HInv(req[r])'
  BY <1>1, <1>2, <1>4, NoneAssumption DEF HInv, RemoveOK, Before
<1>6. VmInv(w)' BY <1>3, <1>5, WarnedKeeps
<1>7. VmStep(r, w) BY <1>1, <1>2, <1>3 DEF VmStep
<1> QED BY <1>6, <1>7, Served

\* A handler that is not through goes on with its VM.
LEMMA GoesOn ==
  ASSUME LInv, OInv, NEW r \in Req, NEW w \in Vm, req[r].vm = w, HandlerStep(r),
         req'[r].vm = w, UNCHANGED <<def, reg, used, warned>>, OwnsDisks(w)', HInv(req[r])',
         \A d \in Disk : res'[d] # res[d] => res'[d] \in {w, "none", "empty"},
         \A d \in Disk : res'[d] = w =>
           d \in Reach(req'[r]) \/ (res[d] = w /\ d \notin Reach(req[r]))
  PROVE  OInv'
<1>1. VmInv(w) BY DEF OInv
<1>2. VmStep(r, w) BY DEF VmStep
<1>3. \A q \in Req : q # r => req[q].vm # w /\ req'[q].vm # w
  BY OnlyHandler DEF HandlerStep
<1>4. Accounted(w)'
  <2> SUFFICES ASSUME NEW d \in Disk, res'[d] = w, w \notin warned'
               PROVE  \/ def'[w] # None /\ d \in def'[w].man
                      \/ \E q \in Req : req'[q].vm = w /\ d \in Reach(req'[q])
    BY DEF Accounted, Reach
  <2> QED BY <1>1, <1>3 DEF VmInv, Accounted
<1>5. VmInv(w)' BY <1>1, <1>3, <1>4 DEF VmInv
<1> QED BY <1>2, <1>5, Served

\* A disk that gets its resource belongs to the VM and joins CreatedResources.
LEMMA CreateNextOwn ==
  ASSUME LInv, OInv, NEW r \in Req, NEW d \in Disk, CreateNext(r, d)
  PROVE  OInv'
<1> DEFINE h == req[r]
           managed == d \in h.new.man
           created == IF managed THEN h.created \cup {d} ELSE h.created
<1>0. /\ TInv /\ h \in Handler /\ h.vm \in Vm /\ h.pc = "create" /\ d \in h.todo
  BY DEF LInv, TInv, TypeOK, HandlerOK, CreateNext
<1> PICK w \in Vm : w = h.vm BY <1>0
<1>1. VmInv(w) /\ CreateOK(h) BY <1>0 DEF OInv, VmInv, HInv
<1>2. HandlerStep(r) BY CreateNextStep
<1>3. UNCHANGED <<def, reg, used>> BY DEF CreateNext
<1>4. \A e \in Disk : res'[e] # res[e] =>
        e = d /\ managed /\ res[e] \in {"none", "empty"} /\ res'[e] = w
  BY <1>0 DEF CreateNext, Creatable, lm_init_resource_file, TInv, TypeOK
<1>5. OwnsDisks(w)'
  BY <1>0, <1>1, <1>3, <1>4, UuidAssumption DEF VmInv, OwnsDisks, TInv, TypeOK, Vmdef
<1>6. /\ created \subseteq h.new.man \ h.old.man /\ created \subseteq Disk
      /\ h.created \subseteq created
  BY <1>0, <1>1 DEF CreateOK, Disks, Handler
<1>7. CASE RollbackWith(r, h.created) \/ RollbackWith(r, created)
  <2>1. PICK c \in {h.created, created} : RollbackWith(r, c) BY <1>7
  <2>2. c \subseteq Disk /\ c \cap Before(w).man = {} BY <1>1, <1>6 DEF CreateOK
  <2> QED BY <1>0, <1>2, <1>3, <1>4, <1>5, <2>1, <2>2, RollbackOwn
<1>8. CASE ~(RollbackWith(r, h.created) \/ RollbackWith(r, created))
  <2> DEFINE g == [h EXCEPT !.pc = "provision", !.cur = d, !.created = created,
                            !.todo = @ \ {d}]
             k == [h EXCEPT !.created = created, !.todo = @ \ {d}]
  <2>1. /\ g.pc = "provision" /\ k.pc = "create" /\ g.vm = h.vm /\ k.vm = h.vm
        /\ g.created = created /\ k.created = created
        /\ g.todo = h.todo \ {d} /\ k.todo = h.todo \ {d}
        /\ g.new = h.new /\ k.new = h.new /\ g.old = h.old /\ k.old = h.old
    BY <1>0 DEF Handler
  <2>2. /\ Become(r, g) \/ Become(r, k)
        /\ UNCHANGED warned
        /\ managed => res' = lm_init_resource_file(d, h.vm)
    BY <1>8 DEF CreateNext
  <2> HIDE DEF g, k
  <2>3. req'[r] \in {g, k} BY <1>0, <2>2, BecomeIs
  <2>4. /\ req'[r].pc \in {"provision", "create"} /\ req'[r].vm = w
        /\ req'[r].created = created /\ req'[r].todo = h.todo \ {d}
        /\ req'[r].new = h.new /\ req'[r].old = h.old
    BY <2>1, <2>3
  <2>5. \A e \in created : res'[e] = w
    BY <1>0, <1>1, <1>4, <1>6, <2>2, UuidAssumption
    DEF CreateOK, lm_init_resource_file, TInv, TypeOK
  <2>6. CreateOK(req[r])'
    <3>1. req'[r].old = Before(req[r].vm)'
      BY <1>1, <1>3, <2>4 DEF CreateOK, Before
    <3> QED BY <1>1, <1>6, <2>4, <2>5, <3>1 DEF CreateOK
  <2>7. HInv(req[r])' BY <2>4, <2>6 DEF HInv
  <2>8. Reach(req'[r]) = created /\ Reach(req[r]) = h.created BY <1>0, <2>4 DEF Reach
  <2>9. \A e \in Disk : res'[e] = w =>
          e \in Reach(req'[r]) \/ (res[e] = w /\ e \notin Reach(req[r]))
    BY <1>4, <1>6, <2>8
  <2> HIDE DEF managed, created, h
  <2> QED BY <1>2, <1>3, <1>4, <1>5, <2>2, <2>4, <2>7, <2>9, GoesOn DEF h
<1> QED BY <1>7, <1>8

\* Provisioning changes no owner.
LEMMA ProvisionOwn ==
  ASSUME LInv, OInv, NEW r \in Req, ProvisionStart(r) \/ ProvisionEnd(r)
  PROVE  OInv'
<1> DEFINE h == req[r]
<1>0. /\ TInv /\ h \in Handler /\ h.vm \in Vm /\ h.pc = "provision"
  BY DEF LInv, TInv, TypeOK, HandlerOK, ProvisionStart, ProvisionEnd
<1> PICK w \in Vm : w = h.vm BY <1>0
<1>1. VmInv(w) /\ CreateOK(h) BY <1>0 DEF OInv, VmInv, HInv
<1>2. HandlerStep(r) BY ProvisionStartStep, ProvisionEndStep
<1>3. UNCHANGED <<res, def, reg, used>> BY DEF ProvisionStart, ProvisionEnd
<1>4. OwnsDisks(w)' BY <1>1, <1>3 DEF VmInv, OwnsDisks
<1>5. CASE RollbackWith(r, h.created)
  <2>1. h.created \subseteq Disk /\ h.created \cap Before(w).man = {}
    BY <1>0, <1>1 DEF CreateOK, Handler
  <2> QED BY <1>0, <1>2, <1>3, <1>4, <1>5, <2>1, RollbackOwn
<1>6. CASE ~RollbackWith(r, h.created)
  <2> DEFINE g == [h EXCEPT !.step = "disk"]
             k == [h EXCEPT !.pc = "create", !.step = "next", !.cur = None]
  <2>1. /\ g.pc = "provision" /\ k.pc = "create" /\ g.vm = h.vm /\ k.vm = h.vm
        /\ g.created = h.created /\ k.created = h.created
        /\ g.todo = h.todo /\ k.todo = h.todo
        /\ g.new = h.new /\ k.new = h.new /\ g.old = h.old /\ k.old = h.old
    BY <1>0 DEF Handler
  <2>2. (Become(r, g) \/ Become(r, k)) /\ UNCHANGED warned
    BY <1>6 DEF ProvisionStart, ProvisionEnd
  <2> HIDE DEF g, k
  <2>3. req'[r] \in {g, k} BY <1>0, <2>2, BecomeIs
  <2>4. /\ req'[r].pc \in {"provision", "create"} /\ req'[r].vm = w
        /\ req'[r].created = h.created /\ req'[r].todo = h.todo
        /\ req'[r].new = h.new /\ req'[r].old = h.old
    BY <2>1, <2>3
  <2>5. HInv(req[r])' BY <1>1, <1>3, <2>4 DEF HInv, CreateOK, Before
  <2>6. Reach(req'[r]) = Reach(req[r]) BY <1>0, <2>4 DEF Reach
  <2> QED BY <1>2, <1>3, <1>4, <2>2, <2>4, <2>5, <2>6, GoesOn
<1> QED BY <1>5, <1>6

\* The fields of the record with which storage.Delete takes over.
LEMMA DeletingFields ==
  ASSUME NEW h, NEW todo
  PROVE  \/ todo = {} /\ Deleting(h, todo) = Idle
         \/ /\ Deleting(h, todo).pc = "delete" /\ Deleting(h, todo).vm = h.vm
            /\ Deleting(h, todo).todo = todo /\ Deleting(h, todo).cur = None
BY DEF Deleting, Idle

\* An idle handler answers for nothing.
LEMMA IdleFields == Idle.pc = "idle" /\ Idle.vm = None /\ Reach(Idle) = {}
BY DEF Idle, Reach

\* storage.Delete takes over from r with the disks the definition of w has lost.
LEMMA HandOver ==
  ASSUME LInv, OInv, NEW r \in Req, NEW w \in Vm, req[r].vm = w, HandlerStep(r),
         NEW todo \in SUBSET Disk, Become(r, Deleting(req[r], todo)),
         UNCHANGED <<res, used, warned>>,
         reg'[w] = def'[w], \A u \in Vm : u # w => def'[u] = def[u] /\ reg'[u] = reg[u],
         def'[w] # None => /\ def'[w] \in Definitions /\ def'[w].man \cap todo = {}
                           /\ \A d \in def'[w].man : res[d] = w,
         \A d \in Disk : (def[w] # None /\ d \in def[w].man) \/ d \in Reach(req[r]) =>
           (def'[w] # None /\ d \in def'[w].man) \/ d \in todo
  PROVE  OInv'
<1> DEFINE g == Deleting(req[r], todo)
<1>0. TInv /\ VmInv(w) BY DEF LInv, OInv
<1>1. \/ todo = {} /\ g = Idle
      \/ g.pc = "delete" /\ g.vm = w /\ g.todo = todo /\ g.cur = None
  BY DeletingFields
<1> HIDE DEF g
<1>2. req'[r] = g BY <1>0, BecomeIs DEF g
<1>3. \A q \in Req : q # r => req[q].vm # w /\ req'[q].vm # w
  BY OnlyHandler DEF HandlerStep
<1>4. VmStep(r, w)
  BY <1>1, <1>2, IdleFields DEF VmStep
<1>5. def'[w] # None => def'[w].man \subseteq Disk
  BY DefinitionsAssumption DEF Vmdef
<1>6. HInv(req[r])'
  BY <1>1, <1>2, <1>5, IdleFields, NoneAssumption DEF HInv, RemoveOK
<1>7. Accounted(w)'
  <2> SUFFICES ASSUME NEW d \in Disk, res'[d] = w, w \notin warned'
               PROVE  \/ def'[w] # None /\ d \in def'[w].man
                      \/ \E q \in Req : req'[q].vm = w /\ d \in Reach(req'[q])
    BY DEF Accounted, Reach
  <2>1. (def[w] # None /\ d \in def[w].man) \/ d \in Reach(req[r])
    BY <1>0, <1>3 DEF VmInv, Accounted
  <2>2. CASE d \in todo
    <3>1. g.pc = "delete" /\ g.vm = w /\ g.todo = todo BY <1>1, <2>2
    <3>2. d \in Reach(req'[r]) /\ req'[r].vm = w BY <1>2, <2>2, <3>1 DEF Reach
    <3> QED BY <3>2
  <2> QED BY <2>1, <2>2
<1>8. OwnsDisks(w)' BY DEF OwnsDisks
<1>9. w \in used' BY <1>0 DEF VmInv
<1>10. VmInv(w)' BY <1>3, <1>6, <1>7, <1>8, <1>9 DEF VmInv
<1> QED BY <1>4, <1>10, Served

\* Define_domain: what the old definition had is in the new one or is deleted next.
LEMMA DefineOwn ==
  ASSUME Orderly, LInv, OInv, NEW r \in Req, Define_domain(r)
  PROVE  OInv'
<1> DEFINE h == req[r]
           todo == h.old.man \ Disks(h.new)
<1>0. TInv /\ h \in Handler /\ h.vm \in Vm /\ h.pc = "create" /\ h.todo = {}
  BY DEF LInv, TInv, TypeOK, HandlerOK, Define_domain
<1> PICK w \in Vm : w = h.vm BY <1>0
<1>1. VmInv(w) /\ CreateOK(h) BY <1>0 DEF OInv, VmInv, HInv
<1>2. HandlerStep(r) BY DomainStep
<1>3. UNCHANGED <<res, used>> BY DEF Define_domain
<1>4. CASE RollbackWith(r, h.created) /\ UNCHANGED <<def, reg>>
  <2>1. h.created \subseteq Disk /\ h.created \cap Before(w).man = {}
    BY <1>0, <1>1 DEF CreateOK, Handler
  <2>2. OwnsDisks(w)' BY <1>1, <1>3, <1>4 DEF VmInv, OwnsDisks
  <2> QED BY <1>0, <1>2, <1>3, <1>4, <2>1, <2>2, RollbackOwn
<1>5. CASE /\ def' = [def EXCEPT ![h.vm] = h.new] /\ Register(h.vm, h.new)
           /\ Become(r, Deleting(h, todo)) /\ UNCHANGED warned
  <2>1. reg' = [reg EXCEPT ![w] = h.new] BY <1>5 DEF Register, Fault, Orderly
  <2>2. /\ def'[w] = h.new /\ reg'[w] = h.new
        /\ \A u \in Vm : u # w => def'[u] = def[u] /\ reg'[u] = reg[u]
    BY <1>0, <1>5, <2>1 DEF TInv, TypeOK
  <2>3. h.new \in Definitions /\ h.new.man \cap todo = {} BY <1>1 DEF CreateOK, Disks
  <2>4. \A d \in h.new.man : res[d] = w
    BY <1>0, <1>1 DEF CreateOK, VmInv, OwnsDisks, Before, NoDisks
  <2>5. \A d : (def[w] # None /\ d \in def[w].man) \/ d \in Reach(h) =>
          d \in h.new.man \/ d \in todo
    <3>1. Reach(h) = h.created /\ h.created \subseteq h.new.man
      BY <1>0, <1>1 DEF Reach, CreateOK
    <3>2. def[w] # None => h.old = def[w] /\ def[w].man \cap h.new.unman = {}
      BY <1>1 DEF CreateOK, Before, VmInv, Orderly
    <3> QED BY <3>1, <3>2 DEF Disks
  <2>6. todo \in SUBSET Disk BY <1>0 DEF Handler, Vmdef
  <2>7. h.new # None BY <2>3, DefinitionsAssumption
  <2> HIDE DEF todo
  <2> QED BY <1>2, <1>3, <1>5, <2>2, <2>3, <2>4, <2>5, <2>6, <2>7, HandOver
<1>6. \/ RollbackWith(r, h.created) /\ UNCHANGED <<def, reg>>
      \/ /\ def' = [def EXCEPT ![h.vm] = h.new] /\ Register(h.vm, h.new)
         /\ Become(r, Deleting(h, todo)) /\ UNCHANGED warned
  BY DEF Define_domain, Orderly, Fault
<1> QED BY <1>4, <1>5, <1>6

\* Delete_domain: all that the definition had is deleted next.
LEMMA UndefineOwn ==
  ASSUME Orderly, LInv, OInv, NEW r \in Req, Delete_domain(r)
  PROVE  OInv'
<1> DEFINE h == req[r]
<1>0. TInv /\ h \in Handler /\ h.vm \in Vm /\ h.pc = "undefine"
  BY DEF LInv, TInv, TypeOK, HandlerOK, Delete_domain
<1> PICK w \in Vm : w = h.vm BY <1>0
<1>1. VmInv(w) /\ h.old = def[w] BY <1>0 DEF OInv, VmInv, HInv
<1>2. HandlerStep(r) BY DomainStep
<1>3. UNCHANGED <<res, used>> BY DEF Delete_domain
<1>4. CASE Become(r, Idle) /\ Warn(r) /\ UNCHANGED <<def, reg>>
  <2>1. req'[r] = Idle BY <1>0, <1>4, BecomeIs
  <2>2. OwnsDisks(w)' BY <1>1, <1>3, <1>4 DEF VmInv, OwnsDisks
  <2>3. HInv(req[r])' BY <2>1, IdleFields DEF HInv
  <2>4. warned' = warned \cup {w} BY <1>4 DEF Warn
  <2>5. VmInv(w)' BY <1>2, <1>3, <1>4, <2>2, <2>3, <2>4, WarnedKeeps
  <2>6. VmStep(r, w) BY <1>2, <1>3, <1>4, <2>1, <2>4, IdleFields DEF VmStep
  <2> QED BY <2>5, <2>6, Served
<1>5. CASE /\ def' = [def EXCEPT ![h.vm] = None] /\ Register(h.vm, None)
           /\ Become(r, Deleting(h, h.old.man)) /\ UNCHANGED warned
  <2>1. reg' = [reg EXCEPT ![w] = None] BY <1>5 DEF Register, Fault, Orderly
  <2>2. /\ def'[w] = None /\ reg'[w] = None
        /\ \A u \in Vm : u # w => def'[u] = def[u] /\ reg'[u] = reg[u]
    BY <1>0, <1>5, <2>1 DEF TInv, TypeOK
  <2>3. Reach(h) = {} BY <1>0 DEF Reach
  <2>4. h.old.man \in SUBSET Disk BY <1>0 DEF Handler, Vmdef
  <2> QED BY <1>1, <1>2, <1>3, <1>5, <2>2, <2>3, <2>4, HandOver
<1> QED BY <1>4, <1>5 DEF Delete_domain

\* The record of a handler that is through with the disk it is at.
LEMMA NextDiskFields ==
  ASSUME NEW h \in Handler
  PROVE  \/ h.todo = {} /\ NextDisk(h) = Idle
         \/ /\ NextDisk(h).pc = h.pc /\ NextDisk(h).vm = h.vm
            /\ NextDisk(h).todo = h.todo /\ NextDisk(h).cur = None
BY DEF NextDisk, Handler

\* A removal goes wrong: the client is told, and the next disk's turn has come.
LEMMA GiveUpOwn ==
  ASSUME LInv, OInv, NEW r \in Req, req[r].pc \in {"rollback", "delete"},
         NEW h \in Handler, h.pc = req[r].pc, h.vm = req[r].vm, h.todo \subseteq req[r].todo,
         Become(r, NextDisk(h)), Warn(r), HandlerStep(r), UNCHANGED <<res, def, reg, used>>
  PROVE  OInv'
<1> DEFINE g == NextDisk(h)
<1>0. TInv /\ req[r].vm \in Vm /\ h.todo \subseteq Disk
  BY DEF LInv, TInv, TypeOK, HandlerOK, Handler
<1> PICK w \in Vm : w = req[r].vm BY <1>0
<1>1. VmInv(w) /\ RemoveOK(req[r]) BY DEF OInv, VmInv, HInv
<1>2. \/ h.todo = {} /\ g = Idle
      \/ g.pc = h.pc /\ g.vm = h.vm /\ g.todo = h.todo /\ g.cur = None
  BY NextDiskFields
<1> HIDE DEF g
<1>3. req'[r] = g BY <1>0, BecomeIs DEF g
<1>4. warned' = warned \cup {w} BY DEF Warn
<1>5. def[w] # None => def[w].man \subseteq Disk BY <1>0 DEF TInv, TypeOK, Vmdef
<1>6. HInv(req[r])'
  BY <1>1, <1>2, <1>3, <1>5, IdleFields, NoneAssumption DEF HInv, RemoveOK
<1>7. OwnsDisks(w)' BY <1>1 DEF VmInv, OwnsDisks
<1>8. VmInv(w)' BY <1>4, <1>6, <1>7, WarnedKeeps
<1>9. VmStep(r, w) BY <1>2, <1>3, <1>4, IdleFields DEF VmStep
<1> QED BY <1>8, <1>9, Served

\* The disk under the lease is still accounted for.
LEMMA RemoveStartOwn ==
  ASSUME LInv, OInv, NEW r \in Req, NEW d \in Disk, RemoveStart(r, d)
  PROVE  OInv'
<1> DEFINE h == [req[r] EXCEPT !.todo = @ \ {d}]
           g == [h EXCEPT !.step = IF RemovesDisk(h) THEN "disk" ELSE "rm", !.cur = d]
<1>0. /\ TInv /\ req[r] \in Handler /\ req[r].vm \in Vm
      /\ req[r].pc \in {"rollback", "delete"} /\ d \in req[r].todo
  BY DEF LInv, TInv, TypeOK, HandlerOK, RemoveStart
<1> PICK w \in Vm : w = req[r].vm BY <1>0
<1>1. /\ h \in Handler /\ h.pc = req[r].pc /\ h.vm = req[r].vm
      /\ h.todo = req[r].todo \ {d}
      /\ g.pc = req[r].pc /\ g.vm = req[r].vm /\ g.todo = req[r].todo \ {d} /\ g.cur = d
  BY <1>0 DEF Handler
<1>2. HandlerStep(r) /\ UNCHANGED <<res, def, reg, used>>
  BY RemoveStartStep DEF RemoveStart
<1>3. CASE Become(r, NextDisk(h)) /\ Warn(r)
  <2> HIDE DEF h, g
  <2> QED BY <1>0, <1>1, <1>2, <1>3, GiveUpOwn
<1>4. CASE Become(r, g) /\ UNCHANGED warned
  <2> HIDE DEF h, g
  <2>1. req'[r] = g BY <1>0, <1>4, BecomeIs
  <2>2. VmInv(w) /\ RemoveOK(req[r]) BY <1>0 DEF OInv, VmInv, HInv
  <2>3. OwnsDisks(w)' BY <1>2, <2>2 DEF VmInv, OwnsDisks
  <2>4. HInv(req[r])' BY <1>0, <1>1, <1>2, <2>1, <2>2 DEF HInv, RemoveOK
  <2>5. req[r].cur = None BY DEF LInv, TInv, HandlerOK, RemoveStart
  <2>6. \A e \in Disk : e \in Reach(req[r]) => e \in Reach(req'[r])
    BY <1>0, <1>1, <2>1, <2>5, NoneAssumption DEF Reach
  <2> QED BY <1>0, <1>1, <1>2, <1>4, <2>1, <2>3, <2>4, <2>6, GoesOn
<1> QED BY <1>3, <1>4 DEF RemoveStart

\* A disk leaves the account of its handler when its directory is gone.
LEMMA RemoveOwn ==
  ASSUME LInv, OInv, NEW r \in Req, RemoveDisk(r) \/ RemoveResource(r) \/ RemoveDirectory(r)
  PROVE  OInv'
<1> DEFINE h == req[r]
<1>0. /\ TInv /\ h \in Handler /\ h.vm \in Vm /\ h.pc \in {"rollback", "delete"}
      /\ h.step # "next" /\ h.cur \in Disk
  BY DEF LInv, TInv, TypeOK, HandlerOK, RemoveDisk, RemoveResource, RemoveDirectory
<1> PICK w \in Vm : w = h.vm BY <1>0
<1>1. VmInv(w) /\ RemoveOK(h) BY <1>0 DEF OInv, VmInv, HInv
<1>2. HandlerStep(r) /\ UNCHANGED <<def, reg, used>>
  BY RemoveStep DEF RemoveDisk, RemoveResource, RemoveDirectory
<1>3. CASE RemoveFails(r)
  BY <1>0, <1>2, <1>3, GiveUpOwn DEF RemoveFails
<1>4. CASE ~RemoveFails(r)
  <2> DEFINE rm == [h EXCEPT !.step = "rm"]
             rmdir == [h EXCEPT !.step = "rmdir"]
  <2>1. /\ rm.pc = h.pc /\ rm.vm = h.vm /\ rm.todo = h.todo /\ rm.cur = h.cur
        /\ rmdir.pc = h.pc /\ rmdir.vm = h.vm /\ rmdir.todo = h.todo /\ rmdir.cur = h.cur
    BY <1>0 DEF Handler
  <2>2. UNCHANGED warned
    BY <1>4 DEF RemoveDisk, RemoveResource, RemoveDirectory
  <2>3. \A d \in Disk : res'[d] # res[d] => d = h.cur /\ res'[d] \in {"none", "empty"}
    BY <1>0, <1>4 DEF RemoveDisk, RemoveResource, RemoveDirectory, TInv, TypeOK
  <2>4. OwnsDisks(w)'
    BY <1>0, <1>1, <1>2, <2>3 DEF VmInv, OwnsDisks, RemoveOK, TInv, TypeOK, Vmdef
  <2>5. CASE Become(r, rm) \/ Become(r, rmdir)
    <3> HIDE DEF rm, rmdir
    <3>1. req'[r] \in {rm, rmdir} BY <1>0, <2>5, BecomeIs
    <3>2. /\ req'[r].pc = h.pc /\ req'[r].vm = w
          /\ req'[r].todo = h.todo /\ req'[r].cur = h.cur
      BY <2>1, <3>1
    <3>3. HInv(req[r])' BY <1>0, <1>1, <1>2, <3>2 DEF HInv, RemoveOK
    <3>4. Reach(req'[r]) = Reach(req[r]) BY <1>0, <3>2 DEF Reach
    <3>5. \A d \in Disk : res'[d] = w => res[d] = w BY <2>3, UuidAssumption
    <3> QED BY <1>2, <2>2, <2>3, <2>4, <3>2, <3>3, <3>4, <3>5, GoesOn
  <2>6. CASE RemoveDirectory(r) /\ Become(r, NextDisk(h))
    <3> DEFINE g == NextDisk(h)
    <3>1. \/ h.todo = {} /\ g = Idle
          \/ g.pc = h.pc /\ g.vm = h.vm /\ g.todo = h.todo /\ g.cur = None
      BY <1>0, NextDiskFields
    <3>2. req'[r] = g BY <1>0, <2>6, BecomeIs
    <3> HIDE DEF g
    <3>3. h.cur \in Disk /\ res'[h.cur] = "none"
      BY <1>0, <1>4, <2>6 DEF RemoveDirectory, TInv, TypeOK
    <3>4. def[w] # None => def[w].man \subseteq Disk BY <1>0 DEF TInv, TypeOK, Vmdef
    <3>5. HInv(req[r])'
      BY <1>0, <1>1, <1>2, <3>1, <3>2, <3>4, IdleFields, NoneAssumption DEF HInv, RemoveOK
    <3>6. VmStep(r, w)
      BY <1>2, <2>2, <2>3, <3>1, <3>2, IdleFields DEF VmStep
    <3>7. \A q \in Req : q # r => req[q].vm # w /\ req'[q].vm # w
      BY <1>2, OnlyHandler DEF HandlerStep
    <3>8. Accounted(w)'
      <4> SUFFICES ASSUME NEW d \in Disk, res'[d] = w, w \notin warned'
                   PROVE  \/ def'[w] # None /\ d \in def'[w].man
                          \/ \E q \in Req : req'[q].vm = w /\ d \in Reach(req'[q])
        BY DEF Accounted, Reach
      <4>1. d # h.cur /\ res[d] = w BY <2>3, <3>3, UuidAssumption
      <4>2. (def[w] # None /\ d \in def[w].man) \/ d \in Reach(h)
        BY <1>1, <2>2, <3>7, <4>1 DEF VmInv, Accounted
      <4>3. CASE d \in Reach(h)
        <5>1. h.pc = "delete" /\ d \in h.todo BY <1>0, <4>1, <4>3 DEF Reach
        <5>2. g.pc = "delete" /\ g.vm = w /\ g.todo = h.todo BY <3>1, <5>1
        <5>3. d \in Reach(req'[r]) /\ req'[r].vm = w BY <3>2, <5>1, <5>2 DEF Reach
        <5> QED BY <5>3
      <4> QED BY <1>2, <4>2, <4>3
    <3>9. VmInv(w)' BY <1>1, <1>2, <2>4, <3>5, <3>7, <3>8 DEF VmInv
    <3> QED BY <3>6, <3>9, Served
  <2> QED BY <1>4, <2>5, <2>6 DEF RemoveDisk, RemoveResource, RemoveDirectory
<1> QED BY <1>3, <1>4

\* A handler ends: it had nothing to answer for, or the client knows.
LEMMA EndOwn ==
  ASSUME LInv, OInv, NEW r \in Req, RollbackNothing(r) \/ Crash(r)
  PROVE  OInv'
<1>0. TInv /\ req[r].vm \in Vm
  BY DEF LInv, TInv, HandlerOK, RollbackNothing, Crash
<1> PICK w \in Vm : w = req[r].vm BY <1>0
<1>1. VmInv(w) BY DEF OInv
<1>2. HandlerStep(r) /\ UNCHANGED <<res, def, reg, used>> /\ req'[r] = Idle
  BY <1>0, RemoveStep, CrashStep, BecomeIs DEF RollbackNothing, Crash
<1>3. OwnsDisks(w)' BY <1>1, <1>2 DEF VmInv, OwnsDisks
<1>4. HInv(req[r])' BY <1>2, IdleFields DEF HInv
<1>5. warned \subseteq warned' BY DEF RollbackNothing, Crash, Warn
<1>6. VmStep(r, w) BY <1>2, <1>5, IdleFields DEF VmStep
<1>7. CASE Crash(r)
  <2>1. w \in warned' BY <1>7 DEF Crash, Warn
  <2> QED BY <1>2, <1>3, <1>4, <1>6, <2>1, WarnedKeeps, Served
<1>8. CASE RollbackNothing(r)
  <2>1. Reach(req[r]) = {} /\ UNCHANGED warned BY <1>8 DEF RollbackNothing, Reach
  <2>2. \A q \in Req : q # r => req[q].vm # w /\ req'[q].vm # w
    BY <1>2, OnlyHandler DEF HandlerStep
  <2>3. Accounted(w)'
    <3> SUFFICES ASSUME NEW d \in Disk, res'[d] = w, w \notin warned'
                 PROVE  def'[w] # None /\ d \in def'[w].man
      BY DEF Accounted
    <3> QED BY <1>1, <1>2, <2>1, <2>2 DEF VmInv, Accounted
  <2>4. VmInv(w)' BY <1>1, <1>2, <1>3, <1>4, <2>2, <2>3, IdleFields, NoneAssumption DEF VmInv
  <2> QED BY <1>6, <2>4, Served
<1> QED BY <1>7, <1>8

\* Nobody owns anything initially.
LEMMA InitOwn == Init => OInv
<1> SUFFICES ASSUME Init, NEW u \in Vm PROVE VmInv(u) BY DEF OInv
<1>1. def[u] = None /\ reg[u] = None BY DEF Init
<1>2. \A r \in Req : req[r].vm # u BY NoneAssumption DEF Init, Idle
<1>3. \A d \in Disk : res[d] # u BY UuidAssumption DEF Init
<1> QED BY <1>1, <1>2, <1>3 DEF VmInv, OwnsDisks, Accounted

\* Ownership does not depend on leases, images, domains or the inventory.
LEMMA KeptOwn ==
  ASSUME OInv, UNCHANGED <<res, def, reg, used, warned, req>> PROVE OInv'
BY DEF OInv, VmInv, OwnsDisks, Accounted, HInv, CreateOK, RemoveOK, Before, Reach

\* The ownership invariant is inductive, given the lease invariant.
LEMMA NextOwn == ASSUME Orderly PROVE LInv /\ OInv /\ [Next]_vars => OInv'
<1> SUFFICES ASSUME LInv, OInv, [Next]_vars PROVE OInv' OBVIOUS
<1>1. CASE UNCHANGED vars BY <1>1, KeptOwn DEF vars
<1>2. ASSUME NEW u \in Vm, Boot(u) \/ Stop(u) \/ Refresh(u) PROVE OInv'
  BY <1>2, KeptOwn DEF Boot, Stop, Refresh
<1>3. ASSUME NEW r \in Req, NEW u \in Vm, NEW v \in Definitions, NEW prov \in BOOLEAN,
             vm_create(r, u, v, prov) \/ \E del \in BOOLEAN : vm_update(r, u, v, prov, del)
      PROVE  OInv'
  BY <1>3, CreateOwn, UpdateOwn
<1>4. ASSUME NEW r \in Req, NEW u \in Vm, NEW del \in BOOLEAN, vm_delete(r, u, del)
      PROVE  OInv'
  BY <1>4, DeleteOwn
<1>5. ASSUME NEW r \in Req, NEW d \in Disk, CreateNext(r, d) \/ RemoveStart(r, d)
      PROVE  OInv'
  BY <1>5, CreateNextOwn, RemoveStartOwn
<1>6. ASSUME NEW r \in Req,
             \/ ProvisionStart(r) \/ ProvisionEnd(r)
             \/ Define_domain(r) \/ Delete_domain(r)
             \/ RemoveDisk(r) \/ RemoveResource(r) \/ RemoveDirectory(r)
             \/ RollbackNothing(r) \/ Crash(r)
      PROVE  OInv'
  BY <1>6, ProvisionOwn, DefineOwn, UndefineOwn, RemoveOwn, EndOwn
<1> QED BY <1>1, <1>2, <1>3, <1>4, <1>5, <1>6 DEF Next

\* It holds throughout.
LEMMA Ownership == ASSUME Orderly PROVE Spec => []OInv
<1>1. LInv /\ OInv /\ [Next]_vars => OInv' BY NextOwn
<1> QED BY <1>1, InitOwn, Leases, PTL DEF Spec

\* With one request at a time for a VM, a registry and a libvirt that answer, and disks
\* that are managed in every definition or in none, each managed disk of a defined VM has
\* a resource with this VM's uuid, whatever crashes and failures of commands happen.
THEOREM ManagedDisksOwned == ASSUME Orderly PROVE Spec => []DefinedVmsOwnDisks
<1>1. OInv => DefinedVmsOwnDisks BY DEF OInv, VmInv, OwnsDisks, DefinedVmsOwnDisks
<1> QED BY <1>1, Ownership, PTL

\* And a resource left behind has been reported.
THEOREM LeaksReported == ASSUME Orderly PROVE Spec => []NoSilentLeak
<1>1. OInv => NoSilentLeak
  BY DEF OInv, VmInv, Accounted, NoSilentLeak, Active
<1> QED BY <1>1, Ownership, PTL
=============================================================================
