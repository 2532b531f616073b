--------------------------- MODULE Lockspace_proofs ---------------------------
(***************************************************************************)
(* Proofs about lockman.Init, for any number of hosts, ids and retries.    *)
(*                                                                         *)
(* That ids are unique is not inductive by itself: sanlock sees to it only *)
(* for hosts that have the same lockspace file.  What is missing is that   *)
(* every host in a lockspace has the file that is in LOCK_DIR (Files), for *)
(* which in turn LOCK_DIR must not be replaced and must be there before    *)
(* anyone joins (DirMade).  What a host knows of its own id at each step   *)
(* of Init is At.                                                          *)
(*                                                                         *)
(* That "all slots busy" is true needs the slots that the search of a host *)
(* has passed so far (Seen): counted back from where it is, for the search *)
(* may begin anywhere and wraps around.                                    *)
(***************************************************************************)
EXTENDS Lockspace, TLAPS

Files == \A h \in Host : member[h] # None => member[h].file = dir

DirMade == \A h \in Host :
  pc[h] \notin {"off", "stat", "rename", "failed"} => dir \in Host

\* The host is in the lockspace under the id in lm.host_id.
Holds(h) == member[h] = [file |-> dir, id |-> host_id[h]]

At(h) ==
  /\ pc[h] \in {"off", "stat", "rename", "inq", "load"} => tries[h] = 0
  /\ pc[h] \in {"join", "scan"} => tries[h] < LOCK_JOIN_RETRIES /\ host_id[h] = lockid[h]
  /\ pc[h] = "scan" => at[h] # 0 /\ host_id[h] = 0
  /\ pc[h] = "save" => lockid[h] = 0
  /\ pc[h] = "joined" => err[h] # "nil" \/ Holds(h)
  /\ pc[h] \in {"save", "check", "up"} => Holds(h)

IInv == TypeOK /\ Files /\ DirMade /\ IdsUnique /\ MemberUsesLockid /\ \A h \in Host : At(h)

\* Init of another host than h does not move.
Others(h) ==
  \A g \in Host : g # h =>
    /\ pc'[g] = pc[g] /\ host_id'[g] = host_id[g] /\ err'[g] = err[g]
    /\ tries'[g] = tries[g] /\ at'[g] = at[g]

-----------------------------------------------------------------------------

\* Nothing is claimed of a host that is off.
LEMMA InitInv == Init => IInv
BY LockspaceAssumption
   DEF Init, IInv, TypeOK, Files, DirMade, IdsUnique, MemberUsesLockid, At, Pc, Id

\* A step of host h that changes nothing the hosts share.
LEMMA LocalStep ==
  ASSUME IInv, TypeOK', NEW h \in Host, UNCHANGED shared, Others(h), At(h)',
         pc'[h] \notin {"off", "stat", "rename", "failed"} => dir \in Host
  PROVE  IInv'
<1>1. Files' /\ IdsUnique' /\ MemberUsesLockid'
  BY DEF IInv, Files, IdsUnique, MemberUsesLockid, shared
<1>2. DirMade' BY DEF IInv, DirMade, Others, shared
<1>3. ASSUME NEW g \in Host PROVE At(g)'
  <2>1. CASE g = h BY <2>1
  <2>2. CASE g # h BY <2>2 DEF IInv, At, Holds, Others, shared
  <2> QED BY <2>1, <2>2
<1> QED BY <1>1, <1>2, <1>3 DEF IInv

\* End leaves a well-typed state in which nothing is claimed of host h.
LEMMA EndStep ==
  ASSUME IInv, NEW h \in Host, NEW label \in {"off", "failed"},
         NEW e \in {"nil", "error", "full"}, End(h, label, 0, e),
         UNCHANGED shared, faults' \in 0..MaxFaults
  PROVE  IInv'
<1>1. TypeOK'
  BY LockspaceAssumption DEF IInv, TypeOK, End, Goto, Search, shared, Pc
<1>2. Others(h) BY DEF IInv, TypeOK, Others, End, Goto, Search
<1>3. pc'[h] = label /\ tries'[h] = 0 BY DEF IInv, TypeOK, End, Goto
<1>4. At(h)' BY <1>3 DEF At
<1> QED BY <1>1, <1>2, <1>3, <1>4, LocalStep

\* After an attempt that failed nothing is claimed of host h but its id.
LEMMA NextTryStep ==
  ASSUME IInv, NEW h \in Host, pc[h] \in {"join", "scan"},
         NEW e \in {"error", "full"}, NextTry(h, e),
         UNCHANGED shared, faults' \in 0..MaxFaults
  PROVE  IInv'
<1>0. tries[h] < LOCK_JOIN_RETRIES /\ host_id[h] = lockid[h] BY DEF IInv, At
<1>1. TypeOK'
  BY <1>0, LockspaceAssumption DEF IInv, TypeOK, NextTry, Goto, Search, shared, Pc
<1>2. Others(h) BY DEF IInv, TypeOK, Others, NextTry, Goto, Search
<1>3. At(h)'
  <2>1. /\ pc'[h] = IF tries[h] + 1 = LOCK_JOIN_RETRIES THEN "joined" ELSE "join"
        /\ tries'[h] = tries[h] + 1
        /\ err'[h] = e /\ e # "nil"
        /\ host_id'[h] = host_id[h] /\ lockid'[h] = lockid[h]
    BY DEF IInv, TypeOK, NextTry, Goto, shared
  <2>2. tries[h] \in Nat BY LockspaceAssumption DEF IInv, TypeOK
  <2>3. pc'[h] = "join" => tries'[h] < LOCK_JOIN_RETRIES
    BY <1>0, <2>1, <2>2, LockspaceAssumption
  <2> QED BY <1>0, <2>1, <2>3 DEF At
<1>4. dir \in Host BY DEF IInv, DirMade
<1> QED BY <1>1, <1>2, <1>3, <1>4, LocalStep

\* add_lockspace: sanlock keeps ids of one file apart, and there is one file.
LEMMA JoinStep ==
  ASSUME IInv, NEW h \in Host, NEW n \in Id, add_lockspace(h, n), dir \in Host,
         lockid[h] \in Id => lockid[h] = n
  PROVE  /\ member'[h] = [file |-> dir, id |-> n]
         /\ \A g \in Host : g # h => member'[g] = member[g]
         /\ member' \in [Host -> [file : Host, id : Id] \cup {None}]
         /\ slot' \in [Host -> [Id -> Host \cup {None}]]
         /\ UNCHANGED <<dir, lockid>> => Files' /\ IdsUnique' /\ MemberUsesLockid'
<1>1. member' = [member EXCEPT ![h] = [file |-> dir, id |-> n]] BY DEF add_lockspace
<1>2. member'[h] = [file |-> dir, id |-> n] BY <1>1 DEF IInv, TypeOK
<1>3. \A g \in Host : g # h => member'[g] = member[g] BY <1>1 DEF IInv, TypeOK
<1>4. member' \in [Host -> [file : Host, id : Id] \cup {None}] BY <1>1 DEF IInv, TypeOK
<1>5. slot' \in [Host -> [Id -> Host \cup {None}]] BY DEF add_lockspace, IInv, TypeOK
<1>6. ASSUME UNCHANGED <<dir, lockid>> PROVE Files' /\ IdsUnique' /\ MemberUsesLockid'
  <2>1. Files' BY <1>2, <1>3, <1>6 DEF IInv, Files
  <2>2. ASSUME NEW g \in Host, g # h, member[g] # None PROVE member[g].id # n
    <3>1. member[g] \in [file : Host, id : Id] BY <2>2 DEF IInv, TypeOK
    <3>2. member[g] = [file |-> dir, id |-> member[g].id]
      BY <2>2, <3>1 DEF IInv, Files
    <3>3. member[g] # [file |-> dir, id |-> n] BY DEF add_lockspace, Alive
    <3> QED BY <3>2, <3>3
  <2>3. IdsUnique' BY <1>2, <1>3, <2>2 DEF IInv, IdsUnique
  <2>4. MemberUsesLockid' BY <1>2, <1>3, <1>6 DEF IInv, MemberUsesLockid
  <2> QED BY <2>1, <2>3, <2>4
<1> QED BY <1>2, <1>3, <1>4, <1>5, <1>6

\* What holds after a step of h that has joined the lockspace.
LEMMA JoinedStep ==
  ASSUME IInv, NEW h \in Host, NEW n \in Id, add_lockspace(h, n), dir \in Host,
         lockid[h] \in Id => lockid[h] = n, UNCHANGED <<dir, lockid>>,
         TypeOK', Others(h), At(h)'
  PROVE  IInv'
<1>1. Files' /\ IdsUnique' /\ MemberUsesLockid' BY JoinStep
<1>2. DirMade' BY DEF IInv, DirMade, Others
<1>3. ASSUME NEW g \in Host PROVE At(g)'
  <2>1. CASE g = h BY <2>1
  <2>2. CASE g # h
    <3>1. member'[g] = member[g] BY <2>2, JoinStep
    <3> QED BY <2>2, <3>1 DEF IInv, At, Holds, Others
  <2> QED BY <2>1, <2>2
<1> QED BY <1>1, <1>2, <1>3 DEF IInv

\* The cached id is the one the registry has: whoever joins with it uses its lockid.
LEMMA JoinCachedInv == ASSUME IInv, NEW h \in Host, JoinCached(h) PROVE IInv'
<1>0. pc[h] = "join" /\ host_id[h] # 0 /\ UNCHANGED <<dir, lockid>> BY DEF JoinCached
<1>1. dir \in Host BY <1>0 DEF IInv, DirMade
<1>2. host_id[h] = lockid[h] BY <1>0 DEF IInv, At
<1>3. host_id[h] \in Id BY <1>0, LockspaceAssumption DEF IInv, TypeOK, Id
<1>4. CASE add_lockspace(h, host_id[h]) /\ Goto(h, "joined")
           /\ UNCHANGED <<host_id, err, tries, search>>
  <2>1. TypeOK'
    BY <1>0, <1>1, <1>2, <1>3, <1>4, JoinStep DEF IInv, TypeOK, Goto, search, add_lockspace, Pc
  <2>2. Others(h) BY <1>4 DEF IInv, TypeOK, Others, Goto, search
  <2>3. At(h)'
    <3>1. pc'[h] = "joined" BY <1>4 DEF IInv, TypeOK, Goto
    <3>2. Holds(h)' BY <1>0, <1>1, <1>2, <1>3, <1>4, JoinStep DEF Holds
    <3> QED BY <3>1, <3>2 DEF At
  <2> QED BY <1>0, <1>1, <1>2, <1>3, <1>4, <2>1, <2>2, <2>3, JoinedStep
<1>5. CASE add_lockspace_busy(host_id[h]) /\ NextTry(h, "error")
  BY <1>0, <1>5, NextTryStep DEF add_lockspace_busy, shared, IInv, TypeOK
<1>6. CASE add_lockspace_fails /\ NextTry(h, "error")
  <2>1. UNCHANGED shared BY <1>0, <1>6 DEF add_lockspace_fails, shared
  <2>2. faults' \in 0..MaxFaults
    BY <1>6, LockspaceAssumption DEF add_lockspace_fails, Fault, IInv, TypeOK
  <2> QED BY <1>0, <1>6, <2>1, <2>2, NextTryStep
<1> QED BY <1>4, <1>5, <1>6 DEF JoinCached

\* The search joins under an id nobody else has, or goes on.
LEMMA TryNextInv == ASSUME IInv, NEW h \in Host, TryNext(h) PROVE IInv'
<1>0. pc[h] = "scan" /\ i[h] <= HOST_ID_MAX /\ UNCHANGED <<dir, lockid>> BY DEF TryNext
<1>1. dir \in Host BY <1>0 DEF IInv, DirMade
<1>2. lockid[h] = 0 BY <1>0 DEF IInv, At
<1>3. at[h] \in Id BY <1>0, LockspaceAssumption DEF IInv, TypeOK, At, Id
<1>4. CASE add_lockspace(h, at[h]) /\ FoundSlot(h)
  <2>0. lockid[h] \in Id => lockid[h] = at[h] BY <1>2 DEF Id
  <2>1. TypeOK'
    BY <1>0, <1>1, <2>0, <1>3, <1>4, JoinStep
    DEF IInv, TypeOK, FoundSlot, Goto, search, add_lockspace, Pc
  <2>2. Others(h) BY <1>4 DEF IInv, TypeOK, Others, FoundSlot, Goto, search
  <2>3. At(h)'
    <3>1. pc'[h] = "save" /\ host_id'[h] = at[h] BY <1>4 DEF IInv, TypeOK, FoundSlot, Goto
    <3>2. Holds(h)' BY <1>0, <1>1, <2>0, <1>3, <1>4, <3>1, JoinStep DEF Holds
    <3> QED BY <1>0, <1>2, <3>1, <3>2 DEF At
  <2> QED BY <1>0, <1>1, <2>0, <1>3, <1>4, <2>1, <2>2, <2>3, JoinedStep
<1>5. ASSUME NextTurn(h), UNCHANGED <<slot, member, faults>> PROVE IInv'
  <2>1. host_id_next(at[h]) \in Id BY <1>3, LockspaceAssumption DEF host_id_next, Id
  <2>2. host_id_next(at[h]) \in 0..HOST_ID_MAX /\ host_id_next(at[h]) # 0
    BY <2>1, LockspaceAssumption DEF Id
  <2>3. i[h] + 1 \in 0..(HOST_ID_MAX + 1)
    BY <1>0, LockspaceAssumption DEF IInv, TypeOK
  <2>4. TypeOK' BY <1>0, <1>5, <2>2, <2>3 DEF IInv, TypeOK, NextTurn, Search
  <2>5. Others(h) BY <1>5 DEF IInv, TypeOK, Others, NextTurn, Search
  <2>6. UNCHANGED shared BY <1>0, <1>5 DEF shared
  <2>7. At(h)'
    BY <1>0, <1>5, <2>2 DEF IInv, TypeOK, At, Holds, NextTurn, Search
  <2> QED BY <1>1, <2>4, <2>5, <2>6, <2>7, LocalStep
<1>6. CASE add_lockspace_busy(at[h]) /\ NextTurn(h) BY <1>5, <1>6 DEF add_lockspace_busy
<1>7. CASE add_lockspace_fails /\ NextTry(h, "error")
  <2>1. UNCHANGED shared BY <1>0, <1>7 DEF add_lockspace_fails, shared
  <2>2. faults' \in 0..MaxFaults
    BY <1>7, LockspaceAssumption DEF add_lockspace_fails, Fault, IInv, TypeOK
  <2> QED BY <1>0, <1>7, <2>1, <2>2, NextTryStep
<1> QED BY <1>4, <1>5, <1>6, <1>7 DEF TryNext

\* A fault is counted within its bound.
LEMMA FaultBound == ASSUME IInv, NEW kind, Fault(kind) PROVE faults' \in 0..MaxFaults
BY LockspaceAssumption DEF Fault, IInv, TypeOK

\* LOCK_DIR is made once, before anyone asks sanlock.
LEMMA LockdirInv ==
  ASSUME IInv, NEW h \in Host, Start(h) \/ StatLockdir(h) \/ RenameLockdir(h) PROVE IInv'
<1>1. CASE Start(h)
  <2>1. TypeOK' BY <1>1 DEF IInv, TypeOK, Start, Goto, shared, search, Pc
  <2>2. Others(h) BY <1>1 DEF IInv, TypeOK, Others, Start, Goto, search
  <2>3. pc'[h] = "stat" BY <1>1 DEF IInv, TypeOK, Start, Goto
  <2>4. At(h)'
    <3>1. tries'[h] = tries[h] BY <1>1 DEF Start
    <3>2. tries[h] = 0 BY <1>1 DEF Start, IInv, At
    <3> QED BY <2>3, <3>1, <3>2 DEF At
  <2> QED BY <1>1, <2>1, <2>2, <2>3, <2>4, LocalStep DEF Start
<1>2. CASE StatLockdir(h)
  <2>1. CASE Goto(h, IF dir # None THEN "inq" ELSE "rename")
             /\ UNCHANGED <<host_id, err, tries, search, faults>>
    <3>1. UNCHANGED shared BY <1>2 DEF StatLockdir
    <3>2. TypeOK' BY <2>1, <3>1 DEF IInv, TypeOK, Goto, shared, search, Pc
    <3>3. Others(h) BY <2>1 DEF IInv, TypeOK, Others, Goto, search
    <3>4. pc'[h] = IF dir # None THEN "inq" ELSE "rename" BY <2>1 DEF IInv, TypeOK, Goto
    <3>5. tries'[h] = 0 BY <1>2, <2>1 DEF StatLockdir, IInv, At
    <3>6. At(h)' BY <3>4, <3>5 DEF At
    <3>7. pc'[h] \notin {"off", "stat", "rename", "failed"} => dir \in Host
      BY <3>4 DEF IInv, TypeOK
    <3> QED BY <3>1, <3>2, <3>3, <3>6, <3>7, LocalStep
  <2>2. CASE Fault("init") /\ Fail(h, "error")
    BY <1>2, <2>2, FaultBound, EndStep DEF StatLockdir, Fail
  <2> QED BY <1>2, <2>1, <2>2 DEF StatLockdir
<1>3. CASE /\ pc[h] = "rename" /\ dir' = RenamedDir(h) /\ Goto(h, "inq")
           /\ UNCHANGED <<slot, member, lockid, host_id, err, tries, search, faults>>
  <2>0. UNCHANGED <<slot, member, lockid, host_id, err, tries, search, faults>>
    BY <1>3
  <2>1. dir' \in Host /\ (dir \in Host => dir' = dir)
    BY <1>3, LockspaceAssumption DEF RenamedDir, IInv, TypeOK
  <2>2. pc' = [pc EXCEPT ![h] = "inq"] BY <1>3 DEF Goto
  <2>3. TypeOK' BY <2>0, <2>1, <2>2 DEF IInv, TypeOK, search, Pc
  <2>4. ASSUME NEW g \in Host, member[g] # None PROVE dir \in Host
    BY <2>4, LockspaceAssumption DEF IInv, TypeOK, Files
  <2>5. Files' BY <2>0, <2>1, <2>4 DEF IInv, Files
  <2>6. IdsUnique' /\ MemberUsesLockid' BY <2>0 DEF IInv, IdsUnique, MemberUsesLockid
  <2>7. DirMade' BY <2>1 DEF DirMade
  <2>8. ASSUME NEW g \in Host PROVE At(g)'
    <3>1. CASE g = h
      <4>1. pc'[h] = "inq" BY <2>2 DEF IInv, TypeOK
      <4>2. tries'[h] = 0 BY <1>3, <2>0 DEF IInv, At
      <4> QED BY <3>1, <4>1, <4>2 DEF At
    <3>2. CASE g # h
      <4>1. pc'[g] = pc[g] BY <2>2, <3>2 DEF IInv, TypeOK
      <4>2. pc[g] \notin {"off", "stat", "rename", "failed"} => dir' = dir
        BY <2>1 DEF IInv, DirMade
      <4>3. At(g) BY DEF IInv
      <4> QED BY <2>0, <4>1, <4>2, <4>3 DEF At, Holds, search
    <3> QED BY <3>1, <3>2
  <2> QED BY <2>3, <2>5, <2>6, <2>7, <2>8 DEF IInv
<1>4. CASE Fault("init") /\ Fail(h, "error") /\ UNCHANGED shared
  BY <1>4, FaultBound, EndStep DEF Fail
<1> QED BY <1>1, <1>2, <1>3, <1>4 DEF RenameLockdir, shared

\* sanlock's own answer comes before the registry's.
LEMMA LoadInv ==
  ASSUME IInv, NEW h \in Host, InqLockspace(h) \/ Load_lockid(h) PROVE IInv'
<1>1. CASE /\ pc[h] = "inq"
           /\ host_id' = [host_id EXCEPT ![h] = lm_inq_lockspace(h)]
           /\ Goto(h, IF host_id'[h] = 0 THEN "load" ELSE "joined")
           /\ UNCHANGED <<shared, err, tries, search, faults>>
  <2>0. pc[h] = "inq" /\ UNCHANGED <<shared, err, tries, search, faults>>
    BY <1>1
  <2>1. dir \in Host /\ tries[h] = 0 BY <2>0 DEF IInv, DirMade, At
  <2>2. lm_inq_lockspace(h) \in 0..HOST_ID_MAX
    BY LockspaceAssumption DEF lm_inq_lockspace, IInv, TypeOK, Id
  <2>3. TypeOK'
    BY <1>1, <2>0, <2>2 DEF IInv, TypeOK, Goto, shared, search, Pc
  <2>4. Others(h) BY <1>1, <2>0 DEF IInv, TypeOK, Others, Goto, search
  <2>5. /\ host_id'[h] = lm_inq_lockspace(h)
        /\ pc'[h] = IF host_id'[h] = 0 THEN "load" ELSE "joined"
    BY <1>1 DEF IInv, TypeOK, Goto
  <2>6. At(h)'
    <3>1. CASE host_id'[h] = 0 BY <2>0, <2>1, <2>5, <3>1 DEF At
    <3>2. CASE host_id'[h] # 0
      <4>1. member[h] # None /\ host_id'[h] = member[h].id
        BY <2>5, <3>2 DEF lm_inq_lockspace
      <4>2. member[h] \in [file : Host, id : Id] BY <4>1 DEF IInv, TypeOK
      <4>3. member[h].file = dir BY <4>1 DEF IInv, Files
      <4>4. member[h] = [file |-> dir, id |-> host_id'[h]] BY <4>1, <4>2, <4>3
      <4>5. Holds(h)' BY <2>0, <4>4 DEF Holds, shared
      <4> QED BY <2>5, <3>2, <4>5 DEF At
    <3> QED BY <3>1, <3>2
  <2> QED BY <2>0, <2>1, <2>3, <2>4, <2>6, LocalStep
<1>2. CASE Load_lockid(h)
  <2>0. pc[h] = "load" /\ UNCHANGED <<shared, faults>> BY <1>2 DEF Load_lockid
  <2>1. CASE /\ lockid[h] # None
             /\ Goto(h, "join")
             /\ host_id' = [host_id EXCEPT ![h] = lockid[h]]
             /\ err' = [err EXCEPT ![h] = IF lockid[h] = 0 THEN "error" ELSE "nil"]
             /\ UNCHANGED <<tries, search>>
    <3>1. dir \in Host /\ tries[h] = 0 BY <2>0 DEF IInv, DirMade, At
    <3>2. lockid[h] \in 0..HOST_ID_MAX BY <2>1 DEF IInv, TypeOK
    <3>3. TypeOK' BY <2>0, <2>1, <3>2 DEF IInv, TypeOK, Goto, shared, search, Pc
    <3>4. Others(h) BY <2>1 DEF IInv, TypeOK, Others, Goto, search
    <3>5. pc'[h] = "join" /\ host_id'[h] = lockid[h] /\ tries'[h] = 0 /\ lockid' = lockid
      BY <2>0, <2>1, <3>1 DEF IInv, TypeOK, Goto, shared
    <3>6. At(h)' BY <3>5, LockspaceAssumption DEF At
    <3> QED BY <2>0, <3>1, <3>3, <3>4, <3>6, LocalStep
  <2>2. CASE lockid[h] = None /\ Fail(h, "error")
    BY <2>0, <2>2, EndStep DEF Fail, IInv, TypeOK
  <2> QED BY <1>2, <2>1, <2>2 DEF Load_lockid
<1>3. CASE Fault("sanlock") /\ Fail(h, "error") /\ UNCHANGED shared
  BY <1>3, FaultBound, EndStep DEF Fail
<1> QED BY <1>1, <1>2, <1>3 DEF InqLockspace

\* The search begins at a valid id, and ends in an attempt that failed.
LEMMA SearchInv ==
  ASSUME IInv, NEW h \in Host, (\E b \in SUBSET Id : HostStatus(h, b)) \/ GiveUp(h)
  PROVE  IInv'
<1>1. ASSUME NEW b \in SUBSET Id, HostStatus(h, b) PROVE IInv'
  <2>0. pc[h] = "join" /\ host_id[h] = 0 /\ UNCHANGED shared
    BY <1>1 DEF HostStatus
  <2>1. CASE NextTry(h, "full") /\ UNCHANGED faults
    BY <2>0, <2>1, NextTryStep DEF IInv, TypeOK
  <2>2. ASSUME NEW n \in Id, Search(h, n, 0, b), Goto(h, "scan"),
               UNCHANGED <<host_id, err, tries, faults>>
        PROVE  IInv'
    <3>1. dir \in Host /\ tries[h] < LOCK_JOIN_RETRIES /\ lockid[h] = 0
      BY <2>0 DEF IInv, DirMade, At
    <3>2. n \in 0..HOST_ID_MAX /\ n # 0 BY LockspaceAssumption DEF Id
    <3>3. TypeOK'
      BY <2>0, <2>2, <3>2, LockspaceAssumption DEF IInv, TypeOK, Goto, Search, shared, Pc
    <3>4. Others(h) BY <2>2 DEF IInv, TypeOK, Others, Goto, Search
    <3>5. pc'[h] = "scan" /\ at'[h] = n BY <2>2 DEF IInv, TypeOK, Goto, Search
    <3>6. At(h)' BY <2>0, <2>2, <3>1, <3>2, <3>5 DEF At, shared
    <3> QED BY <2>0, <3>1, <3>3, <3>4, <3>6, LocalStep
  <2>3. CASE Fault("sanlock") /\ NextTry(h, "error")
    BY <2>0, <2>3, FaultBound, NextTryStep
  <2> QED BY <1>1, <2>1, <2>2, <2>3 DEF HostStatus
<1>2. CASE GiveUp(h) BY <1>2, NextTryStep DEF GiveUp, IInv, TypeOK
<1> QED BY <1>1, <1>2

\* Save_lockid writes the id the host is in the lockspace under.
LEMMA SaveInv == ASSUME IInv, NEW h \in Host, Save_lockid(h) PROVE IInv'
<1>0. pc[h] = "save" /\ UNCHANGED <<dir, slot, member>> BY DEF Save_lockid
<1>1. Holds(h) /\ dir \in Host BY <1>0 DEF IInv, At, DirMade
<1>2. ASSUME NEW x \in 0..HOST_ID_MAX \cup {None}, lockid' = [lockid EXCEPT ![h] = x],
             x \in Id => x = host_id[h],
             TypeOK', Others(h), At(h)'
      PROVE  IInv'
  <2>1. Files' /\ IdsUnique' BY <1>0 DEF IInv, Files, IdsUnique
  <2>2. lockid'[h] = x /\ \A g \in Host : g # h => lockid'[g] = lockid[g]
    BY <1>2 DEF IInv, TypeOK
  <2>3. MemberUsesLockid' BY <1>0, <1>1, <1>2, <2>2 DEF IInv, MemberUsesLockid, Holds
  <2>4. DirMade' BY <1>0, <1>1 DEF DirMade
  <2>5. ASSUME NEW g \in Host PROVE At(g)'
    <3>1. CASE g = h BY <1>2, <3>1
    <3>2. CASE g # h
      <4>1. lockid'[g] = lockid[g] /\ member' = member /\ dir' = dir BY <1>0, <2>2, <3>2
      <4> QED BY <1>2, <3>2, <4>1 DEF IInv, At, Holds, Others
    <3> QED BY <3>1, <3>2
  <2> QED BY <1>2, <2>1, <2>3, <2>4, <2>5 DEF IInv
<1>3. CASE /\ lockid' = [lockid EXCEPT ![h] = host_id[h]]
           /\ Goto(h, "joined")
           /\ UNCHANGED <<host_id, err, tries, search, faults>>
  <2>1. host_id[h] \in 0..HOST_ID_MAX BY DEF IInv, TypeOK
  <2>2. TypeOK' BY <1>0, <1>3, <2>1 DEF IInv, TypeOK, Goto, search, Pc
  <2>3. Others(h) BY <1>3 DEF IInv, TypeOK, Others, Goto, search
  <2>4. pc'[h] = "joined" BY <1>3 DEF IInv, TypeOK, Goto
  <2>5. Holds(h)' BY <1>0, <1>1, <1>3 DEF Holds
  <2>6. At(h)' BY <2>4, <2>5 DEF At
  <2> QED BY <1>2, <1>3, <2>1, <2>2, <2>3, <2>6
<1>4. CASE Fault("save") /\ Fail(h, "error") /\ UNCHANGED lockid
  BY <1>0, <1>4, FaultBound, EndStep DEF Fail, shared
<1>5. CASE /\ Fault("crash")
           /\ lockid' = [lockid EXCEPT ![h] = None]
           /\ End(h, "off", 0, "nil")
  <2>1. faults' \in 0..MaxFaults BY <1>5, FaultBound
  <2>2. TypeOK'
    BY <1>0, <1>5, <2>1, LockspaceAssumption DEF IInv, TypeOK, End, Goto, Search, Pc
  <2>3. Others(h) BY <1>5 DEF IInv, TypeOK, Others, End, Goto, Search
  <2>4. pc'[h] = "off" /\ tries'[h] = 0 BY <1>5 DEF IInv, TypeOK, End, Goto
  <2>5. At(h)' BY <2>4 DEF At
  <2>6. None \notin Id BY LockspaceAssumption DEF Id
  <2> QED BY <1>2, <1>5, <2>2, <2>3, <2>5, <2>6
<1>6. ASSUME NEW x \in {host_id[h], None}, Fault("save"), Fail(h, "error"),
             lockid' = [lockid EXCEPT ![h] = x]
      PROVE  IInv'
  <2>1. faults' \in 0..MaxFaults BY <1>6, FaultBound
  <2>2. x \in 0..HOST_ID_MAX \cup {None} BY DEF IInv, TypeOK
  <2>3. TypeOK'
    BY <1>0, <1>6, <2>1, <2>2, LockspaceAssumption DEF IInv, TypeOK, Fail, End, Goto, Search, Pc
  <2>4. Others(h) BY <1>6 DEF IInv, TypeOK, Others, Fail, End, Goto, Search
  <2>5. pc'[h] = "failed" /\ tries'[h] = 0 BY <1>6 DEF IInv, TypeOK, Fail, End, Goto
  <2>6. At(h)' BY <2>5 DEF At
  <2>7. None \notin Id BY LockspaceAssumption DEF Id
  <2>8. x \in Id => x = host_id[h] BY <2>7
  <2> QED BY <1>2, <1>6, <2>2, <2>3, <2>4, <2>6, <2>8
<1> QED BY <1>3, <1>4, <1>5, <1>6 DEF Save_lockid

\* Without an error the host is in the lockspace.
LEMMA JoinedInv == ASSUME IInv, NEW h \in Host, Joined(h) \/ CheckInq(h) PROVE IInv'
<1>1. CASE Joined(h)
  <2>0. pc[h] = "joined" /\ UNCHANGED <<shared, faults>> BY <1>1 DEF Joined
  <2>1. CASE err[h] # "nil" /\ Fail(h, err[h])
    BY <2>0, <2>1, EndStep DEF Fail, IInv, TypeOK
  <2>2. CASE err[h] = "nil" /\ Goto(h, "check") /\ UNCHANGED <<host_id, err, tries, search>>
    <3>1. dir \in Host /\ Holds(h) BY <2>0, <2>2 DEF IInv, DirMade, At
    <3>2. TypeOK' BY <2>0, <2>2 DEF IInv, TypeOK, Goto, shared, search, Pc
    <3>3. Others(h) BY <2>2 DEF IInv, TypeOK, Others, Goto, search
    <3>4. pc'[h] = "check" BY <2>2 DEF IInv, TypeOK, Goto
    <3>5. Holds(h)' BY <2>0, <2>2, <3>1 DEF Holds, shared
    <3>6. At(h)' BY <3>4, <3>5 DEF At
    <3> QED BY <2>0, <3>1, <3>2, <3>3, <3>6, LocalStep
  <2> QED BY <1>1, <2>1, <2>2 DEF Joined
<1>2. CASE pc[h] = "check" /\ UNCHANGED <<shared, faults>> /\ End(h, "up", host_id[h], "nil")
  <2>0. pc[h] = "check" /\ UNCHANGED <<shared, faults>> /\ End(h, "up", host_id[h], "nil")
    BY <1>2
  <2>1. dir \in Host /\ Holds(h) BY <2>0 DEF IInv, DirMade, At
  <2>2. TypeOK'
    BY <2>0, LockspaceAssumption DEF IInv, TypeOK, End, Goto, Search, shared, Pc
  <2>3. Others(h) BY <2>0 DEF IInv, TypeOK, Others, End, Goto, Search
  <2>4. pc'[h] = "up" /\ host_id'[h] = host_id[h] BY <2>0 DEF IInv, TypeOK, End, Goto
  <2>5. Holds(h)' BY <2>0, <2>1, <2>4 DEF Holds, shared
  <2>6. At(h)' BY <2>4, <2>5 DEF At
  <2> QED BY <2>0, <2>1, <2>2, <2>3, <2>6, LocalStep
<1>3. CASE Fault("sanlock") /\ Fail(h, "error") /\ UNCHANGED shared
  BY <1>3, FaultBound, EndStep DEF Fail
<1> QED BY <1>1, <1>2, <1>3 DEF CheckInq

\* A host that reboots leaves its slot to others.
LEMMA RebootInv == ASSUME IInv, NEW h \in Host, Reboot(h) PROVE IInv'
<1>0. /\ member' = [member EXCEPT ![h] = None]
      /\ End(h, "off", 0, "nil")
      /\ UNCHANGED <<dir, slot, lockid>>
  BY DEF Reboot
<1>1. faults' \in 0..MaxFaults BY FaultBound DEF Reboot
<1>2. member'[h] = None /\ \A g \in Host : g # h => member'[g] = member[g]
  BY <1>0 DEF IInv, TypeOK
<1>3. TypeOK'
  BY <1>0, <1>1, LockspaceAssumption DEF IInv, TypeOK, End, Goto, Search, Pc
<1>4. Others(h) BY <1>0 DEF IInv, TypeOK, Others, End, Goto, Search
<1>5. Files' /\ IdsUnique' /\ MemberUsesLockid'
  BY <1>0, <1>2 DEF IInv, Files, IdsUnique, MemberUsesLockid
<1>6. pc'[h] = "off" /\ tries'[h] = 0 BY <1>0 DEF IInv, TypeOK, End, Goto
<1>7. DirMade' BY <1>0, <1>4, <1>6 DEF IInv, DirMade, Others
<1>8. ASSUME NEW g \in Host PROVE At(g)'
  <2>1. CASE g = h BY <1>6, <2>1 DEF At
  <2>2. CASE g # h BY <1>0, <1>2, <1>4, <2>2 DEF IInv, At, Holds, Others
  <2> QED BY <2>1, <2>2
<1> QED BY <1>3, <1>5, <1>7, <1>8 DEF IInv

\* Every step keeps the invariant.
LEMMA NextInv == IInv /\ [Next]_vars => IInv'
<1> SUFFICES ASSUME IInv, [Next]_vars PROVE IInv'
  OBVIOUS
<1>1. ASSUME NEW h \in Host, Step(h) PROVE IInv'
  <2>1. CASE Exit(h) BY <2>1, EndStep DEF Exit, IInv, TypeOK
  <2> QED BY <1>1, <2>1, LockdirInv, LoadInv, JoinCachedInv, SearchInv, TryNextInv,
             SaveInv, JoinedInv DEF Step
<1>2. ASSUME NEW h \in Host, Crash(h) PROVE IInv'
  BY <1>2, FaultBound, EndStep DEF Crash
<1>3. ASSUME NEW h \in Host, Reboot(h) PROVE IInv'
  BY <1>3, RebootInv
<1>4. CASE UNCHANGED vars
  BY <1>4 DEF vars, shared, search, IInv, TypeOK, Files, DirMade, IdsUnique,
              MemberUsesLockid, At, Holds
<1> QED BY <1>1, <1>2, <1>3, <1>4 DEF Next

-----------------------------------------------------------------------------

\* It holds throughout.
LEMMA Invariance == Spec => []IInv
BY InitInv, NextInv, PTL DEF Spec

\* lockman.Init keeps every variable to its type: the search stays within the ids
\* and the retries within their bound, for any HOST_ID_MAX and LOCK_JOIN_RETRIES.
THEOREM LockspaceTypeCorrect == Spec => []TypeOK
<1>1. IInv => TypeOK BY DEF IInv
<1> QED BY <1>1, Invariance, PTL

\* No two hosts are ever in the lockspace under one id, whatever fails and whenever
\* virtxd and hosts end and start again.
THEOREM IdsCorrect == Spec => []IdsUnique
<1>1. IInv => IdsUnique BY DEF IInv
<1> QED BY <1>1, Invariance, PTL

\* When lockman.Init returns nil, its host is in the lockspace of LOCK_DIR, under
\* the id lm.host_id has.
THEOREM UpCorrect == Spec => []UpMeansMember
<1>1. IInv => UpMeansMember BY DEF IInv, At, Holds, UpMeansMember
<1> QED BY <1>1, Invariance, PTL

\* A host with a lockid in the registry is in the lockspace under no other id.
THEOREM LockidCorrect == Spec => []MemberUsesLockid
<1>1. IInv => MemberUsesLockid BY DEF IInv
<1> QED BY <1>1, Invariance, PTL

\* One initialization of LOCK_DIR is effective: once there, it is never replaced.
THEOREM LockdirCorrect == Spec => LockdirStays
<1>1. IInv /\ [Next]_vars => [dir # None => dir' = dir]_vars
  <2> SUFFICES ASSUME Next PROVE dir # None => dir' = dir
    BY DEF vars, shared
  <2> PICK h \in Host : Step(h) \/ Crash(h) \/ Reboot(h) BY DEF Next
  <2>1. CASE RenameLockdir(h) BY <2>1 DEF RenameLockdir, RenamedDir
  <2> QED BY <2>1 DEF Step, Start, StatLockdir, InqLockspace, Load_lockid, JoinCached,
        HostStatus, TryNext, GiveUp, Save_lockid, Joined, CheckInq, Exit, Crash, Reboot, shared
<1> QED BY <1>1, Invariance, PTL DEF Spec, LockdirStays

-----------------------------------------------------------------------------
(* "all slots busy"                                                         *)

\* A host in the lockspace has written its slot.
Written == \A g \in Host : member[g] # None => slot[member[g].file][member[g].id] # None

\* The search of h has been at id m: less than a round ago, or it is there again.
Passed(h, m) == Turns(m, at[h]) \in 1..i[h] \/ (m = at[h] /\ i[h] >= HOST_ID_MAX)

Seen(h) ==
  /\ err[h] = "full" => dir \in Host /\ Taken = Id
  /\ pc[h] = "scan" => busy[h] \subseteq Taken /\ \A m \in Id : Passed(h, m) => m \in Taken

\* What makes FullOnlyIfFull inductive, beside IInv.
FInv == Written /\ \A h \in Host : Seen(h)

\* One call of host_id_next takes the search one turn on.
LEMMA TurnOn ==
  ASSUME NEW n \in Id, NEW m \in Id
  PROVE  /\ host_id_next(n) \in Id
         /\ Turns(m, n) \in 0..(HOST_ID_MAX - 1)
         /\ Turns(m, n) = 0 <=> m = n
         /\ m # host_id_next(n) => Turns(m, host_id_next(n)) = Turns(m, n) + 1
         /\ m = host_id_next(n) =>
              Turns(m, n) = HOST_ID_MAX - 1 /\ Turns(m, host_id_next(n)) = 0
BY LockspaceAssumption DEF Id, Turns, host_id_next

\* What a host that searches knows.
LEMMA ScanTypes ==
  ASSUME IInv, NEW h \in Host, pc[h] = "scan"
  PROVE  at[h] \in Id /\ dir \in Host /\ i[h] \in Nat
<1>1. at[h] # 0 /\ dir \in Host BY DEF IInv, At, DirMade
<1>2. at[h] \in 0..HOST_ID_MAX /\ i[h] \in 0..(HOST_ID_MAX + 1) BY DEF IInv, TypeOK
<1> QED BY <1>1, <1>2, LockspaceAssumption DEF Id

\* Slots stay written: add_lockspace puts a host into one.
LEMMA JoinTaken ==
  ASSUME IInv, Written, NEW h \in Host, NEW n \in Id, add_lockspace(h, n), dir \in Host,
         UNCHANGED dir
  PROVE  Written' /\ Taken \subseteq Taken'
<1>1. slot' = [slot EXCEPT ![dir][n] = h] /\ slot \in [Host -> [Id -> Host \cup {None}]]
  BY DEF add_lockspace, IInv, TypeOK
<1>2. ASSUME NEW f \in Host, NEW m \in Id, slot[f][m] # None PROVE slot'[f][m] # None
  BY <1>1, <1>2, LockspaceAssumption
<1>3. slot'[dir][n] # None BY <1>1, LockspaceAssumption
<1>4. member' = [member EXCEPT ![h] = [file |-> dir, id |-> n]] BY DEF add_lockspace
<1>5. Written'
  <2> SUFFICES ASSUME NEW g \in Host, member'[g] # None
               PROVE  slot'[member'[g].file][member'[g].id] # None
    BY DEF Written
  <2>1. CASE g = h
    <3>1. member'[g] = [file |-> dir, id |-> n] BY <1>4, <2>1 DEF IInv, TypeOK
    <3> QED BY <1>3, <3>1
  <2>2. CASE g # h
    <3>1. member'[g] = member[g] BY <1>4, <2>2 DEF IInv, TypeOK
    <3>2. member[g].file \in Host /\ member[g].id \in Id BY <3>1 DEF IInv, TypeOK
    <3> QED BY <1>2, <3>1, <3>2 DEF Written
  <2> QED BY <2>1, <2>2
<1>6. Taken \subseteq Taken' BY <1>2 DEF Taken
<1> QED BY <1>5, <1>6

\* No step frees a slot, and LOCK_DIR stays.
LEMMA TakenGrows ==
  ASSUME IInv, Written, [Next]_vars
  PROVE  Written' /\ (dir \in Host => dir' = dir /\ Taken \subseteq Taken')
<1>1. CASE UNCHANGED <<dir, slot, member>> BY <1>1 DEF Written, Taken
<1>2. ASSUME NEW h \in Host, RenameLockdir(h)
      PROVE  Written' /\ (dir \in Host => dir' = dir /\ Taken \subseteq Taken')
  BY <1>2, LockspaceAssumption DEF RenameLockdir, RenamedDir, Written, Taken
<1>3. ASSUME NEW h \in Host, Reboot(h)
      PROVE  Written' /\ (dir \in Host => dir' = dir /\ Taken \subseteq Taken')
  <2>1. UNCHANGED <<dir, slot>> /\ \A g \in Host : member'[g] \in {member[g], None}
    BY <1>3 DEF Reboot, IInv, TypeOK
  <2> QED BY <2>1 DEF Written, Taken
<1>4. ASSUME NEW h \in Host, JoinCached(h)
      PROVE  Written' /\ (dir \in Host => dir' = dir /\ Taken \subseteq Taken')
  <2>0. pc[h] = "join" /\ host_id[h] # 0 /\ dir' = dir BY <1>4 DEF JoinCached
  <2>1. host_id[h] \in Id /\ dir \in Host
    <3>1. dir \in Host /\ host_id[h] \in 0..HOST_ID_MAX BY <2>0 DEF IInv, TypeOK, DirMade
    <3> QED BY <2>0, <3>1, LockspaceAssumption DEF Id
  <2>2. CASE add_lockspace(h, host_id[h]) BY <2>0, <2>1, <2>2, JoinTaken
  <2> QED BY <1>1, <1>4, <2>0, <2>2 DEF JoinCached, add_lockspace_busy, add_lockspace_fails
<1>5. ASSUME NEW h \in Host, TryNext(h)
      PROVE  Written' /\ (dir \in Host => dir' = dir /\ Taken \subseteq Taken')
  <2>0. pc[h] = "scan" /\ dir' = dir BY <1>5 DEF TryNext
  <2>1. at[h] \in Id /\ dir \in Host BY <2>0, ScanTypes
  <2>2. CASE add_lockspace(h, at[h]) BY <2>0, <2>1, <2>2, JoinTaken
  <2> QED BY <1>1, <1>5, <2>0, <2>2 DEF TryNext, add_lockspace_busy, add_lockspace_fails
<1>6. CASE UNCHANGED vars BY <1>1, <1>6 DEF vars, shared
<1>7. ASSUME NEW h \in Host, Step(h) \/ Crash(h)
      PROVE  Written' /\ (dir \in Host => dir' = dir /\ Taken \subseteq Taken')
  BY <1>1, <1>2, <1>4, <1>5, <1>7
     DEF Step, Start, StatLockdir, InqLockspace, Load_lockid, HostStatus, GiveUp,
         Save_lockid, Joined, CheckInq, Exit, Crash, shared
<1> QED BY <1>3, <1>6, <1>7 DEF Next

\* A host that does not search after the step and has no new reason to say "full".
LEMMA PlainSeen ==
  ASSUME IInv, FInv, [Next]_vars, NEW h \in Host, pc'[h] # "scan",
         err'[h] \in {err[h], "nil", "error"}
  PROVE  Seen(h)'
<1>1. Taken \subseteq Id /\ Taken' \subseteq Id BY DEF Taken
<1>2. Seen(h) /\ (dir \in Host => dir' = dir /\ Taken \subseteq Taken') BY TakenGrows DEF FInv
<1> QED BY <1>1, <1>2 DEF Seen

\* A host that searches on, or does nothing, and a slot it has passed is written.
LEMMA SearchSeen ==
  ASSUME IInv, FInv, [Next]_vars, NEW h \in Host, pc'[h] = pc[h], err'[h] = err[h],
         busy'[h] = busy[h],
         pc[h] = "scan" => \A m \in Id : Passed(h, m)' => Passed(h, m) \/ m \in Taken
  PROVE  Seen(h)'
<1>1. Taken \subseteq Id /\ Taken' \subseteq Id BY DEF Taken
<1>2. Seen(h) /\ (dir \in Host => dir' = dir /\ Taken \subseteq Taken') BY TakenGrows DEF FInv
<1>3. pc[h] = "scan" => dir \in Host BY DEF IInv, DirMade
<1>4. err'[h] = "full" => dir' \in Host /\ Taken' = Id BY <1>1, <1>2 DEF Seen
<1>5. ASSUME pc'[h] = "scan"
      PROVE  busy'[h] \subseteq Taken' /\ \A m \in Id : Passed(h, m)' => m \in Taken'
  BY <1>2, <1>3, <1>5 DEF Seen
<1> QED BY <1>4, <1>5 DEF Seen

\* Every slot is taken when an attempt ends with "full".
LEMMA FullSeen ==
  ASSUME IInv, FInv, [Next]_vars, NEW h \in Host, dir \in Host, Taken = Id, pc'[h] # "scan"
  PROVE  Seen(h)'
<1>1. Taken' \subseteq Id BY DEF Taken
<1>2. dir' = dir /\ Taken \subseteq Taken' BY TakenGrows DEF FInv
<1> QED BY <1>1, <1>2 DEF Seen

\* The end of an attempt.
LEMMA NextTrySeen ==
  ASSUME IInv, NEW h \in Host, NEW e, NextTry(h, e)
  PROVE  pc'[h] # "scan" /\ err'[h] = e
BY DEF NextTry, Goto, IInv, TypeOK

\* A turn of the search.
LEMMA TryNextSeen ==
  ASSUME IInv, FInv, [Next]_vars, NEW h \in Host, TryNext(h)
  PROVE  Seen(h)'
<1>1. at[h] \in Id /\ dir \in Host /\ pc[h] = "scan" /\ i[h] \in Nat
  BY ScanTypes DEF TryNext
<1>2. ASSUME NextTurn(h), at[h] \in Taken PROVE Seen(h)'
  <2>1. /\ at'[h] = host_id_next(at[h]) /\ i'[h] = i[h] + 1 /\ busy'[h] = busy[h]
        /\ pc'[h] = pc[h] /\ err'[h] = err[h]
    BY <1>2 DEF NextTurn, Search, IInv, TypeOK
  <2>2. ASSUME NEW m \in Id, Passed(h, m)', m # at[h] PROVE Passed(h, m)
    <3>0. Turns(m, at[h]) \in 0..(HOST_ID_MAX - 1) /\ Turns(m, at[h]) # 0
      BY <1>1, <2>2, TurnOn
    <3>1. Turns(m, at[h]) \in 1..(HOST_ID_MAX - 1) BY <3>0, LockspaceAssumption
    <3>2. CASE m = host_id_next(at[h])
      <4>1. Turns(m, at'[h]) = 0 /\ Turns(m, at[h]) = HOST_ID_MAX - 1
        BY <1>1, <2>1, <3>2, TurnOn
      <4>2. i[h] + 1 >= HOST_ID_MAX BY <2>1, <2>2, <4>1 DEF Passed
      <4> QED BY <1>1, <3>1, <4>1, <4>2, LockspaceAssumption DEF Passed
    <3>3. CASE m # host_id_next(at[h])
      <4>1. Turns(m, at'[h]) = Turns(m, at[h]) + 1 BY <1>1, <2>1, <3>3, TurnOn
      <4>2. Turns(m, at'[h]) \in 1..(i[h] + 1) BY <2>1, <2>2, <3>3 DEF Passed
      <4> QED BY <1>1, <3>1, <4>1, <4>2, LockspaceAssumption DEF Passed
    <3> QED BY <3>2, <3>3
  <2> QED BY <1>2, <2>1, <2>2, SearchSeen
<1>3. CASE add_lockspace(h, at[h]) /\ FoundSlot(h)
  BY <1>3, PlainSeen DEF FoundSlot, Goto, IInv, TypeOK
<1>4. CASE at[h] \in busy[h] /\ NextTurn(h) BY <1>1, <1>2, <1>4 DEF FInv, Seen
<1>5. CASE add_lockspace_busy(at[h]) /\ NextTurn(h)
  <2>1. PICK g \in Host : member[g] = [file |-> dir, id |-> at[h]]
    BY <1>5 DEF add_lockspace_busy, Alive
  <2>2. member[g] # None BY <1>1, <2>1, LockspaceAssumption
  <2>3. slot[dir][at[h]] # None BY <2>1, <2>2 DEF FInv, Written
  <2> QED BY <1>1, <1>2, <1>5, <2>3 DEF Taken
<1>6. CASE add_lockspace_fails /\ NextTry(h, "error")
  BY <1>6, NextTrySeen, PlainSeen
<1> QED BY <1>3, <1>4, <1>5, <1>6 DEF TryNext

\* A search that gives up has passed every id.
LEMMA GiveUpSeen ==
  ASSUME IInv, FInv, [Next]_vars, NEW h \in Host, GiveUp(h)
  PROVE  Seen(h)'
<1>1. at[h] \in Id /\ dir \in Host /\ pc[h] = "scan" /\ i[h] \in Nat /\ i[h] > HOST_ID_MAX
  BY ScanTypes DEF GiveUp
<1>2. ASSUME NEW m \in Id PROVE Passed(h, m)
  <2>1. CASE m = at[h] BY <1>1, <2>1, LockspaceAssumption DEF Passed
  <2>2. CASE m # at[h]
    <3>0. Turns(m, at[h]) \in 0..(HOST_ID_MAX - 1) /\ Turns(m, at[h]) # 0
      BY <1>1, <2>2, TurnOn
    <3>1. Turns(m, at[h]) \in 1..(HOST_ID_MAX - 1) BY <3>0, LockspaceAssumption
    <3> QED BY <1>1, <3>1, LockspaceAssumption DEF Passed
  <2> QED BY <2>1, <2>2
<1>3. Taken = Id BY <1>1, <1>2 DEF FInv, Seen, Taken
<1> QED BY <1>1, <1>3, NextTrySeen, FullSeen DEF GiveUp

\* host_status lists nothing but slots that are written, and all of them or the search
\* begins.
LEMMA HostStatusSeen ==
  ASSUME IInv, FInv, [Next]_vars, NEW h \in Host, NEW b \in SUBSET Id, HostStatus(h, b)
  PROVE  Seen(h)'
<1>1. /\ dir \in Host /\ b \subseteq Taken /\ UNCHANGED shared
      /\ err[h] = "full" => Taken = Id
  BY DEF HostStatus, IInv, DirMade, FInv, Seen
<1>2. CASE b = Id /\ NextTry(h, "full")
  <2>1. Taken = Id BY <1>1, <1>2 DEF Taken
  <2> QED BY <1>1, <1>2, <2>1, NextTrySeen, FullSeen
<1>3. ASSUME NEW n \in Id, Search(h, n, 0, b), UNCHANGED err PROVE Seen(h)'
  <2>1. at'[h] = n /\ i'[h] = 0 /\ busy'[h] = b BY <1>3 DEF Search, IInv, TypeOK
  <2>2. Taken' = Taken /\ dir' = dir BY <1>1 DEF Taken, shared
  <2>3. \A m \in Id : ~Passed(h, m)' BY <2>1, LockspaceAssumption DEF Passed
  <2> QED BY <1>1, <1>3, <2>1, <2>2, <2>3 DEF Seen
<1>4. CASE NextTry(h, "error") BY <1>4, NextTrySeen, PlainSeen
<1> QED BY <1>2, <1>3, <1>4 DEF HostStatus

\* The end of Init, with the error it has or without one.
LEMMA EndSeen ==
  ASSUME IInv, FInv, [Next]_vars, NEW h \in Host, NEW label \in {"off", "failed", "up"}, NEW id,
         NEW e \in {err[h], "nil", "error"}, End(h, label, id, e)
  PROVE  Seen(h)'
<1>1. pc'[h] = label /\ err'[h] = e BY DEF End, Goto, IInv, TypeOK
<1> QED BY <1>1, PlainSeen

\* Other steps on the way.
LEMMA GotoSeen ==
  ASSUME IInv, FInv, [Next]_vars, NEW h \in Host, NEW label, label # "scan", Goto(h, label),
         err'[h] \in {err[h], "nil", "error"}
  PROVE  Seen(h)'
<1>1. pc'[h] = label BY DEF Goto, IInv, TypeOK
<1> QED BY <1>1, PlainSeen

\* A step of h keeps what is known of h.
LEMMA StepSeen ==
  ASSUME IInv, FInv, [Next]_vars, NEW h \in Host, Step(h) \/ Crash(h) \/ Reboot(h)
  PROVE  Seen(h)'
<1>1. CASE \/ \E n, l : l \in {"off", "failed", "up"} /\ End(h, l, n, "nil")
           \/ \E n : End(h, "failed", n, "error")
  BY <1>1, EndSeen
<1>2. CASE Start(h) \/ StatLockdir(h) \/ RenameLockdir(h)
  BY <1>1, <1>2, GotoSeen DEF Start, StatLockdir, RenameLockdir, Fail
<1>3. CASE InqLockspace(h) \/ Load_lockid(h)
  <2>1. CASE Goto(h, "load") \/ Goto(h, "joined") \/ Goto(h, "join")
    <3>1. err'[h] \in {err[h], "nil", "error"}
      BY <1>3, <2>1 DEF InqLockspace, Load_lockid, Fail, End, IInv, TypeOK
    <3> QED BY <2>1, <3>1, GotoSeen
  <2> QED BY <1>1, <1>3, <2>1 DEF InqLockspace, Load_lockid, Fail
<1>4. CASE JoinCached(h)
  BY <1>4, NextTrySeen, GotoSeen, PlainSeen DEF JoinCached
<1>5. CASE Save_lockid(h) BY <1>1, <1>5, GotoSeen DEF Save_lockid, Fail
<1>6. CASE Joined(h) BY <1>6, GotoSeen, EndSeen DEF Joined, Fail
<1>7. CASE CheckInq(h) \/ Exit(h) \/ Crash(h) \/ Reboot(h)
  BY <1>1, <1>7 DEF CheckInq, Exit, Crash, Reboot, Fail
<1> QED BY <1>2, <1>3, <1>4, <1>5, <1>6, <1>7, TryNextSeen, GiveUpSeen, HostStatusSeen DEF Step

\* Only the host that takes a step moves.
LEMMA OthersStay ==
  ASSUME IInv, NEW h \in Host, Step(h) \/ Crash(h) \/ Reboot(h), NEW g \in Host, g # h
  PROVE  pc'[g] = pc[g] /\ err'[g] = err[g] /\ at'[g] = at[g] /\ i'[g] = i[g] /\ busy'[g] = busy[g]
<1>1. CASE Start(h) \/ StatLockdir(h) \/ RenameLockdir(h) \/ InqLockspace(h) \/ Load_lockid(h)
  BY <1>1 DEF Start, StatLockdir, RenameLockdir, InqLockspace, Load_lockid, Fail, End, Goto,
              Search, search, IInv, TypeOK
<1>2. CASE JoinCached(h) \/ TryNext(h) \/ GiveUp(h)
  BY <1>2 DEF JoinCached, TryNext, GiveUp, NextTry, NextTurn, FoundSlot, Goto, Search, search,
              IInv, TypeOK
<1>3. CASE \E b \in SUBSET Id : HostStatus(h, b)
  BY <1>3 DEF HostStatus, NextTry, Goto, Search, IInv, TypeOK
<1>4. CASE Save_lockid(h) \/ Joined(h) \/ CheckInq(h) \/ Exit(h) \/ Crash(h) \/ Reboot(h)
  BY <1>4 DEF Save_lockid, Joined, CheckInq, Exit, Crash, Reboot, Fail, End, Goto, Search,
              search, IInv, TypeOK
<1> QED BY <1>1, <1>2, <1>3, <1>4 DEF Step

\* FInv is inductive.
LEMMA FullInv == ASSUME IInv, FInv, [Next]_vars PROVE FInv'
<1>1. Written' BY TakenGrows DEF FInv
<1>2. ASSUME NEW g \in Host PROVE Seen(g)'
  <2>1. CASE UNCHANGED vars
    BY <2>1, SearchSeen DEF vars, search, Passed
  <2>2. CASE Next
    <3>1. PICK h \in Host : Step(h) \/ Crash(h) \/ Reboot(h) BY <2>2 DEF Next
    <3>2. CASE g = h BY <3>1, <3>2, StepSeen
    <3>3. CASE g # h BY <3>1, <3>3, OthersStay, SearchSeen DEF Passed
    <3> QED BY <3>2, <3>3
  <2> QED BY <2>1, <2>2
<1> QED BY <1>1, <1>2 DEF FInv

\* lm_search_join_lockspace reports "all slots busy" only when every slot of the file in
\* LOCK_DIR is written, for any HOST_ID_MAX, wherever the search began and wrapped
\* around, and whoever took and left slots meanwhile.
THEOREM FullCorrect == Spec => []FullOnlyIfFull
<1>1. Init => FInv BY LockspaceAssumption DEF Init, FInv, Written, Seen
<1>2. IInv /\ FInv => FullOnlyIfFull BY DEF FInv, Seen, FullOnlyIfFull
<1> QED BY <1>1, <1>2, Invariance, FullInv, PTL DEF Spec
=============================================================================
