------------------------------ MODULE Lockspace ------------------------------
(***************************************************************************)
(* lockman.Init: how the virtxd of every host enters the one sanlock       *)
(* lockspace of the cluster, under a host id of its own, when all of them  *)
(* may start at once, fail, and start again.                               *)
(*                                                                         *)
(* The lockspace file lives in LOCK_DIR on shared storage.  The first host *)
(* prepares it in a temporary directory and renames that into place.  The  *)
(* sanlock daemon of a host, which outlives virtxd, holds the host's slot  *)
(* in the file.  The id found is kept in the registry (pkg/vmreg).         *)
(*                                                                         *)
(* A lockspace file is known by the host that prepared it, so that hosts   *)
(* in two different files of one path are told apart.                      *)
(***************************************************************************)
EXTENDS Integers

CONSTANTS
  Host,
  HOST_ID_MAX,        \* ids 1..HOST_ID_MAX are valid
  Hash,               \* Hash[h]: the id the md5 of h's uuid gives
  LOCK_JOIN_RETRIES,
  FaultKinds,         \* the faults that may happen
  MaxFaults,          \* and how many
  None

Id == 1..HOST_ID_MAX

ASSUME LockspaceAssumption ==
  /\ None \notin Host \cup Nat /\ None \notin [file : Host, id : Id]
  /\ HOST_ID_MAX \in Nat \ {0}
  /\ LOCK_JOIN_RETRIES \in Nat \ {0}
  /\ Hash \in [Host -> Id]
  /\ FaultKinds \subseteq {"init", "sanlock", "save", "crash", "reboot"}
  /\ MaxFaults \in Nat

VARIABLES
  dir,      \* the lockspace file in LOCK_DIR, by its maker, or None
  slot,     \* slot[f][i]: the host that has written slot i of file f, or None
  member,   \* member[h]: file and id the sanlock daemon of h has joined, or None
  lockid,   \* lockid[h]: the id in the registry; 0: no file, None: an empty file
  pc,       \* pc[h]: where Init of host h is
  host_id,  \* host_id[h]: lm.host_id
  err,      \* err[h]: its err, left over from one step to the next
  tries,    \* tries[h]: its loop counter
  at, i,    \* at[h], i[h]: host_id and i of lm_search_join_lockspace
  busy,     \* busy[h]: its busy_ids
  faults

shared == <<dir, slot, member, lockid>>
search == <<at, i, busy>>
vars == <<shared, pc, host_id, err, tries, search, faults>>

Pc == {"off", "stat", "rename", "inq", "load", "join", "scan", "save",
       "joined", "check", "up", "failed"}

Init ==
  /\ dir = None
  /\ slot = [f \in Host |-> [n \in Id |-> None]]
  /\ member = [h \in Host |-> None]
  /\ lockid = [h \in Host |-> 0]
  /\ pc = [h \in Host |-> "off"]
  /\ host_id = [h \in Host |-> 0]
  /\ err = [h \in Host |-> "nil"]
  /\ tries = [h \in Host |-> 0]
  /\ at = [h \in Host |-> 0]
  /\ i = [h \in Host |-> 0]
  /\ busy = [h \in Host |-> {}]
  /\ faults = 0

Fault(kind) ==
  /\ kind \in FaultKinds
  /\ faults < MaxFaults
  /\ faults' = faults + 1

Goto(h, label) == pc' = [pc EXCEPT ![h] = label]

\* The search is at id n in its turn t, and has seen the ids in b as busy.
Search(h, n, t, b) ==
  /\ at' = [at EXCEPT ![h] = n]
  /\ i' = [i EXCEPT ![h] = t]
  /\ busy' = [busy EXCEPT ![h] = b]

\* Init is over, or its virtxd is: local variables are gone.
End(h, label, id, e) ==
  /\ Goto(h, label)
  /\ host_id' = [host_id EXCEPT ![h] = id]
  /\ err' = [err EXCEPT ![h] = e]
  /\ tries' = [tries EXCEPT ![h] = 0]
  /\ Search(h, 0, 0, {})

Fail(h, e) == End(h, "failed", 0, e)

-----------------------------------------------------------------------------
(* sanlock, as the code uses it                                             *)

\* The id slots written in the file in place.
Taken == {n \in Id : slot[dir][n] # None}

\* The host that renews slot n of the file in place, if any does.
Alive(n) == {g \in Host : member[g] = [file |-> dir, id |-> n]}

\* add_lockspace returns 0: the slot is free, or was h's, or its owner is gone.
add_lockspace(h, n) ==
  /\ member[h] = None
  /\ Alive(n) = {}
  /\ slot' = [slot EXCEPT ![dir][n] = h]
  /\ member' = [member EXCEPT ![h] = [file |-> dir, id |-> n]]
  /\ UNCHANGED faults

\* It returns SANLK_HOSTID_BUSY.
add_lockspace_busy(n) ==
  /\ Alive(n) # {}
  /\ UNCHANGED <<slot, member, faults>>

\* It returns another code.
add_lockspace_fails ==
  /\ Fault("sanlock")
  /\ UNCHANGED <<slot, member>>

-----------------------------------------------------------------------------
(* lm_init_lockdir                                                          *)

Start(h) ==
  /\ pc[h] = "off"
  /\ Goto(h, "stat")
  /\ UNCHANGED <<shared, host_id, err, tries, search, faults>>

\* The directory is there, or a temporary one is prepared.
StatLockdir(h) ==
  /\ pc[h] = "stat"
  /\ \/ /\ Goto(h, IF dir # None THEN "inq" ELSE "rename")
        /\ UNCHANGED <<host_id, err, tries, search, faults>>
     \/ Fault("init") /\ Fail(h, "error")
  /\ UNCHANGED shared

\* A variant of RenamedDir: the temporary directory is still empty when renamed, and
\* one that is there is replaced.
ReplacedDir(h) == h

\* rename fails on a directory that is not empty: then another host was quicker,
\* and the temporary one is removed.
RenamedDir(h) == IF dir = None THEN h ELSE dir

RenameLockdir(h) ==
  /\ pc[h] = "rename"
  /\ \/ /\ dir' = RenamedDir(h)
        /\ Goto(h, "inq")
        /\ UNCHANGED <<host_id, err, tries, search, faults>>
     \/ /\ Fault("init")
        /\ Fail(h, "error")
        /\ UNCHANGED dir
  /\ UNCHANGED <<slot, member, lockid>>

-----------------------------------------------------------------------------
(* Init, the search and the join                                            *)

lm_inq_lockspace(h) == IF member[h] = None THEN 0 ELSE member[h].id

InqLockspace(h) ==
  /\ pc[h] = "inq"
  /\ \/ /\ host_id' = [host_id EXCEPT ![h] = lm_inq_lockspace(h)]
        /\ Goto(h, IF host_id'[h] = 0 THEN "load" ELSE "joined")
        /\ UNCHANGED <<err, tries, search, faults>>
     \/ Fault("sanlock") /\ Fail(h, "error")
  /\ UNCHANGED shared

\* A variant of Load_lockid: the id in the registry is not used.
Load_no_lockid(h) ==
  /\ pc[h] = "load"
  /\ Goto(h, "join")
  /\ UNCHANGED <<shared, host_id, err, tries, search, faults>>

\* That there is no cached id leaves an error in err; that it cannot be parsed is
\* the end of Init.
Load_lockid(h) ==
  /\ pc[h] = "load"
  /\ \/ /\ lockid[h] # None
        /\ Goto(h, "join")
        /\ host_id' = [host_id EXCEPT ![h] = lockid[h]]
        /\ err' = [err EXCEPT ![h] = IF lockid[h] = 0 THEN "error" ELSE "nil"]
        /\ UNCHANGED <<tries, search>>
     \/ lockid[h] = None /\ Fail(h, "error")
  /\ UNCHANGED <<shared, faults>>

\* An attempt failed with error e: the next one, or the end of the loop.
NextTry(h, e) ==
  /\ Goto(h, IF tries[h] + 1 = LOCK_JOIN_RETRIES THEN "joined" ELSE "join")
  /\ tries' = [tries EXCEPT ![h] = @ + 1]
  /\ err' = [err EXCEPT ![h] = e]
  /\ Search(h, 0, 0, {})
  /\ UNCHANGED host_id

\* What breaks out of the loop leaves err as it was.
JoinCached(h) ==
  /\ pc[h] = "join" /\ host_id[h] # 0
  /\ \/ /\ add_lockspace(h, host_id[h])
        /\ Goto(h, "joined")
        /\ UNCHANGED <<host_id, err, tries, search>>
     \/ add_lockspace_busy(host_id[h]) /\ NextTry(h, "error")
     \/ add_lockspace_fails /\ NextTry(h, "error")
  /\ UNCHANGED <<dir, lockid>>

host_id_next(n) == IF n + 1 > HOST_ID_MAX THEN 1 ELSE n + 1

\* How many calls of host_id_next lead from id n to id m.
Turns(n, m) == IF m >= n THEN m - n ELSE m + HOST_ID_MAX - n

\* linear search1: n is the first id from start on that is not in b.
FirstFree(start, b, n) ==
  n \notin b /\ \A m \in Id \ b : Turns(start, n) <= Turns(start, m)

\* host_status: the daemon knows of some of the slots written, at best of all.
HostStatus(h, b) ==
  /\ pc[h] = "join" /\ host_id[h] = 0
  /\ b \subseteq Taken
  /\ \/ b = Id /\ NextTry(h, "full") /\ UNCHANGED faults
     \/ /\ \E n \in Id : FirstFree(Hash[h], b, n) /\ Search(h, n, 0, b)
        /\ Goto(h, "scan")
        /\ UNCHANGED <<host_id, err, tries, faults>>
     \/ Fault("sanlock") /\ NextTry(h, "error")
  /\ UNCHANGED shared

NextTurn(h) ==
  /\ Search(h, host_id_next(at[h]), i[h] + 1, busy[h])
  /\ UNCHANGED <<pc, host_id, err, tries>>

FoundSlot(h) ==
  /\ Goto(h, "save")
  /\ host_id' = [host_id EXCEPT ![h] = at[h]]
  /\ err' = [err EXCEPT ![h] = "nil"]
  /\ UNCHANGED <<tries, search>>

\* A variant of TryNext: every error code ends the search, SANLK_HOSTID_BUSY too.
TryOnce(h) ==
  /\ pc[h] = "scan" /\ i[h] <= HOST_ID_MAX
  /\ \/ at[h] \in busy[h] /\ NextTurn(h) /\ UNCHANGED <<slot, member, faults>>
     \/ /\ at[h] \notin busy[h]
        /\ \/ add_lockspace(h, at[h]) /\ FoundSlot(h)
           \/ add_lockspace_busy(at[h]) /\ NextTry(h, "error")
  /\ UNCHANGED <<dir, lockid>>

\* One turn of the second loop.
TryNext(h) ==
  /\ pc[h] = "scan" /\ i[h] <= HOST_ID_MAX
  /\ \/ at[h] \in busy[h] /\ NextTurn(h) /\ UNCHANGED <<slot, member, faults>>
     \/ /\ at[h] \notin busy[h]
        /\ \/ add_lockspace(h, at[h]) /\ FoundSlot(h)
           \/ add_lockspace_busy(at[h]) /\ NextTurn(h)
           \/ add_lockspace_fails /\ NextTry(h, "error")
  /\ UNCHANGED <<dir, lockid>>

\* A variant of GiveUp: after one turn too few.
GiveUpEarly(h) ==
  /\ pc[h] = "scan" /\ i[h] + 1 >= HOST_ID_MAX
  /\ NextTry(h, "full")
  /\ UNCHANGED <<shared, faults>>

GiveUp(h) ==
  /\ pc[h] = "scan" /\ i[h] > HOST_ID_MAX
  /\ NextTry(h, "full")
  /\ UNCHANGED <<shared, faults>>

\* The file is truncated, written and synced, and each of these may fail or be the
\* last thing virtxd does.
Save_lockid(h) ==
  /\ pc[h] = "save"
  /\ \/ /\ lockid' = [lockid EXCEPT ![h] = host_id[h]]
        /\ Goto(h, "joined")
        /\ UNCHANGED <<host_id, err, tries, search, faults>>
     \/ /\ Fault("save")
        /\ Fail(h, "error")
        /\ \/ UNCHANGED lockid
           \/ \E x \in {host_id[h], None} : lockid' = [lockid EXCEPT ![h] = x]
     \/ /\ Fault("crash")
        /\ lockid' = [lockid EXCEPT ![h] = None]
        /\ End(h, "off", 0, "nil")
  /\ UNCHANGED <<dir, slot, member>>

\* A variant of Joined: the error is forgotten.
JoinedAnyway(h) ==
  /\ pc[h] = "joined"
  /\ Goto(h, "check")
  /\ UNCHANGED <<shared, host_id, err, tries, search, faults>>

\* After the loop: an error left in err ends Init.
Joined(h) ==
  /\ pc[h] = "joined"
  /\ \/ err[h] # "nil" /\ Fail(h, err[h])
     \/ /\ err[h] = "nil"
        /\ Goto(h, "check")
        /\ UNCHANGED <<host_id, err, tries, search>>
  /\ UNCHANGED <<shared, faults>>

\* The last loop only asks whether sanlock answers, in one of several tries.
CheckInq(h) ==
  /\ pc[h] = "check"
  /\ \/ End(h, "up", host_id[h], "nil") /\ UNCHANGED faults
     \/ Fault("sanlock") /\ Fail(h, "error")
  /\ UNCHANGED shared

-----------------------------------------------------------------------------

\* virtxd ends after a failed Init.
Exit(h) ==
  /\ pc[h] = "failed"
  /\ End(h, "off", 0, "nil")
  /\ UNCHANGED <<shared, faults>>

\* virtxd ends at any time; sanlock goes on.
Crash(h) ==
  /\ Fault("crash")
  /\ pc[h] # "off"
  /\ End(h, "off", 0, "nil")
  /\ UNCHANGED shared

\* The host ends: its slot is no longer renewed.
Reboot(h) ==
  /\ Fault("reboot")
  /\ member' = [member EXCEPT ![h] = None]
  /\ End(h, "off", 0, "nil")
  /\ UNCHANGED <<dir, slot, lockid>>

Step(h) ==
  \/ Start(h) \/ StatLockdir(h) \/ RenameLockdir(h)
  \/ InqLockspace(h) \/ Load_lockid(h) \/ JoinCached(h)
  \/ \E b \in SUBSET Id : HostStatus(h, b)
  \/ TryNext(h) \/ GiveUp(h) \/ Save_lockid(h) \/ Joined(h) \/ CheckInq(h)
  \/ Exit(h)

Next == \E h \in Host : Step(h) \/ Crash(h) \/ Reboot(h)

Spec == Init /\ [][Next]_vars

\* Every virtxd is started, and started again when it has failed, and goes on.
FairSpec == Spec /\ \A h \in Host : WF_vars(Step(h))

-----------------------------------------------------------------------------

\* Every variable has the values its declaration says.
TypeOK ==
  /\ dir \in Host \cup {None}
  /\ slot \in [Host -> [Id -> Host \cup {None}]]
  /\ member \in [Host -> [file : Host, id : Id] \cup {None}]
  /\ lockid \in [Host -> 0..HOST_ID_MAX \cup {None}]
  /\ pc \in [Host -> Pc]
  /\ host_id \in [Host -> 0..HOST_ID_MAX]
  /\ err \in [Host -> {"nil", "error", "full"}]
  /\ tries \in [Host -> 0..LOCK_JOIN_RETRIES]
  /\ at \in [Host -> 0..HOST_ID_MAX]
  /\ i \in [Host -> 0..(HOST_ID_MAX + 1)]
  /\ busy \in [Host -> SUBSET Id]
  /\ faults \in 0..MaxFaults

\* No two hosts are in the lockspace under one id, even while several of them are
\* making LOCK_DIR: leases taken by one would not hold against the other.
IdsUnique ==
  \A g, h \in Host : g # h /\ member[g] # None /\ member[h] # None => member[g].id # member[h].id

\* lm_init_lockdir: "the non-empty temporary dir and the rename are used to
\* guarantee one unique concurrent initialization is effective".
LockdirStays == [][dir # None => dir' = dir]_vars

\* Init returns nil only on a host that is in the lockspace of LOCK_DIR, under the
\* id that lm.host_id has and later virtxd of this host will find.
UpMeansMember ==
  \A h \in Host : pc[h] = "up" => member[h] = [file |-> dir, id |-> host_id[h]]

\* lm_search_join_lockspace says "all slots busy" only if all slots are written:
\* neither of its two loops overlooks one where host_id_next wraps around.
FullOnlyIfFull == \A h \in Host : err[h] = "full" => Taken = Id

\* "host_id is coming from cache, so we only try this static slot": a host with a
\* lockid in the registry is in the lockspace under that id or not at all.
MemberUsesLockid ==
  \A h \in Host : lockid[h] \in Id /\ member[h] # None => member[h].id = lockid[h]

\* There are as many ids as hosts: every host gets into the lockspace in the end and
\* stays, whichever of them make LOCK_DIR and search at the same time, as long as
\* nothing has failed.
EveryHostUp == \A h \in Host : <>[](pc[h] = "up" \/ faults > 0)

\* "break /* SUCCESS! */": an Init that leaves its loop in the lockspace leaves it
\* without an error, whatever became of the attempts before.
SuccessIsSuccess ==
  \A h \in Host : pc[h] = "joined" /\ member[h] # None => err[h] = "nil"
=============================================================================
