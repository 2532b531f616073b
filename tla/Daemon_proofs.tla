---------------------------- MODULE Daemon_proofs ----------------------------
(***************************************************************************)
(* What Daemon promises, proved for channels of any size and any time that *)
(* Wait_system_info may take.                                              *)
(*                                                                         *)
(*   InfoInv   at which places of the loop there has been a snapshot;      *)
(*   LockInv   those who wait for room in a channel exclude each other and *)
(*             Shutdown, and the channels are closed between Shutdown and  *)
(*             the end;                                                    *)
(*   ConnInv   the connection and the registration of lifecycle_cb, seen   *)
(*             from main and from the loop.                                *)
(***************************************************************************)
EXTENDS Daemon, TLAPS

\* All actions, named once.
LEMMA Steps ==
  ASSUME Next
  PROVE  \/ MainConnect \/ Wait_system_info \/ LockmanInit \/ SerfConnect \/ Stop
         \/ VirtxShutdown \/ SerfShutdown \/ HypervisorShutdown \/ Return
         \/ LibvirtFails \/ Unseen \/ Event \/ CallbackLocked \/ CallbackSend
         \/ LoopStarts \/ system_info_get \/ check_vmreg \/ set_system_info_loop_done
         \/ LoopSend \/ delete_ghosts \/ GhostSend \/ Tick \/ Sleep \/ Reconnect
         \/ send_system_info \/ send_vm_events \/ SerfFails \/ StreamEnded \/ SerfReconnect
BY DEF Next, MainStep, CallbackStep, LoopStep, CommStep

\* hv.conn and the flags beside it.
TypesOfHyper ==
  /\ conn \in {"nil", "open", "broken"} /\ registered \in BOOLEAN
  /\ uuid \in BOOLEAN /\ si \in BOOLEAN /\ done \in BOOLEAN

\* serfcomm, the VM and the inventory.
TypesOfComm ==
  serf \in {"nil", "up", "dead"} /\ sending \in BOOLEAN /\ vm \in BOOLEAN /\ shown \in BOOLEAN

\* lifecycle_cb and what else is left.
TypesOfRest ==
  /\ cb \in {"idle", "event", "info", "send event", "send info", "stuck"}
  /\ partial \in BOOLEAN /\ panic \in BOOLEAN

\* The two channels.
TypesOfChannels ==
  /\ vm_ch \in Seq({"state", "deleted"}) /\ Len(vm_ch) <= CAP
  /\ si_ch \in Seq(Info) /\ Len(si_ch) <= CAP
  /\ chans \in {"open", "closed"}

\* main and the loop; main waits only while it has time left.
TypesOfMain ==
  /\ main \in Main /\ polls \in 0..POLLS /\ (main \in {"connect", "wait"} => polls # 0)
  /\ loop \in Loop /\ first \in BOOLEAN /\ snap \in Info

\* The type invariant and what makes it inductive.
TInv == TypesOfMain /\ TypesOfHyper /\ TypesOfComm /\ TypesOfRest /\ TypesOfChannels

\* The initial state has the types.
LEMMA InitTypes == Init => TInv
<1> SUFFICES ASSUME Init PROVE TInv OBVIOUS
<1>1. TypesOfMain BY DaemonAssumption DEF Init, TypesOfMain, Main, Loop, Info
<1>2. TypesOfHyper /\ TypesOfComm /\ TypesOfRest
  BY DEF Init, TypesOfHyper, TypesOfComm, TypesOfRest
<1>3. TypesOfChannels BY DaemonAssumption DEF Init, TypesOfChannels
<1> QED BY <1>1, <1>2, <1>3 DEF TInv

\* A message put into the first of two channels.
LEMMA PutTypes ==
  ASSUME NEW S, NEW ch \in Seq(S), Len(ch) <= CAP, NEW m \in S, Len(ch) < CAP
  PROVE  Append(ch, m) \in Seq(S) /\ Len(Append(ch, m)) <= CAP
BY DaemonAssumption

\* The first message of a channel is taken.
LEMMA TailTypes ==
  ASSUME NEW S, NEW ch \in Seq(S), Len(ch) <= CAP, ch # <<>>
  PROVE  Tail(ch) \in Seq(S) /\ Len(Tail(ch)) <= CAP
BY DaemonAssumption

\* Steps keep the types of main and the loop.
LEMMA StepMain == ASSUME TInv, [Next]_vars PROVE TypesOfMain'
<1> USE DEF TInv, TypesOfMain, Main, Loop, Info
<1>1. CASE UNCHANGED vars BY <1>1 DEF vars, looping
<1>2. CASE MainConnect \/ LockmanInit \/ SerfConnect \/ Stop \/ VirtxShutdown \/ SerfShutdown
           \/ HypervisorShutdown \/ Return
  BY <1>2 DEF MainConnect, LockmanInit, SerfConnect, Stop, VirtxShutdown, SerfShutdown,
              HypervisorShutdown, Return, looping
<1>3. CASE Wait_system_info
  <2>1. polls' \in 0..POLLS /\ (main' = "wait" => polls' # 0)
    BY <1>3, DaemonAssumption DEF Wait_system_info
  <2>2. main' \in {"lockman", "fatal", "wait"} /\ UNCHANGED looping
    BY <1>3 DEF Wait_system_info
  <2> QED BY <2>1, <2>2 DEF looping
<1>4. CASE LibvirtFails \/ Unseen \/ Event \/ CallbackLocked \/ CallbackSend
  BY <1>4 DEF LibvirtFails, Unseen, Event, CallbackLocked, CallbackSend, looping
<1>5. CASE system_info_get
  <2>1. snap' \in Info /\ first' \in BOOLEAN BY <1>5 DEF system_info_get
  <2>2. loop' \in {"check", "send", "sleep", "tick", "get"} /\ UNCHANGED <<main, polls>>
    BY <1>5 DEF system_info_get, Snapshot
  <2> QED BY <2>1, <2>2
<1>6. CASE LoopStarts \/ check_vmreg \/ set_system_info_loop_done \/ LoopSend
           \/ delete_ghosts \/ GhostSend \/ Tick \/ Sleep \/ Reconnect
  BY <1>6 DEF LoopStarts, check_vmreg, set_system_info_loop_done, LoopSend, delete_ghosts,
              GhostSend, Tick, Sleep, Reconnect
<1>7. CASE send_system_info \/ send_vm_events \/ SerfFails \/ StreamEnded \/ SerfReconnect
  BY <1>7 DEF send_system_info, send_vm_events, SerfFails, StreamEnded, SerfReconnect, looping
<1> QED BY <1>1, <1>2, <1>3, <1>4, <1>5, <1>6, <1>7, Steps

\* Steps keep the types of hv.
LEMMA StepHyper == ASSUME TInv, [Next]_vars PROVE TypesOfHyper'
<1>0. TypesOfHyper BY DEF TInv
<1>1. CASE UNCHANGED hyper BY <1>0, <1>1 DEF hyper, TypesOfHyper
<1>2. CASE MainConnect \/ Reconnect \/ HypervisorShutdown \/ LibvirtFails
  BY <1>0, <1>2 DEF MainConnect, Reconnect, HypervisorShutdown, LibvirtFails, Connected,
                    NotConnected, NotListening, TypesOfHyper
<1>3. CASE system_info_get BY <1>0, <1>3 DEF system_info_get, TypesOfHyper
<1>4. CASE set_system_info_loop_done BY <1>0, <1>4 DEF set_system_info_loop_done, TypesOfHyper
<1>5. CASE Wait_system_info \/ LockmanInit \/ SerfConnect \/ Stop \/ VirtxShutdown
           \/ SerfShutdown \/ Return \/ Unseen \/ Event \/ CallbackLocked \/ CallbackSend
           \/ LoopStarts \/ check_vmreg \/ LoopSend \/ delete_ghosts \/ GhostSend \/ Tick
           \/ Sleep \/ send_system_info \/ send_vm_events \/ SerfFails \/ StreamEnded
           \/ SerfReconnect \/ UNCHANGED vars
  BY <1>1, <1>5 DEF Wait_system_info, LockmanInit, SerfConnect, Stop, VirtxShutdown,
       SerfShutdown, Return, Unseen, Event, CallbackLocked, CallbackSend, LoopStarts,
       check_vmreg, LoopSend, delete_ghosts, GhostSend, Tick, Sleep, send_system_info,
       send_vm_events, SerfFails, StreamEnded, SerfReconnect, vars
<1> QED BY <1>2, <1>3, <1>4, <1>5, Steps

\* Steps keep the types of serfcomm, the VM and the inventory.
LEMMA StepComm == ASSUME TInv, [Next]_vars PROVE TypesOfComm'
<1>0. TypesOfComm BY DEF TInv
<1>1. CASE UNCHANGED comm BY <1>0, <1>1 DEF comm, TypesOfComm
<1>2. CASE SerfConnect \/ SerfShutdown \/ SerfFails \/ StreamEnded \/ SerfReconnect
  BY <1>0, <1>2 DEF SerfConnect, SerfShutdown, SerfFails, StreamEnded, SerfReconnect,
                    TypesOfComm
<1>3. CASE Unseen \/ Event BY <1>0, <1>3 DEF Unseen, Event, TypesOfComm
<1>4. CASE send_system_info \/ send_vm_events
  <2>1. shown' \in BOOLEAN BY <1>0, <1>4 DEF send_system_info, send_vm_events, TypesOfComm
  <2>2. UNCHANGED <<serf, sending, vm>> BY <1>4 DEF send_system_info, send_vm_events
  <2> QED BY <1>0, <2>1, <2>2 DEF TypesOfComm
<1>5. CASE MainConnect \/ Wait_system_info \/ LockmanInit \/ Stop \/ VirtxShutdown
           \/ HypervisorShutdown \/ Return \/ LibvirtFails \/ CallbackLocked \/ CallbackSend
           \/ LoopStarts \/ system_info_get \/ check_vmreg \/ set_system_info_loop_done
           \/ LoopSend \/ delete_ghosts \/ GhostSend \/ Tick \/ Sleep \/ Reconnect
           \/ UNCHANGED vars
  BY <1>1, <1>5 DEF MainConnect, Wait_system_info, LockmanInit, Stop, VirtxShutdown,
       HypervisorShutdown, Return, LibvirtFails, CallbackLocked, CallbackSend, LoopStarts,
       system_info_get, check_vmreg, set_system_info_loop_done, LoopSend, delete_ghosts,
       GhostSend, Tick, Sleep, Reconnect, vars
<1> QED BY <1>2, <1>3, <1>4, <1>5, Steps

\* Steps keep the types of the rest.
LEMMA StepRest == ASSUME TInv, [Next]_vars PROVE TypesOfRest'
<1>0. TypesOfRest /\ si \in BOOLEAN BY DEF TInv, TypesOfHyper
<1>1. CASE UNCHANGED <<cb, partial, panic>> BY <1>0, <1>1 DEF TypesOfRest
<1>2. CASE Event \/ CallbackLocked BY <1>0, <1>2 DEF Event, CallbackLocked, TypesOfRest
<1>3. CASE CallbackSend \/ LoopSend \/ GhostSend
  BY <1>0, <1>3 DEF CallbackSend, LoopSend, GhostSend, Put, TypesOfRest
<1>4. CASE system_info_get BY <1>0, <1>4 DEF system_info_get, TypesOfRest
<1>5. CASE MainConnect \/ Wait_system_info \/ LockmanInit \/ SerfConnect \/ Stop
           \/ VirtxShutdown \/ SerfShutdown \/ HypervisorShutdown \/ Return \/ LibvirtFails
           \/ Unseen \/ LoopStarts \/ check_vmreg \/ set_system_info_loop_done
           \/ delete_ghosts \/ Tick \/ Sleep \/ Reconnect \/ send_system_info
           \/ send_vm_events \/ SerfFails \/ StreamEnded \/ SerfReconnect \/ UNCHANGED vars
  BY <1>1, <1>5 DEF MainConnect, Wait_system_info, LockmanInit, SerfConnect, Stop,
       VirtxShutdown, SerfShutdown, HypervisorShutdown, Return, LibvirtFails, Unseen,
       LoopStarts, check_vmreg, set_system_info_loop_done, delete_ghosts, Tick, Sleep,
       Reconnect, send_system_info, send_vm_events, SerfFails, StreamEnded, SerfReconnect,
       vars
<1> QED BY <1>2, <1>3, <1>4, <1>5, Steps

\* Steps keep the channels within their room.
LEMMA StepChannels == ASSUME TInv, [Next]_vars PROVE TypesOfChannels'
<1>0. TypesOfChannels /\ snap \in Info BY DEF TInv, TypesOfMain
<1>1. CASE UNCHANGED vars BY <1>0, <1>1 DEF vars, channels, TypesOfChannels
<1>2. CASE UNCHANGED channels BY <1>0, <1>2 DEF channels, TypesOfChannels
<1>3. CASE HypervisorShutdown
  BY <1>0, <1>3 DEF HypervisorShutdown, TypesOfChannels
<1>4. CASE CallbackSend \/ LoopSend \/ GhostSend
  <2>1. CASE Put(vm_ch, "state", si_ch) /\ chans' = chans
    BY <1>0, <2>1, PutTypes DEF Put, TypesOfChannels
  <2>2. CASE Put(vm_ch, "deleted", si_ch) /\ chans' = chans
    BY <1>0, <2>2, PutTypes DEF Put, TypesOfChannels
  <2>3. CASE Put(si_ch, {"vm"}, vm_ch) /\ chans' = chans
    <3>1. {"vm"} \in Info BY DEF Info
    <3> QED BY <1>0, <2>3, <3>1, PutTypes DEF Put, TypesOfChannels
  <2>4. CASE Put(si_ch, snap, vm_ch) /\ chans' = chans
    BY <1>0, <2>4, PutTypes DEF Put, TypesOfChannels
  <2>5. CASE UNCHANGED channels BY <1>0, <2>5 DEF channels, TypesOfChannels
  <2> QED BY <1>4, <2>1, <2>2, <2>3, <2>4, <2>5 DEF CallbackSend, LoopSend, GhostSend, channels
<1>5. CASE send_system_info
  BY <1>0, <1>5, TailTypes DEF send_system_info, TypesOfChannels
<1>6. CASE send_vm_events
  BY <1>0, <1>6, TailTypes DEF send_vm_events, TypesOfChannels
<1>7. CASE MainConnect \/ Wait_system_info \/ LockmanInit \/ SerfConnect \/ Stop
           \/ VirtxShutdown \/ SerfShutdown \/ Return \/ LibvirtFails \/ Unseen \/ Event
           \/ CallbackLocked \/ LoopStarts \/ system_info_get \/ check_vmreg
           \/ set_system_info_loop_done \/ delete_ghosts \/ Tick \/ Sleep \/ Reconnect
           \/ SerfFails \/ StreamEnded \/ SerfReconnect
  BY <1>2, <1>7 DEF MainConnect, Wait_system_info, LockmanInit, SerfConnect, Stop,
       VirtxShutdown, SerfShutdown, Return, LibvirtFails, Unseen, Event, CallbackLocked,
       LoopStarts, system_info_get, check_vmreg, set_system_info_loop_done, delete_ghosts,
       Tick, Sleep, Reconnect, SerfFails, StreamEnded, SerfReconnect
<1> QED BY <1>1, <1>3, <1>4, <1>5, <1>6, <1>7, Steps

\* All types together.
LEMMA StepTypes == ASSUME TInv, [Next]_vars PROVE TInv'
BY StepMain, StepHyper, StepComm, StepRest, StepChannels DEF TInv

\* virtxd's variables keep their types; the channels never hold more than their room.
THEOREM DaemonTypeCorrect == Spec => []TypeOK
<1>1. TInv => TypeOK
  BY DEF TInv, TypesOfMain, TypesOfHyper, TypesOfComm, TypesOfRest, TypesOfChannels, TypeOK
<1> QED BY <1>1, InitTypes, StepTypes, PTL DEF Spec

-----------------------------------------------------------------------------
(* A snapshot before everything else                                       *)

\* There has been a snapshot, or a first one that failed and counts.
Taken == (uuid = TRUE /\ si = TRUE) \/ partial = TRUE

\* The loop is past its first snapshot, the flag that main waits for is set after it,
\* and main goes on after the flag.
InfoInv ==
  /\ partial = TRUE => si = FALSE
  /\ done = TRUE => Taken
  /\ loop \in {"check", "done", "send"} => Taken
  /\ first = FALSE => Taken
  /\ main \in {"lockman", "serf", "serve"} => done = TRUE

\* A snapshot, once taken, is not taken back.
LEMMA TakenStays ==
  ASSUME TInv, InfoInv, [Next]_vars
  PROVE  /\ Taken => Taken'
         /\ partial' = TRUE => si' = FALSE
<1>0. si \in BOOLEAN BY DEF TInv, TypesOfHyper
<1>1. CASE system_info_get
  <2>1. CASE uuid' = TRUE /\ si' = TRUE /\ partial' = FALSE BY <2>1 DEF Taken
  <2>2. CASE UNCHANGED <<uuid, si, partial>> BY <2>2 DEF Taken, InfoInv
  <2>3. CASE si' = si /\ partial' = ~si /\ (si = FALSE \/ uuid' = TRUE)
    BY <1>0, <2>3 DEF Taken
  <2> QED BY <1>1, <2>1, <2>2, <2>3 DEF system_info_get
<1>2. CASE UNCHANGED <<uuid, si, partial>> BY <1>2 DEF Taken, InfoInv
<1>3. UNCHANGED <<uuid, si, partial>> \/ system_info_get
  BY Steps DEF vars, hyper, MainConnect, Wait_system_info, LockmanInit, SerfConnect, Stop,
       VirtxShutdown, SerfShutdown, HypervisorShutdown, Return, LibvirtFails, Unseen, Event,
       CallbackLocked, CallbackSend, LoopStarts, check_vmreg, set_system_info_loop_done,
       LoopSend, delete_ghosts, GhostSend, Tick, Sleep, Reconnect, send_system_info,
       send_vm_events, SerfFails, StreamEnded, SerfReconnect
<1> QED BY <1>1, <1>2, <1>3

\* Steps keep InfoInv.
LEMMA StepInfo ==
  ASSUME TInv, InfoInv, [Next]_vars
  PROVE  InfoInv'
<1>0. (Taken => Taken') /\ (partial' = TRUE => si' = FALSE) BY TakenStays
<1>1. CASE system_info_get
  <2>1. UNCHANGED <<main, done>> BY <1>1 DEF system_info_get
  <2>2. first' \in {first, TRUE} BY <1>1 DEF system_info_get
  <2>3. loop' \in {"check", "done", "send"} => Taken'
    <3>1. CASE uuid' = TRUE /\ si' = TRUE BY <3>1 DEF Taken
    <3>2. CASE loop' = "sleep" \/ loop' = "get" BY <3>2
    <3>3. CASE partial' = ~si /\ si' = si /\ (si = FALSE \/ uuid' = TRUE)
      BY <3>3 DEF Taken, TInv, TypesOfHyper
    <3> QED BY <1>1, <3>1, <3>2, <3>3 DEF system_info_get
  <2> QED BY <1>0, <2>1, <2>2, <2>3 DEF InfoInv
<1>2. CASE set_system_info_loop_done
  BY <1>0, <1>2 DEF set_system_info_loop_done, InfoInv
<1>3. CASE Wait_system_info
  BY <1>0, <1>3 DEF Wait_system_info, InfoInv, hyper, looping, TInv, TypesOfHyper
<1>4. CASE check_vmreg BY <1>0, <1>4 DEF check_vmreg, InfoInv, hyper
<1>5. CASE LoopStarts \/ LoopSend \/ delete_ghosts \/ GhostSend \/ Tick \/ Sleep \/ Reconnect
  BY <1>0, <1>5 DEF LoopStarts, LoopSend, delete_ghosts, GhostSend, Tick, Sleep, Reconnect,
                    InfoInv, hyper
<1>6. CASE LockmanInit \/ SerfConnect \/ Stop \/ VirtxShutdown \/ SerfShutdown \/ Return
  BY <1>0, <1>6 DEF LockmanInit, SerfConnect, Stop, VirtxShutdown, SerfShutdown, Return,
                    InfoInv, hyper, looping
<1>7. CASE MainConnect \/ HypervisorShutdown
  BY <1>0, <1>7 DEF MainConnect, HypervisorShutdown, InfoInv, looping
<1>8. CASE UNCHANGED <<main, looping, done>> BY <1>0, <1>8 DEF InfoInv, looping
<1>9. CASE LibvirtFails \/ Unseen \/ Event \/ CallbackLocked \/ CallbackSend
           \/ send_system_info \/ send_vm_events \/ SerfFails \/ StreamEnded \/ SerfReconnect
           \/ UNCHANGED vars
  BY <1>8, <1>9 DEF LibvirtFails, Unseen, Event, CallbackLocked, CallbackSend,
       send_system_info, send_vm_events, SerfFails, StreamEnded, SerfReconnect, vars, hyper
<1> QED BY <1>1, <1>2, <1>3, <1>4, <1>5, <1>6, <1>7, <1>9, Steps

\* main reaches lockman.Init, serf and the API only after the loop has reported a snapshot,
\* complete or counted as such, however the start, the events and libvirt's failures
\* interleave.
THEOREM InfoComesFirst == Spec => []InfoBeforeInit
<1>1. Init => InfoInv BY DEF Init, InfoInv
<1>2. TInv /\ InfoInv => InfoBeforeInit
  BY DEF TInv, TypesOfHyper, TypesOfRest, InfoInv, Taken, InfoBeforeInit
<1> QED BY <1>1, <1>2, InitTypes, StepTypes, StepInfo, PTL DEF Spec

-----------------------------------------------------------------------------
(* The lock, the channels and the connection                                *)

\* hv.m is with lifecycle_cb or with delete_ghosts, and neither waits for a channel that
\* is closed; between Shutdown and the end of main the channels are.
LockInv ==
  /\ cb \in {"send event", "send info"} => loop # "deleting" /\ chans = "open"
  /\ loop = "deleting" => chans = "open"
  /\ Alive => (chans = "closed" <=> main = "return")

\* conn is nil before Connect and after Shutdown, the loop starts after Connect, and a
\* connection the loop believes in is listened to, unless Shutdown came between.
ConnInv ==
  /\ main = "connect" => loop = "off" /\ conn = "nil"
  /\ Alive /\ conn = "nil" => main \in {"connect", "return"}
  /\ Alive /\ loop = "off" /\ main \notin {"connect", "return"} => registered = TRUE
  /\ Alive /\ main \notin {"connect", "return"}
       /\ loop \in {"get", "check", "done", "send", "ghosts", "deleting", "tick"}
     => registered = TRUE
  /\ panic = TRUE => main = "return" /\ loop \in {"get", "ghosts"}

\* Steps keep LockInv: who closes the channels waits until nobody else waits for room.
LEMMA StepLock ==
  ASSUME TInv, LockInv, [Next]_vars
  PROVE  LockInv'
<1> USE DEF LockInv, Alive
<1>0. panic \in BOOLEAN /\ main \in Main /\ chans \in {"open", "closed"}
  BY DEF TInv, TypesOfMain, TypesOfRest, TypesOfChannels
<1>1. CASE MainConnect \/ Wait_system_info \/ LockmanInit \/ SerfConnect \/ Stop
           \/ VirtxShutdown \/ SerfShutdown \/ Return
  BY <1>0, <1>1 DEF MainConnect, Wait_system_info, LockmanInit, SerfConnect, Stop,
       VirtxShutdown, SerfShutdown, Return, looping, channels
<1>2. CASE HypervisorShutdown BY <1>0, <1>2 DEF HypervisorShutdown, LockFree, looping
<1>3. CASE CallbackLocked
  BY <1>0, <1>3 DEF CallbackLocked, RLockFree, looping, channels
<1>4. CASE CallbackSend \/ GhostSend
  BY <1>0, <1>4 DEF CallbackSend, GhostSend, Put, looping
<1>5. CASE delete_ghosts BY <1>0, <1>5 DEF delete_ghosts, LockFree, channels
<1>6. CASE LoopSend BY <1>0, <1>6 DEF LoopSend, Put
<1>7. CASE LoopStarts \/ check_vmreg \/ set_system_info_loop_done \/ Tick \/ Sleep \/ Reconnect
  BY <1>0, <1>7 DEF LoopStarts, check_vmreg, set_system_info_loop_done, Tick, Sleep,
       Reconnect, channels
<1>8. CASE system_info_get BY <1>0, <1>8 DEF system_info_get, Snapshot, channels
<1>9. CASE LibvirtFails \/ Unseen \/ Event \/ send_system_info \/ send_vm_events
           \/ SerfFails \/ StreamEnded \/ SerfReconnect \/ UNCHANGED vars
  BY <1>0, <1>9 DEF LibvirtFails, Unseen, Event, send_system_info, send_vm_events,
       SerfFails, StreamEnded, SerfReconnect, looping, channels, vars
<1> QED BY <1>1, <1>2, <1>3, <1>4, <1>5, <1>6, <1>7, <1>8, <1>9, Steps

\* Steps keep ConnInv.
LEMMA StepConn ==
  ASSUME TInv, LockInv, ConnInv, [Next]_vars
  PROVE  ConnInv'
<1> USE DEF ConnInv, Alive
<1>0. panic \in BOOLEAN /\ main \in Main /\ chans \in {"open", "closed"} /\ loop \in Loop
  BY DEF TInv, TypesOfMain, TypesOfRest, TypesOfChannels
<1>1. CASE Wait_system_info \/ LockmanInit \/ SerfConnect \/ Stop
           \/ VirtxShutdown \/ SerfShutdown \/ Return
  <2>1. /\ Alive /\ main \notin {"connect"} /\ main' # "connect" /\ main' # "return"
        /\ main # "return" \/ main' = "exit"
        /\ UNCHANGED <<loop, conn, registered, panic>>
    BY <1>1 DEF Wait_system_info, LockmanInit, SerfConnect, Stop, VirtxShutdown,
         SerfShutdown, Return, looping, hyper
  <2> QED BY <1>0, <2>1
<1>2. CASE MainConnect \/ HypervisorShutdown
  BY <1>0, <1>2 DEF MainConnect, HypervisorShutdown, Connected, NotConnected,
       NotListening, looping
<1>3. CASE CallbackSend \/ GhostSend \/ LoopSend
  BY <1>0, <1>3 DEF CallbackSend, GhostSend, LoopSend, LockInv, Put, looping, hyper
<1>4. CASE Reconnect
  BY <1>0, <1>4 DEF Reconnect, Connected, NotConnected, NotListening
<1>5. CASE LoopStarts \/ check_vmreg \/ set_system_info_loop_done \/ delete_ghosts \/ Tick
           \/ Sleep
  BY <1>0, <1>5 DEF LoopStarts, check_vmreg, set_system_info_loop_done, delete_ghosts, Tick,
       Sleep, hyper
<1>6. CASE system_info_get BY <1>0, <1>6 DEF system_info_get, Snapshot
<1>7. CASE LibvirtFails \/ Unseen \/ Event \/ CallbackLocked \/ send_system_info
           \/ send_vm_events \/ SerfFails \/ StreamEnded \/ SerfReconnect \/ UNCHANGED vars
  BY <1>0, <1>7 DEF LibvirtFails, Unseen, Event, CallbackLocked, send_system_info,
       send_vm_events, SerfFails, StreamEnded, SerfReconnect, looping, hyper, vars
<1> QED BY <1>1, <1>2, <1>3, <1>4, <1>5, <1>6, <1>7, Steps

\* All of it.
DInv == TInv /\ LockInv /\ ConnInv

\* It is inductive.
LEMMA DaemonInvariant == Spec => []DInv
<1>1. Init => LockInv /\ ConnInv BY DEF Init, LockInv, ConnInv, Alive
<1>2. DInv /\ [Next]_vars => DInv' BY StepTypes, StepLock, StepConn DEF DInv
<1> QED BY <1>1, <1>2, InitTypes, PTL DEF Spec, DInv

\* A goroutine panics only between hypervisor.Shutdown and the end of main, and only
\* system_info_loop does, whose send takes no lock.
THEOREM PanicsAtTheEnd == Spec => []PanicsOnlyAtTheEnd
<1>1. DInv => PanicsOnlyAtTheEnd BY DEF DInv, TInv, TypesOfRest, ConnInv, PanicsOnlyAtTheEnd
<1> QED BY <1>1, DaemonInvariant, PTL

\* While the loop takes its connection for good, lifecycle_cb is registered with it.
THEOREM AlwaysListening == Spec => []ListensWhileConnected
<1>1. DInv => ListensWhileConnected BY DEF DInv, ConnInv, ListensWhileConnected
<1> QED BY <1>1, DaemonInvariant, PTL
=============================================================================
