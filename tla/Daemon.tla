------------------------------- MODULE Daemon -------------------------------
(***************************************************************************)
(* virtxd as a process: the start and the end of main, and the goroutines  *)
(* that run beside it.  libvirt calls lifecycle_cb, system_info_loop takes *)
(* a snapshot now and then and connects again when libvirt is gone, and    *)
(* pkg/serfcomm sends what both put into two bounded channels.             *)
(*                                                                         *)
(* hv.m is a sync.RWMutex: readers do not get past a writer that waits.    *)
(* Nothing in the model says who holds it but the place where each         *)
(* goroutine is: only lifecycle_cb and delete_ghosts keep it while they    *)
(* wait for room in a channel, all else under it is one step.              *)
(*                                                                         *)
(* The host has one VM.  A SystemInfo is the set of what it describes, the *)
(* host, the VM or both; what follows from sending it is in Cluster.       *)
(***************************************************************************)
EXTENDS Naturals, Sequences

CONSTANTS
  CAP,   \* the room of vm_event_ch and of system_info_ch
  POLLS  \* how often Wait_system_info looks before it gives up

ASSUME DaemonAssumption == CAP \in Nat \ {0} /\ POLLS \in Nat \ {0}

VARIABLES
  main,       \* where main is
  polls,      \* what is left of the time of Wait_system_info
  cb,         \* where lifecycle_cb is, of which the event loop runs one at a time
  loop,       \* where init_system_info_loop is
  first,      \* its next snapshot is the first of its system_info_loop
  snap,       \* that snapshot, until it is sent and compared
  conn,       \* hv.conn: "nil", "open" or "broken"
  registered, \* hv.lifecycle_id is one
  uuid, si,   \* machine.Uuid() and hv.si are set
  partial,    \* history: the last snapshot has failed, and hv.si is still nil
  done,       \* hv.system_info_loop_done
  vm_ch,      \* hv.vm_event_ch
  si_ch,      \* hv.system_info_ch
  chans,      \* both are "open" or "closed"
  serf,       \* serf.c: "nil", "up", or "dead" when its stream has ended
  sending,    \* the goroutines of serfcomm run
  vm,         \* libvirt has the VM
  shown,      \* so does the inventory of this host
  panic       \* a goroutine panicked

hyper == <<conn, registered, uuid, si, done>>
channels == <<vm_ch, si_ch, chans>>
comm == <<serf, sending, vm, shown>>
looping == <<loop, first, snap>>
vars == <<main, polls, cb, looping, hyper, partial, channels, comm, panic>>

Main == {"connect", "wait", "lockman", "serf", "serve", "stop http", "stop serf",
         "stop hypervisor", "return", "exit", "fatal"}

Loop == {"off", "get", "check", "done", "send", "ghosts", "deleting", "tick", "sleep",
         "connect", "stuck"}

Info == SUBSET {"host", "vm"}

Init ==
  /\ main = "connect" /\ polls = POLLS
  /\ cb = "idle"
  /\ loop = "off" /\ first = TRUE /\ snap = {}
  /\ conn = "nil" /\ registered = FALSE
  /\ uuid = FALSE /\ si = FALSE /\ done = FALSE /\ partial = FALSE
  /\ vm_ch = <<>> /\ si_ch = <<>> /\ chans = "open"
  /\ serf = "nil" /\ sending = FALSE
  /\ vm \in BOOLEAN /\ shown = FALSE
  /\ panic = FALSE

\* The process is there: goroutines end with it, and with a panic of one of them.
Alive == main \notin {"exit", "fatal"} /\ ~panic

-----------------------------------------------------------------------------
(* hv.m                                                                     *)

\* Lock() returns: nobody has it.
LockFree == loop # "deleting" /\ cb \notin {"send event", "send info"}

\* Lock() was called.
WriterWaits ==
  \/ loop \in {"get", "done", "ghosts", "connect"}
  \/ main \in {"connect", "stop hypervisor"}

\* RLock() returns.
RLockFree == loop # "deleting" /\ ~WriterWaits

-----------------------------------------------------------------------------
(* Connect: main calls it once, init_system_info_loop until it succeeds.    *)

Connected == conn' = "open" /\ registered' = TRUE

\* NewConnect fails, after the old connection was closed.
NotConnected == conn' = "broken" /\ registered' = FALSE

\* start_listening fails.
NotListening == conn' = "open" /\ registered' = FALSE

-----------------------------------------------------------------------------
(* main                                                                     *)

MainConnect ==
  /\ Alive /\ main = "connect" /\ LockFree
  /\ \/ Connected /\ main' = "wait"
     \/ (NotConnected \/ NotListening) /\ main' = "fatal"
  /\ UNCHANGED <<partial, polls, cb, looping, uuid, si, done, channels, comm, panic>>

\* A variant of Wait_system_info: there is no timeout.
WaitForever ==
  /\ Alive /\ main = "wait" /\ RLockFree
  /\ main' = IF done THEN "lockman" ELSE "wait"
  /\ UNCHANGED <<partial, polls, cb, looping, hyper, channels, comm, panic>>

\* Another: the timeout is not an error.
WaitAndGoOn ==
  /\ Alive /\ main = "wait" /\ RLockFree
  /\ main' = IF done \/ polls = 1 THEN "lockman" ELSE "wait"
  /\ polls' = IF done THEN 0 ELSE polls - 1
  /\ UNCHANGED <<partial, cb, looping, hyper, channels, comm, panic>>

\* Once a second get_system_info_loop_done is asked, which takes the lock.
Wait_system_info ==
  /\ Alive /\ main = "wait" /\ RLockFree
  /\ main' = IF done THEN "lockman" ELSE IF polls = 1 THEN "fatal" ELSE "wait"
  /\ polls' = IF done THEN 0 ELSE polls - 1
  /\ UNCHANGED <<partial, cb, looping, hyper, channels, comm, panic>>

\* lockman.Init, module Lockspace; then virtx.Init.
LockmanInit ==
  /\ Alive /\ main = "lockman"
  /\ \/ main' = "serf"
     \/ main' = "fatal"
  /\ UNCHANGED <<partial, polls, cb, looping, hyper, channels, comm, panic>>

\* serfcomm.Connect, then Start_listening of serfcomm and of virtx.
SerfConnect ==
  /\ Alive /\ main = "serf"
  /\ \/ main' = "serve" /\ serf' = "up" /\ sending' = TRUE
     \/ main' = "fatal" /\ UNCHANGED <<serf, sending>>
  /\ UNCHANGED <<partial, polls, cb, looping, hyper, channels, vm, shown, panic>>

\* A signal, or an error of the HTTP service: the deferred calls begin.
Stop ==
  /\ Alive /\ main = "serve"
  /\ main' = "stop http"
  /\ UNCHANGED <<partial, polls, cb, looping, hyper, channels, comm, panic>>

\* virtx.Shutdown waits for the handlers.  If that takes too long main panics, for
\* virtx.Close() has no error to show, and goes on with the deferred calls; unless
\* there is one.
VirtxShutdown ==
  /\ Alive /\ main = "stop http"
  /\ main' \in {"stop serf", "fatal"}
  /\ UNCHANGED <<partial, polls, cb, looping, hyper, channels, comm, panic>>

\* The client is closed and kept.  lockman.Shutdown, which follows, does not leave the
\* lockspace.
SerfShutdown ==
  /\ Alive /\ main = "stop serf"
  /\ main' = "stop hypervisor"
  /\ serf' = IF serf = "up" THEN "dead" ELSE serf
  /\ UNCHANGED <<partial, polls, cb, looping, hyper, channels, sending, vm, shown, panic>>

\* A variant of HypervisorShutdown: without the lock.
HypervisorShutdownUnlocked ==
  /\ Alive /\ main = "stop hypervisor"
  /\ main' = "return"
  /\ conn' = "nil" /\ registered' = FALSE /\ chans' = "closed"
  /\ UNCHANGED <<partial, polls, cb, looping, uuid, si, done, vm_ch, si_ch, comm, panic>>

HypervisorShutdown ==
  /\ Alive /\ main = "stop hypervisor" /\ LockFree
  /\ main' = "return"
  /\ conn' = "nil" /\ registered' = FALSE /\ chans' = "closed"
  /\ UNCHANGED <<partial, polls, cb, looping, uuid, si, done, vm_ch, si_ch, comm, panic>>

Return ==
  /\ Alive /\ main = "return"
  /\ main' = "exit"
  /\ UNCHANGED <<partial, polls, cb, looping, hyper, channels, comm, panic>>

-----------------------------------------------------------------------------
(* libvirt, and lifecycle_cb                                                *)

\* The connection breaks.
LibvirtFails ==
  /\ Alive /\ conn = "open"
  /\ conn' = "broken"
  /\ UNCHANGED <<partial, main, polls, cb, looping, registered, uuid, si, done, channels, comm, panic>>

\* The VM is defined or undefined while nobody looks: no event comes of it.
Unseen ==
  /\ Alive /\ conn # "open"
  /\ vm' = ~vm
  /\ UNCHANGED <<partial, main, polls, cb, looping, hyper, channels, serf, sending, shown, panic>>

\* The VM is defined, undefined, started or stopped, and lifecycle_cb is called.
Event ==
  /\ Alive /\ conn = "open" /\ registered /\ cb = "idle"
  /\ \/ vm' = ~vm /\ cb' = IF vm THEN "event" ELSE "info"
     \/ vm /\ cb' = "event" /\ UNCHANGED vm
  /\ UNCHANGED <<partial, main, polls, looping, hyper, channels, serf, sending, shown, panic>>

\* RLock() has returned: too early; or on to send; or there is nothing to send, for the
\* domain is transient or libvirt has no answer.  After Shutdown the channel is nil, and
\* what is sent there waits forever.
CallbackLocked ==
  /\ Alive /\ cb \in {"event", "info"} /\ RLockFree
  /\ \/ cb' = IF ~done THEN "idle"
              ELSE IF chans = "closed" THEN "stuck"
              ELSE IF cb = "event" THEN "send event" ELSE "send info"
     \/ cb' = "idle"
  /\ UNCHANGED <<partial, main, polls, looping, hyper, channels, comm, panic>>

\* A message is put into a channel that has room.  To wait for room in a channel that
\* is closed meanwhile is a panic.
Put(ch, m, ch2) ==
  \/ /\ chans = "open" /\ Len(ch) < CAP
     /\ ch' = Append(ch, m)
     /\ UNCHANGED <<ch2, panic>>
  \/ /\ chans = "closed"
     /\ panic' = TRUE
     /\ UNCHANGED <<ch, ch2>>

\* A DEFINED event sends a SystemInfo without a host, all others a VmEvent.
CallbackSend ==
  /\ Alive
  /\ \/ cb = "send event" /\ Put(vm_ch, IF vm THEN "state" ELSE "deleted", si_ch)
     \/ cb = "send info" /\ Put(si_ch, {"vm"}, vm_ch)
  /\ cb' = "idle"
  /\ UNCHANGED <<partial, main, polls, looping, hyper, chans, comm>>

-----------------------------------------------------------------------------
(* init_system_info_loop and system_info_loop                               *)

LoopStarts ==
  /\ Alive /\ loop = "off" /\ conn = "open"
  /\ loop' = "get"
  /\ UNCHANGED <<partial, main, polls, cb, first, snap, hyper, channels, comm, panic>>

\* The first snapshot goes on to check_vmreg, the others are sent.
Snapshot == IF first THEN "check" ELSE "send"

\* An error of libvirt ends system_info_loop.  After another one it goes on with
\* what it has, if this is its first snapshot, and waits for the next if it is not.
\* A snapshot that fails early has not even got the uuid; none that fails has VMs,
\* and hv.si is left alone.
system_info_get ==
  /\ Alive /\ loop = "get" /\ LockFree
  /\ \/ /\ conn = "open"
        /\ loop' = Snapshot
        /\ uuid' = TRUE /\ si' = TRUE /\ partial' = FALSE
        /\ snap' = IF vm THEN {"host", "vm"} ELSE {"host"}
        /\ UNCHANGED <<first, panic>>
     \/ /\ conn = "broken"
        /\ loop' = "sleep" /\ first' = TRUE
        /\ UNCHANGED <<uuid, si, partial, snap, panic>>
     \/ /\ conn = "open"
        /\ loop' = IF first THEN "check" ELSE "tick"
        /\ \/ si = FALSE /\ snap' = {} /\ UNCHANGED uuid
           \/ snap' = (IF first THEN {"host"} ELSE {}) /\ uuid' = TRUE
        /\ partial' = ~si
        /\ UNCHANGED <<first, si, panic>>
     \/ /\ conn = "nil"
        /\ panic' = TRUE
        /\ UNCHANGED <<loop, first, uuid, si, partial, snap>>
  /\ UNCHANGED <<main, polls, cb, conn, registered, done, channels, comm>>

\* Module Migration says when it ends virtxd.
check_vmreg ==
  /\ Alive /\ loop = "check"
  /\ \/ loop' = "done" /\ UNCHANGED main
     \/ main' = "fatal" /\ UNCHANGED loop
  /\ UNCHANGED <<partial, polls, cb, first, snap, hyper, channels, comm, panic>>

set_system_info_loop_done ==
  /\ Alive /\ loop = "done" /\ LockFree
  /\ done' = TRUE /\ loop' = "send" /\ first' = FALSE
  /\ UNCHANGED <<partial, main, polls, cb, snap, conn, registered, uuid, si, channels, comm, panic>>

\* Without the lock: the channel is open, or closed, or nil.
LoopSend ==
  /\ Alive /\ loop = "send"
  /\ \/ Put(si_ch, snap, vm_ch) /\ loop' = "ghosts"
     \/ chans = "closed" /\ loop' = "stuck" /\ UNCHANGED <<vm_ch, si_ch, panic>>
  /\ UNCHANGED <<partial, main, polls, cb, first, snap, hyper, chans, comm>>

\* The inventory has the VM and the snapshot has not.
delete_ghosts ==
  /\ Alive /\ loop = "ghosts" /\ LockFree
  /\ loop' = IF ~(uuid /\ shown) \/ "vm" \in snap THEN "tick"
             ELSE IF chans = "closed" THEN "stuck" ELSE "deleting"
  /\ snap' = {}
  /\ UNCHANGED <<partial, main, polls, cb, first, hyper, channels, comm, panic>>

GhostSend ==
  /\ Alive /\ loop = "deleting"
  /\ Put(vm_ch, "deleted", si_ch)
  /\ loop' = "tick"
  /\ UNCHANGED <<partial, main, polls, cb, first, snap, hyper, chans, comm>>

Tick ==
  /\ Alive /\ loop = "tick"
  /\ loop' = "get"
  /\ UNCHANGED <<partial, main, polls, cb, first, snap, hyper, channels, comm, panic>>

Sleep ==
  /\ Alive /\ loop = "sleep"
  /\ loop' = "connect"
  /\ UNCHANGED <<partial, main, polls, cb, first, snap, hyper, channels, comm, panic>>

\* A variant of Reconnect: that start_listening failed is not noticed.
ReconnectAnyway ==
  /\ Alive /\ loop = "connect" /\ LockFree
  /\ \/ (Connected \/ NotListening) /\ loop' = "get"
     \/ NotConnected /\ loop' = "sleep"
  /\ UNCHANGED <<partial, main, polls, cb, first, snap, uuid, si, done, channels, comm, panic>>

\* Nothing tells it that Shutdown has run.
Reconnect ==
  /\ Alive /\ loop = "connect" /\ LockFree
  /\ \/ Connected /\ loop' = "get"
     \/ (NotConnected \/ NotListening) /\ loop' = "sleep"
  /\ UNCHANGED <<partial, main, polls, cb, first, snap, uuid, si, done, channels, comm, panic>>

-----------------------------------------------------------------------------
(* The goroutines of pkg/serfcomm                                           *)

\* A variant of send_system_info: it waits until there is a connection.
send_when_connected ==
  /\ Alive /\ sending /\ si_ch # <<>> /\ serf = "up"
  /\ si_ch' = Tail(si_ch)
  /\ shown' = (shown \/ "vm" \in Head(si_ch))
  /\ UNCHANGED <<partial, main, polls, cb, looping, hyper, vm_ch, chans, serf, sending, vm, panic>>

\* Taken and sent, or taken and dropped.  What serf delivers comes back to this host
\* too; it may also be lost.
send_system_info ==
  /\ Alive /\ sending /\ si_ch # <<>>
  /\ si_ch' = Tail(si_ch)
  /\ \/ serf = "up" /\ shown' = (shown \/ "vm" \in Head(si_ch))
     \/ UNCHANGED shown
  /\ UNCHANGED <<partial, main, polls, cb, looping, hyper, vm_ch, chans, serf, sending, vm, panic>>

\* A variant of send_vm_events: it waits until there is a connection.
send_events_connected ==
  /\ Alive /\ sending /\ vm_ch # <<>> /\ serf = "up"
  /\ vm_ch' = Tail(vm_ch)
  /\ shown' = (shown /\ Head(vm_ch) # "deleted")
  /\ UNCHANGED <<partial, main, polls, cb, looping, hyper, si_ch, chans, serf, sending, vm, panic>>

send_vm_events ==
  /\ Alive /\ sending /\ vm_ch # <<>>
  /\ vm_ch' = Tail(vm_ch)
  /\ \/ serf = "up" /\ shown' = (shown /\ Head(vm_ch) # "deleted")
     \/ UNCHANGED shown
  /\ UNCHANGED <<partial, main, polls, cb, looping, hyper, si_ch, chans, serf, sending, vm, panic>>

SerfFails ==
  /\ Alive /\ serf = "up"
  /\ serf' = "dead"
  /\ UNCHANGED <<partial, main, polls, cb, looping, hyper, channels, sending, vm, shown, panic>>

\* recv_serf_events: the stream has ended.  It connects again, main's end or not.
StreamEnded ==
  /\ Alive /\ sending /\ serf = "dead"
  /\ serf' = "nil"
  /\ UNCHANGED <<partial, main, polls, cb, looping, hyper, channels, sending, vm, shown, panic>>

SerfReconnect ==
  /\ Alive /\ sending /\ serf = "nil"
  /\ serf' = "up"
  /\ UNCHANGED <<partial, main, polls, cb, looping, hyper, channels, sending, vm, shown, panic>>

-----------------------------------------------------------------------------

MainStep ==
  \/ MainConnect \/ Wait_system_info \/ LockmanInit \/ SerfConnect
  \/ VirtxShutdown \/ SerfShutdown \/ HypervisorShutdown \/ Return

CallbackStep == CallbackLocked \/ CallbackSend

LoopStep ==
  \/ LoopStarts \/ system_info_get \/ check_vmreg \/ set_system_info_loop_done \/ LoopSend
  \/ delete_ghosts \/ GhostSend \/ Tick \/ Sleep \/ Reconnect

CommStep == StreamEnded \/ SerfReconnect

Next ==
  \/ MainStep \/ Stop
  \/ LibvirtFails \/ Unseen \/ Event \/ CallbackStep
  \/ LoopStep
  \/ send_system_info \/ send_vm_events \/ SerfFails \/ CommStep

Spec == Init /\ [][Next]_vars

\* Every goroutine that can go on does; signals, events and failures need not come.
\* sync.RWMutex lets waiting readers in when a writer is done, and a waiting writer
\* before the readers that come later: whoever waits for hv.m gets it if it is free
\* again and again.
FairSpec ==
  /\ Spec
  /\ WF_vars(MainStep) /\ SF_vars(Wait_system_info \/ HypervisorShutdown)
  /\ SF_vars(CallbackLocked) /\ WF_vars(CallbackSend)
  /\ WF_vars(LoopStep)
  /\ WF_vars(send_system_info) /\ WF_vars(send_vm_events)

-----------------------------------------------------------------------------

\* Every variable has the values its declaration says.
TypeOK ==
  /\ main \in Main /\ polls \in 0..POLLS
  /\ cb \in {"idle", "event", "info", "send event", "send info", "stuck"}
  /\ loop \in Loop /\ first \in BOOLEAN /\ snap \in Info
  /\ conn \in {"nil", "open", "broken"} /\ registered \in BOOLEAN
  /\ uuid \in BOOLEAN /\ si \in BOOLEAN /\ done \in BOOLEAN /\ partial \in BOOLEAN
  /\ vm_ch \in Seq({"state", "deleted"}) /\ Len(vm_ch) <= CAP
  /\ si_ch \in Seq(Info) /\ Len(si_ch) <= CAP
  /\ chans \in {"open", "closed"}
  /\ serf \in {"nil", "up", "dead"} /\ sending \in BOOLEAN
  /\ vm \in BOOLEAN /\ shown \in BOOLEAN /\ panic \in BOOLEAN

\* main goes on to lockman.Init, serf and the API with the uuid of the host and a complete
\* snapshot at hand, and never without having waited.  There is one way past: a first
\* snapshot that fails with an error that is not libvirt's counts as taken.
InfoBeforeInit ==
  /\ main \in {"lockman", "serf", "serve"} => (uuid /\ si) \/ partial
  /\ partial => ~si

\* system_info_loop sends on its channel without hv.m, and Shutdown closes it under
\* hv.m: the panic that follows can only come when all there was to shut down has
\* been, and never from lifecycle_cb or delete_ghosts, which hold the lock.
PanicsOnlyAtTheEnd ==
  panic => main = "return" /\ loop \in {"get", "ghosts"}

\* While system_info_loop believes in its connection, lifecycle_cb is registered with
\* it: no failure on the way to a new connection leaves snapshots without events.
ListensWhileConnected ==
  /\ Alive /\ main \notin {"connect", "return"}
  /\ loop \in {"get", "check", "done", "send", "ghosts", "deleting", "tick"}
  => registered

\* lifecycle_cb, with hv.m taken, waits for room in a channel nobody reads yet.
StuckBeforeListening == cb \in {"send event", "send info"} /\ ~sending

\* virtxd starts or gives up.  The one thing that can keep it from both is a channel
\* filled by events before serfcomm listens: main then waits for hv.m behind
\* delete_ghosts, which waits for lifecycle_cb, which waits for main.
StartsOrFails == <>(main \in {"serve", "fatal"} \/ StuckBeforeListening)

\* Once serfcomm listens, a full channel delays lifecycle_cb and no more, connected
\* to serf or not: the senders never need hv.m.
CallbacksReturn ==
  sending /\ cb # "idle" ~> cb = "idle" \/ main \in {"return", "exit", "fatal"} \/ panic

\* A signal ends virtxd, whatever the goroutines that hold hv.m are waiting for.
ShutdownEnds == main = "stop http" ~> main \in {"exit", "fatal"} \/ panic
=============================================================================
