------------------------------- MODULE Figures -------------------------------
(***************************************************************************)
(* The figures virtxd reports of its host and of its VMs: system_info_get  *)
(* and get_domain_stats of pkg/hypervisor/systeminfo.go with the counters  *)
(* of counter.go.  The host is what libvirt and /proc tell: it works, and  *)
(* every now and then a snapshot is taken, most figures of which are       *)
(* differences from the snapshot before.                                   *)
(*                                                                         *)
(* M64 and M32 are the numbers of values of 64 and 32 bit integers; KiB,   *)
(* Percent, Sec (ms per second), Ms (ns per ms) stand for 1024, 100, 1000  *)
(* and 1000000.  Memory is in KiB and the figures are in MiB.  net_tx is   *)
(* treated like net_rx, and disk sizes are only added up: left out.        *)
(***************************************************************************)
EXTENDS Integers, FiniteSets, Functions

CONSTANTS M64, M32, KiB, Percent, Sec, Ms,
          Guest,                 \* the VMs, with one vcpu each
          Hugepages,             \* those with memory backing
          Capacity,              \* memory of a VM
          Rss,                   \* what QEMU takes of normal memory for a VM that runs
          MHz, Nodeinfo,         \* of the processor; the host's memory and its huge pages
          OsMemory,              \* what the rest of the host may take of normal memory
          FirstCounts,           \* where the counters of VMs may be when virtxd starts
          MaxTs, MaxFaults,      \* bounds: the time, and stops and failed calls
          Share, Bytes,          \* what a VM may use of a millisecond, and receive in it
          Nothing

\* Vmstats: what is kept of a VM in a snapshot.
Vmstats == [cpu_time : Int, net_rx : Int, Ts : Int, MemoryCapacity : Int, MemoryUsed : Int,
            CpuUtilization : Int, NetRxBw : Int]

ASSUME FiguresAssumption ==
  /\ M64 \in Nat \ {0} /\ M32 \in Nat \ {0} /\ M64 % 2 = 0 /\ M32 % 2 = 0
  /\ KiB \in Nat \ {0} /\ Percent \in Nat \ {0} /\ Sec \in Nat \ {0} /\ Ms \in Nat \ {0}
  /\ Hugepages \subseteq Guest /\ IsFiniteSet(Guest)
  /\ Capacity \in [Guest -> Nat] /\ Rss \in [Guest -> Nat] /\ OsMemory \subseteq Nat
  /\ MHz \in Nat /\ Nodeinfo.memory \in Nat /\ Nodeinfo.hp \in Nat
  /\ FirstCounts \subseteq 0..(M64 - 1) /\ MaxTs \in Nat \ {0}
  /\ Share \subseteq 0..Ms /\ 0 \in Share /\ Bytes \subseteq Nat
  /\ Nothing \notin Vmstats

MostBytes == CHOOSE most \in Bytes : \A b \in Bytes : b <= most

\* The widths are enough for what there is to count until MaxTs: in nanoseconds, hundred
\* times the time of a vcpu, and the time of all of them, in a uint64; a thousand times
\* the bytes received in an int64, and the KiB per second in an int32.
ASSUME WidthAssumption ==
  /\ Percent * (Ms * MaxTs) < M64 /\ Percent < M32 \div 2
  /\ Cardinality(Guest) * (Ms * MaxTs) < M64
  /\ MostBytes \in Bytes /\ \A b \in Bytes : b <= MostBytes
  /\ Sec * (MostBytes * MaxTs) < M64 \div 2 /\ Sec * MostBytes < KiB * (M32 \div 2)

VARIABLES
  host,     \* the host as it is
  si,       \* hv.si, the last snapshot, or Nothing
  did,      \* what really happened since that snapshot
  last      \* the same for the time before it, the host as it was, and the snapshot before

figuresVars == <<host, si, did, last>>

Uint64(n) == n % M64
Int64(n) == ((n + M64 \div 2) % M64) - M64 \div 2
Int32(n) == ((n + M32 \div 2) % M32) - M32 \div 2

-----------------------------------------------------------------------------
(* counter.go                                                               *)

MaxUint64 == M64 - 1
MaxInt64 == M64 \div 2 - 1
MinInt64 == -(M64 \div 2)

\* A variant: one is lost where the counter wraps.
Counter_delta_uint64_less(c1, c0) == IF c1 >= c0 THEN c1 - c0 ELSE MaxUint64 - c0 + c1

Counter_delta_uint64(c1, c0) ==
  IF c1 >= c0 THEN c1 - c0 ELSE Uint64(MaxUint64 - c0 + c1 + 1)

Counter_delta_int64(c1, c0) ==
  IF c1 >= c0 THEN Int64(c1 - c0)
  ELSE Int64(Int64(MaxInt64 - c0) + Int64(c1 - MinInt64) + 1)

-----------------------------------------------------------------------------
(* get_domain_stats                                                         *)

Bandwidth(delta, dt) ==
  IF delta > 0 /\ dt > 0 THEN Int32(Int64(delta * Sec) \div (dt * KiB)) ELSE 0

Utilization(udelta, dt) ==
  IF udelta > 0 /\ dt > 0 THEN Int32(Uint64(udelta * Percent) \div (dt * Ms)) ELSE 0

\* A domain that is shut off has all of its memory reserved and uses none.
get_domain_stats(g, d, ts, old) ==
  [cpu_time |-> d.cpu, net_rx |-> d.rx, Ts |-> ts,
   MemoryCapacity |-> Capacity[g] \div KiB,
   MemoryUsed |-> IF d.on THEN Rss[g] \div KiB ELSE 0,
   CpuUtilization |-> IF old = Nothing THEN 0
                      ELSE Utilization(Counter_delta_uint64(d.cpu, old.cpu_time), ts - old.Ts),
   NetRxBw |-> IF old = Nothing THEN 0
               ELSE Bandwidth(Counter_delta_int64(d.rx, old.net_rx), ts - old.Ts)]

-----------------------------------------------------------------------------
(* system_info_get                                                          *)

\* The derived figures of a resource.
Derived(total, free, reserved, usedvms) ==
  LET used == total - free
      usedos == used - usedvms
  IN [Total |-> total, Free |-> free, Used |-> used, Reservedvms |-> reserved,
      Usedvms |-> usedvms, Usedos |-> usedos, Availablevms |-> total - reserved - usedos]

HugepageFigures(vms, hp_free) ==
  LET cap == SumFunction([g \in DOMAIN vms |-> IF g \in Hugepages THEN vms[g].MemoryCapacity ELSE 0]) IN
  Derived(Nodeinfo.hp \div KiB, hp_free \div KiB, cap, cap)

\* A variant: of the VMs with huge pages no normal memory is counted.
MemoryFigures_backed(vms, memory_free) ==
  LET normal == [g \in DOMAIN vms \ Hugepages |-> vms[g]] IN
  Derived(Nodeinfo.memory \div KiB - Nodeinfo.hp \div KiB, memory_free \div KiB,
          SumFunction([g \in DOMAIN normal |-> vms[g].MemoryCapacity]),
          SumFunction([g \in DOMAIN normal |-> vms[g].MemoryUsed]))

MemoryFigures(vms, memory_free) ==
  Derived(Nodeinfo.memory \div KiB - Nodeinfo.hp \div KiB, memory_free \div KiB,
          SumFunction([g \in DOMAIN vms |-> IF g \in Hugepages THEN 0 ELSE vms[g].MemoryCapacity]),
          SumFunction([g \in DOMAIN vms |-> vms[g].MemoryUsed]))

\* The three counters of the host.
CpuKinds == {"kernel", "iowait", "user"}

CpuUsed(cpu, old, dt) ==
  LET used(k) == (Counter_delta_uint64(cpu[k], old[k]) * MHz) \div (dt * Ms)
  IN used("kernel") + used("iowait") + used("user")

CpuFigures(cpu, vms, ts) ==
  LET used == CpuUsed(cpu, si.cpu, ts - si.Ts)
      percent == SumFunction([g \in DOMAIN vms |-> vms[g].CpuUtilization])
  IN [Used |-> used, Usedvms |-> (percent * MHz) \div Percent,
      Usedos |-> used - (percent * MHz) \div Percent]

\* What the host has free: the VMs that run have what they take.
FreeMemory == Nodeinfo.memory - Nodeinfo.hp - host.os
              - SumFunction([g \in Guest |-> IF host.vms[g].on THEN Rss[g] ELSE 0])
HugepagesFree == Nodeinfo.hp
              - SumFunction([g \in Guest |-> IF g \in Hugepages /\ host.vms[g].on THEN Capacity[g] ELSE 0])

\* A snapshot, without the VMs whose info or stats could not be had.
system_info_get(skip) ==
  LET vms == [g \in Guest \ skip |->
                get_domain_stats(g, host.vms[g], host.ts,
                   IF si # Nothing /\ g \in DOMAIN si.Vms THEN si.Vms[g] ELSE Nothing)]
  IN [Ts |-> host.ts, Vms |-> vms, cpu |-> host.cpu,
      Hp |-> HugepageFigures(vms, HugepagesFree),
      Memory |-> MemoryFigures(vms, FreeMemory),
      Cpu |-> IF si = Nothing \/ host.ts <= si.Ts THEN Nothing
              ELSE CpuFigures(host.cpu, vms, host.ts)]

-----------------------------------------------------------------------------
NoWork == [cpu |-> [g \in Guest |-> 0], rx |-> [g \in Guest |-> 0], os |-> 0,
           stopped |-> {}]

FiguresInit ==
  /\ host \in [ts : {1}, faults : {0}, os : OsMemory,
               cpu : {[k \in CpuKinds |-> M64 - 1]},
               vms : {[g \in Guest |-> [on |-> TRUE, cpu |-> c, rx |-> Int64(c)]] : c \in FirstCounts}]
  /\ si = Nothing /\ did = NoWork /\ last = Nothing

\* A millisecond: a VM has its vcpu for some of it and receives something, the rest of
\* the host works in the kernel.  The time of guests is user time.
Work ==
  /\ host.ts < MaxTs
  /\ \E c \in [Guest -> Share], b \in Bytes, o \in 0..1 :
       LET runs(g) == host.vms[g].on IN
       /\ \A g \in Guest : ~runs(g) => c[g] = 0
       /\ host' = [host EXCEPT
            !.ts = @ + 1,
            !.cpu["kernel"] = Uint64(@ + o),
            !.cpu["user"] = Uint64(@ + SumFunction(c)),
            !.vms = [g \in Guest |->
               [on |-> runs(g), cpu |-> Uint64(host.vms[g].cpu + c[g]),
                rx |-> IF runs(g) THEN Int64(host.vms[g].rx + b) ELSE host.vms[g].rx]]]
       /\ did' = [did EXCEPT
            !.os = @ + o,
            !.cpu = [g \in Guest |-> did.cpu[g] + c[g]],
            !.rx = [g \in Guest |-> IF runs(g) THEN did.rx[g] + b ELSE did.rx[g]]]
  /\ UNCHANGED <<si, last>>

\* A domain that stops leaves its counters behind; the next QEMU has new ones.
Stop(g) ==
  /\ host.vms[g].on
  /\ host.faults < MaxFaults
  /\ host' = [host EXCEPT !.faults = @ + 1, !.vms[g] = [on |-> FALSE, cpu |-> 0, rx |-> 0]]
  /\ did' = [did EXCEPT !.stopped = @ \cup {g}]
  /\ UNCHANGED <<si, last>>

Boot(g) ==
  /\ ~host.vms[g].on
  /\ host' = [host EXCEPT !.vms[g].on = TRUE]
  /\ UNCHANGED <<si, did, last>>

Snapshot ==
  \E skip \in {{}} \cup {{g} : g \in Guest} :
    /\ si' = system_info_get(skip)
    /\ last' = [did |-> did, os |-> host.os, on |-> {g \in Guest : host.vms[g].on}, skip |-> skip,
                 old |-> IF si = Nothing THEN Nothing
                         ELSE [Ts |-> si.Ts, net_rx |-> [g \in DOMAIN si.Vms |-> si.Vms[g].net_rx]]]
    /\ did' = NoWork
    /\ host.faults + Cardinality(skip) <= MaxFaults
    /\ host' = [host EXCEPT !.faults = @ + Cardinality(skip)]

FiguresNext == Work \/ Snapshot \/ \E g \in Guest : Stop(g) \/ Boot(g)

FiguresSpec == FiguresInit /\ [][FiguresNext]_figuresVars

-----------------------------------------------------------------------------
(* Properties                                                               *)

\* The VMs in this snapshot and in the one before it, and the time between them.
Compared == IF si = Nothing \/ last.old = Nothing THEN {} ELSE DOMAIN si.Vms \cap DOMAIN last.old.net_rx
Interval == si.Ts - last.old.Ts

\* The figures of a VM that did not stop since the last snapshot tell what it used and
\* received in between, wherever its counters wrapped: Counter_delta_uint64 and
\* Counter_delta_int64 find the difference again.  A VM that stopped has new counters,
\* below the old ones: the difference is negative and not taken for traffic.  (Only a
\* counter that had wrapped, and is negative, fools it.)
DeltasExact ==
  \A g \in Compared :
    /\ g \notin last.did.stopped /\ Interval > 0 =>
         /\ si.Vms[g].CpuUtilization = (Percent * last.did.cpu[g]) \div (Ms * Interval)
         /\ si.Vms[g].NetRxBw = (Sec * last.did.rx[g]) \div (KiB * Interval)
    /\ last.old.net_rx[g] >= 0 =>
         /\ si.Vms[g].NetRxBw >= 0
         /\ si.Vms[g].NetRxBw * KiB * Interval <= Sec * last.did.rx[g]

\* What is called used by the OS is what the rest of the host uses, but for what the
\* divisions lose: of normal memory always, of huge pages when the VMs that have them
\* run, of the processor when no VM stopped.  What is available to more VMs rests on it.
UsedosIsTheOs ==
  si # Nothing /\ last.skip = {} =>
    LET n == Cardinality(Guest) IN
    /\ si.Memory.Usedos * KiB - last.os \in -(KiB - 1)..((KiB - 1) * (2 + n))
    /\ Hugepages \subseteq last.on => si.Hp.Usedos * KiB \in -(KiB - 1)..((KiB - 1) * (1 + n))
    /\ (si.Cpu # Nothing /\ last.did.stopped = {} /\ Compared = Guest) =>
         si.Cpu.Usedos * (Interval * Ms) - MHz * last.did.os
           \in -(3 * (Interval * Ms - 1))..(((n * MHz + Percent - 1) * (Interval * Ms)) \div Percent)
=============================================================================
