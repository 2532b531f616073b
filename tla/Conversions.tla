----------------------------- MODULE Conversions -----------------------------
(***************************************************************************)
(* The conversions and calculations of virtxd over bounded inputs: VM      *)
(* definitions to XML and back, messages to bytes and back, readings to    *)
(* figures.  Each behaviour follows one of them.                           *)
(***************************************************************************)
EXTENDS Vmdef, Wire, Figures

-----------------------------------------------------------------------------
(* Definitions                                                              *)

DsPath(name, ext) == [dir |-> "ds", ext |-> ext, base |-> <<"", <<name>>>>]
DevPath(prefix, id) == [dir |-> "dev", ext |-> "", base |-> <<prefix, id>>]
Elsewhere == [dir |-> "tmp", ext |-> "raw", base |-> <<"", <<"a">>>>]

NewDisk(path, device, bus, man, prov) ==
  [Path |-> path, Device |-> device, Bus |-> bus, Man |-> man, Prov |-> prov, Size |-> 10]

\* Each device on each of its buses, a LUN by each of its names, another LUN, and disks
\* that are refused.
DiskKinds ==
  {NewDisk(DsPath("a", "qcow2"), "DISK", bus, "MANAGED", "THIN") : bus \in DiskBus}
  \cup {NewDisk(DsPath("b", "raw"), "DISK", bus, "UNMANAGED", "NONE") : bus \in {"SATA", "VIRTIO_BLK"}}
  \cup {NewDisk(DsPath("c", "iso"), "CDROM", bus, "UNMANAGED", "NONE") : bus \in DiskBus}
  \cup {NewDisk(p, "LUN", "VIRTIO_SCSI", "MANAGED", "THICK") :
          p \in {DevPath("wwn-0x", <<"6", "1">>), DevPath("scsi-", <<"3", "6", "1">>),
                 DevPath("dm-uuid-mpath-", <<"3", "6", "1">>), DevPath("wwn-0x", <<"6", "2">>),
                 DevPath("nvme-", <<"eui.6", "1">>)}}
  \cup {NewDisk(DevPath("scsi-", <<"3", "6", "1">>), "LUN", "SCSI", "MANAGED", "THICK"),
        NewDisk(Elsewhere, "DISK", "SATA", "MANAGED", "THICK"),
        NewDisk(DsPath("a", "txt"), "DISK", "SATA", "MANAGED", "THICK")}

NetKinds ==
  {[Name |-> "n", Nettype |-> t, Model |-> m, Mac |-> mac] :
     t \in NetType, m \in {"VIRTIO", "E1000"}, mac \in {"", "mac", "wrong"}}

Plain ==
  [Name |-> "vm", Memory |-> [Total |-> 8, Hp |-> FALSE],
   Cpudef |-> [Model |-> "host-model", Nodes |-> 1, Sockets |-> 1, Cores |-> 2, Threads |-> 1],
   Numa |-> FALSE, Firmware |-> "BIOS", Genid |-> "", Vlanid |-> 0, Nets |-> <<>>, Custom |-> <<>>,
   Osdisk |-> NewDisk(DsPath("os", "qcow2"), "DISK", "VIRTIO_BLK", "MANAGED", "THIN"),
   Disks |-> <<>>]

UpTo(n, S) == UNION {[1..k -> S] : k \in 0..n}

\* Up to three disks of any kind; as many as there may be, and one more, of two buses in
\* turn; the other fields.
SomeVmdefs ==
  {[Plain EXCEPT !.Osdisk = o, !.Disks = d] : o \in DiskKinds, d \in UpTo(2, DiskKinds)}
  \cup {[Plain EXCEPT !.Disks = [i \in 1..k |->
           NewDisk(DsPath("a", "qcow2"), "DISK", IF i % 2 = 0 THEN b1 ELSE b2, "MANAGED", "THIN")]] :
           k \in {DISKS_MAX, DISKS_MAX + 1}, b1 \in DiskBus, b2 \in DiskBus}
  \cup {[Plain EXCEPT !.Nets = n, !.Vlanid = vlan, !.Firmware = f] :
           n \in UpTo(2, NetKinds), vlan \in {0, VLAN_MAX, VLAN_MAX + 1}, f \in FirmwareType}
  \cup {[Plain EXCEPT !.Name = name, !.Cpudef.Sockets = s, !.Cpudef.Cores = c, !.Cpudef.Threads = t,
                      !.Cpudef.Model = m, !.Memory = [Total |-> mem, Hp |-> hp], !.Numa = hp] :
           name \in {"", "vm"}, s \in {1, 300}, c \in {2, 300}, t \in {1, 2},
           m \in {"host-model", "EPYC"}, mem \in {0, 1, 200000}, hp \in BOOLEAN}
  \cup {[Plain EXCEPT !.Genid = g, !.Custom = c, !.Firmware = f] :
           g \in {"", "auto", "id", "wrong"}, f \in FirmwareType,
           c \in UpTo(2, {[Name |-> n, Value |-> v] : n \in {"", "k"}, v \in {"v", "wrong"}})}

-----------------------------------------------------------------------------
(* Messages                                                                 *)

Strings == {<<>>, <<1>>, <<BASE - 1, 0, 1>>}
Least(w) == -(BASE^w \div 2)

EventVals ==
  {<<u, h, r, t>> : u \in Strings, h \in Strings, r \in {0, 3, -1},
                    t \in {0, Least(8), -Least(8) - 1, BASE + 1}}

SomeMessages ==
  {[type |-> VmEvent, val |-> v] : v \in EventVals}
  \cup {[type |-> VmInfo, val |-> <<<<<<1>>, <<2>>, 3, BASE>>, name, vlan, custom, cpus>>] :
          name \in Strings, vlan \in {0, Least(2)}, cpus \in {1, -Least(2) - 1},
          custom \in UpTo(3, {<<k, v>> : k \in {<<>>, <<1>>}, v \in {<<>>, <<2, 3>>}})}
  \cup {[type |-> HostInfo,
         val |-> <<<<1>>, name, <<<<2>>, v>>, <<<<>>, 1, 1, Least(2), 1>>, c, mem, hp, v, <<>>, ts>>] :
          name \in Strings, v \in Strings, c \in {0, 1}, mem \in {1, Least(4)},
          hp \in {-1, -Least(4) - 1}, ts \in {BASE}}
  \cup {[type |-> Struct(<<Num("u8"), Num("i8"), Num("bool"), Slice(Num("u16"))>>),
         val |-> <<a, b, t, s>>] :
          a \in {0, BASE - 1}, b \in {-1, 1}, t \in BOOLEAN, s \in UpTo(2, {0, BASE^2 - 1})}

-----------------------------------------------------------------------------
vars == <<vmdefVars, wireVars, figuresVars>>

NoVmdef == vm = Absent /\ xml = Absent
NoMessage == msg = Err /\ payload = Err /\ got = Err
NoHost == host = Nothing /\ si = Nothing /\ did = Nothing /\ last = Nothing

Init ==
  \/ VmdefInit /\ NoMessage /\ NoHost
  \/ NoVmdef /\ WireInit /\ NoHost
  \/ NoVmdef /\ NoMessage /\ FiguresInit

Next ==
  \/ vm # Absent /\ VmdefNext /\ UNCHANGED <<wireVars, figuresVars>>
  \/ msg # Err /\ WireNext /\ UNCHANGED <<vmdefVars, figuresVars>>
  \/ host # Nothing /\ FiguresNext /\ UNCHANGED <<vmdefVars, wireVars>>

Spec == Init /\ [][Next]_vars
=============================================================================
