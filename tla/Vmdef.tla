-------------------------------- MODULE Vmdef --------------------------------
(***************************************************************************)
(* pkg/vmdef: a VM definition of the API and the domain XML libvirt keeps  *)
(* of it.  vm_create and vm_update go from one to the other with Validate  *)
(* and To_xml; vm_get, vm_update and vm_register come back with From_xml.  *)
(*                                                                         *)
(* An XML document is the record of its elements, those left out that are  *)
(* the same in every domain.  An optional element that is not there is     *)
(* Absent.  A path is a record too: dir is where it leads, ext its         *)
(* extension, and <<prefix, key>> the last part of a path below /dev.      *)
(***************************************************************************)
EXTENDS Integers, Sequences, FiniteSets, Functions

CONSTANTS DISKS_MAX, NETS_MAX, VLAN_MAX,
          Vmdefs,      \* the definitions clients may ask for
          Absent

VARIABLES vm,          \* the definition a client asked for
          xml          \* the XML libvirt and the registry keep, or Absent

vmdefVars == <<vm, xml>>

-----------------------------------------------------------------------------
(* pkg/model: the enumerations, and the words the XML has for them          *)

DiskDevice == {"DISK", "CDROM", "LUN"}
DiskBus == {"VIRTIO_BLK", "VIRTIO_SCSI", "SATA", "SCSI"}
DiskManMode == {"UNMANAGED", "MANAGED"}
DiskProvMode == {"NONE", "THIN", "THICK"}
NetType == {"LIBVIRT", "BRIDGE"}
NetModel == {"VIRTIO", "E1000E", "E1000"}
FirmwareType == {"BIOS", "UEFI"}

\* The model's types of a definition: the JSON of a request has a value of each.
Path == [dir : STRING, ext : STRING, base : STRING \X Seq(STRING)]
Disk == [Path : Path, Device : DiskDevice, Bus : DiskBus, Man : DiskManMode,
         Prov : DiskProvMode, Size : Int]
Net == [Name : STRING, Nettype : NetType, Model : NetModel, Mac : STRING]
Custom == [Name : STRING, Value : STRING]
Definition ==
  [Name : STRING, Memory : [Total : Int, Hp : BOOLEAN],
   Cpudef : [Model : STRING, Nodes : Int, Sockets : Int, Cores : Int, Threads : Int],
   Numa : BOOLEAN, Firmware : FirmwareType, Genid : STRING, Vlanid : Int,
   Nets : Seq(Net), Custom : Seq(Custom), Osdisk : Disk, Disks : Seq(Disk)]

\* The letters of the alphabet are enough for DISKS_MAX disks and the two that come with
\* them: the OS disk, and the ISO of cloud-init.
ASSUME VmdefAssumption ==
  /\ DISKS_MAX \in 0..24 /\ NETS_MAX \in Nat /\ VLAN_MAX \in Nat
  /\ Vmdefs \subseteq Definition
  /\ Absent \notin STRING /\ Absent \notin Int
  /\ Absent \notin [threads : Int] /\ Absent \notin [placement : STRING]

\* A literal is a string; the provers have to be told.
ASSUME LiteralAssumption == {"auto", "generated"} \subseteq STRING

DeviceString == [DISK |-> "disk", CDROM |-> "cdrom", LUN |-> "lun"]
DeviceParse == [cdrom |-> "CDROM", disk |-> "DISK", lun |-> "LUN"]
ModelString == [VIRTIO |-> "virtio", E1000E |-> "e1000e", E1000 |-> "e1000"]
ModelParse == [virtio |-> "VIRTIO", e1000e |-> "E1000E", e1000 |-> "E1000"]
FirmwareString == [BIOS |-> "bios", UEFI |-> "efi"]
FirmwareParse == [bios |-> "BIOS", efi |-> "UEFI"]
Machine == [BIOS |-> "pc", UEFI |-> "q35"]
ManString == [UNMANAGED |-> "U", MANAGED |-> "M"]
ManParse == [U |-> "UNMANAGED", M |-> "MANAGED"]
ProvString == [NONE |-> "U", THIN |-> "t", THICK |-> "T"]
ProvParse == [U |-> "NONE", t |-> "THIN", T |-> "THICK"]

\* A variant of BusParse: the model of the controller is not looked at.
BusParseType(type, model) ==
  CASE type = "virtio" -> "VIRTIO_BLK" [] type = "sata" -> "SATA" [] type = "scsi" -> "SCSI"

BusParse(type, model) ==
  CASE type = "virtio" -> "VIRTIO_BLK"
    [] type = "sata" -> "SATA"
    [] type = "scsi" -> IF model = "virtio-scsi" THEN "VIRTIO_SCSI" ELSE "SCSI"

-----------------------------------------------------------------------------
(* Validate                                                                 *)

\* The OS disk is the first.
Disks(v) == <<v.Osdisk>> \o v.Disks

\* int16 arithmetic.
Int16(n) == ((n + 32768) % 65536) - 32768

\* uint of a negative product is a number libvirt does not take.
vmdef_get_vcpus(v) == Int16(Int16(v.Cpudef.Sockets * v.Cpudef.Cores) * v.Cpudef.Threads)

Disk_driver(p) == CASE p.ext = "qcow2" -> "qcow2" [] p.ext \in {"iso", "raw"} -> "raw" [] OTHER -> ""

Validate_disk_path(p) ==
  CASE p.dir = "dev" -> "raw"
    [] p.dir = "ds" -> Disk_driver(p)
    [] OTHER -> ""                     \* empty, relative, not clean, or elsewhere

vmdef_validate_disk(d) ==
  /\ d.Size >= 0
  /\ Validate_disk_path(d.Path) # ""
  /\ d.Device \in DiskDevice /\ d.Bus \in DiskBus
  /\ d.Prov \in DiskProvMode /\ d.Man \in DiskManMode
  /\ d.Device = "LUN" => d.Bus = "VIRTIO_SCSI"
  /\ d.Device = "CDROM" => d.Bus \in {"VIRTIO_SCSI", "SCSI", "SATA"}

\* Names, MACs and generation ids are "", of a length that is right, or "wrong".
Validate(v) ==
  /\ v.Name \notin {"", "wrong"}
  /\ v.Memory.Total >= 1
  /\ v.Cpudef.Model # ""
  /\ v.Cpudef.Sockets >= 1 /\ v.Cpudef.Cores >= 1 /\ v.Cpudef.Threads = 1
  /\ v.Genid # "wrong"
  /\ Len(v.Disks) <= DISKS_MAX /\ Len(v.Nets) <= NETS_MAX
  /\ v.Vlanid \in 0..VLAN_MAX
  /\ \A i \in DOMAIN Disks(v) : vmdef_validate_disk(Disks(v)[i])
  /\ \A i \in DOMAIN v.Nets : v.Nets[i].Mac # "wrong" /\ v.Nets[i].Model \in NetModel
  /\ \A i \in DOMAIN v.Custom : v.Custom[i].Name # "" => v.Custom[i].Value # "wrong"

-----------------------------------------------------------------------------
(* pkg/lockman: the names of resources                                      *)

dev_disks_prefixes == {"dm-uuid-mpath-", "scsi-", "nvme-", "wwn-0x"}

\* A variant of Get_resource_name: wwn names are not normalized.
Get_resource_name_raw(device, p) ==
  IF device = "LUN" THEN p.base[2] ELSE <<"md5", IF p.dir = "ds" THEN p.base ELSE p>>

\* The md5 of a path stands for the path, DS_DIR taken off.
Get_resource_name(device, p) ==
  CASE device = "LUN" /\ p.base[1] = "wwn-0x" -> <<"3">> \o p.base[2]
    [] device = "LUN" /\ p.base[1] \in dev_disks_prefixes \ {"wwn-0x"} -> p.base[2]
    [] device = "LUN" /\ p.base[1] \notin dev_disks_prefixes -> p.base
    [] OTHER -> <<"md5", IF p.dir = "ds" THEN p.base ELSE p>>

-----------------------------------------------------------------------------
(* To_xml                                                                   *)

\* The XML as it grows: the disks per type of controller, the I/O threads, the number
\* of the next disk to boot from, and the elements so far.  SCSI controller 0 is for
\* cloud-init.
NoElements == [count |-> [scsi |-> 1, sata |-> 0, virtio |-> 0], io |-> 0, boot |-> 1,
               disks |-> <<>>, leases |-> <<>>,
               ctrls |-> <<[type |-> "scsi", index |-> 0, model |-> "virtio-scsi", io |-> Absent]>>]

CtrlType(bus) == CASE bus \in {"SCSI", "VIRTIO_SCSI"} -> "scsi" [] bus = "SATA" -> "sata" [] OTHER -> "virtio"
CtrlModel(bus) == CASE bus = "SCSI" -> "lsilogic" [] bus = "VIRTIO_SCSI" -> "virtio-scsi" [] OTHER -> ""

\* A variant of DeviceName: the two kinds of "sd" disks are counted apart.
DeviceNameApart(st, type) ==
  IF type = "virtio" THEN <<"vd", st.count.virtio>> ELSE <<"sd", st.count[type]>>

\* "vda", "vdb"...; or "sdb", "sdc"..., "sda" being the ISO of cloud-init.
DeviceName(st, type) ==
  IF type = "virtio" THEN <<"vd", st.count.virtio>>
  ELSE <<"sd", st.count.scsi + st.count.sata>>

vmdef_lease(d) == Get_resource_name(d.Device, d.Path)

\* The disks of a bus with I/O threads have one each, of the disk or of its controller;
\* the first disk and CDROMs are booted from.
Threaded(d) == d.Bus \in {"VIRTIO_SCSI", "VIRTIO_BLK"}
IoThreads(st, d) == IF Threaded(d) THEN st.io + 1 ELSE st.io
Boots(st, d) == st.boot = 1 \/ d.Device = "CDROM"

domain_disk(st, d) ==
  LET type == CtrlType(d.Bus)
      model == CtrlModel(d.Bus)
      n == st.count[type]
  IN
  [device |-> DeviceString[d.Device], driver |-> Validate_disk_path(d.Path),
   block |-> IF d.Device = "LUN" THEN d.Path ELSE Absent,
   file |-> IF d.Device = "LUN" THEN Absent ELSE d.Path,
   target |-> [dev |-> DeviceName(st, type), bus |-> type],
   io |-> IF d.Bus = "VIRTIO_BLK" THEN IoThreads(st, d) ELSE Absent,
   boot |-> IF Boots(st, d) THEN st.boot ELSE Absent,
   alias |-> <<ManString[d.Man], ProvString[d.Prov], type, model, n>>,
   controller |-> IF model = "" THEN Absent ELSE n]

domain_controller(st, d) ==
  [type |-> CtrlType(d.Bus), index |-> st.count[CtrlType(d.Bus)], model |-> CtrlModel(d.Bus),
   io |-> IF Threaded(d) THEN IoThreads(st, d) ELSE Absent]

Disk_to_xml(st, d) ==
  [count |-> [st.count EXCEPT ![CtrlType(d.Bus)] = @ + 1],
   io |-> IoThreads(st, d),
   boot |-> IF Boots(st, d) THEN st.boot + 1 ELSE st.boot,
   disks |-> Append(st.disks, domain_disk(st, d)),
   leases |-> IF d.Man = "UNMANAGED" THEN st.leases ELSE Append(st.leases, vmdef_lease(d)),
   ctrls |-> IF CtrlModel(d.Bus) = "" THEN st.ctrls ELSE Append(st.ctrls, domain_controller(st, d))]

\* One disk after the other.
Elements(disks) ==
  LET st[i \in 0..Len(disks)] == IF i = 0 THEN NoElements ELSE Disk_to_xml(st[i - 1], disks[i])
  IN st[Len(disks)]

Modes == {"host-model", "host-passthrough", "maximum"}

\* bits.Len64
BitLen(n) == CHOOSE k \in 0..31 : (k = 31 \/ n < 2^k) /\ (k = 0 \/ n >= 2^(k - 1))

domain_cpu(v) ==
  [migratable |-> IF v.Cpudef.Model \in Modes \ {"host-model"} THEN "on" ELSE "",
   mode |-> IF v.Cpudef.Model \in Modes THEN v.Cpudef.Model ELSE "",
   model |-> IF v.Cpudef.Model \in Modes THEN Absent ELSE v.Cpudef.Model,
   topology |-> <<v.Cpudef.Sockets, v.Cpudef.Cores, v.Cpudef.Threads>>,
   physbits |-> IF BitLen(v.Memory.Total) + 20 < 36 THEN 36 ELSE BitLen(v.Memory.Total) + 20]

domain_memory(v) == [value |-> v.Memory.Total, unit |-> "MiB"]

\* Huge pages are allocated by as many threads as there are vcpus.
domain_memory_backing(v) == IF v.Memory.Hp THEN [threads |-> vmdef_get_vcpus(v)] ELSE Absent

domain_numatune(v) == IF v.Numa THEN [placement |-> "auto"] ELSE Absent

domain_os(v) ==
  [firmware |-> FirmwareString[v.Firmware], machine |-> Machine[v.Firmware],
   bios |-> v.Firmware = "BIOS"]

domain_genid(v) ==
  CASE v.Genid = "" -> Absent [] v.Genid = "auto" -> "" [] OTHER -> v.Genid

domain_interface(v, n) ==
  [mac |-> IF n.Mac = "" THEN Absent ELSE n.Mac,
   bridge |-> IF n.Nettype = "BRIDGE" THEN n.Name ELSE Absent,
   network |-> IF n.Nettype = "LIBVIRT" THEN n.Name ELSE Absent,
   vlan |-> IF v.Vlanid > 0 THEN v.Vlanid ELSE Absent,
   model |-> ModelString[n.Model]]

\* metadata.Vm: fields without a name are left out.
AddField(meta, c) == IF c.Name = "" THEN meta ELSE Append(meta, c)

MetaToXml(custom) ==
  LET meta[i \in 0..Len(custom)] == IF i = 0 THEN <<>> ELSE AddField(meta[i - 1], custom[i])
  IN meta[Len(custom)]

To_xml(v) ==
  LET st == Elements(Disks(v)) IN
  [title |-> v.Name,
   vcpus |-> vmdef_get_vcpus(v),
   iothreads |-> st.io + Len(v.Nets),
   cpu |-> domain_cpu(v),
   memory |-> domain_memory(v), backing |-> domain_memory_backing(v),
   numatune |-> domain_numatune(v),
   os |-> domain_os(v),
   disks |-> st.disks, controllers |-> st.ctrls, leases |-> st.leases,
   interfaces |-> [i \in DOMAIN v.Nets |-> domain_interface(v, v.Nets[i])],
   genid |-> domain_genid(v),
   meta |-> MetaToXml(v.Custom)]

-----------------------------------------------------------------------------
(* libvirt keeps the XML                                                    *)

\* virDomainDefineXML: memory in KiB, a mode for the CPU, and the ids that were left to
\* it; in XML that is defined anew they are there.
Defined(x) ==
  [x EXCEPT !.memory = [value |-> IF x.memory.unit = "MiB" THEN 1024 * x.memory.value ELSE x.memory.value,
                        unit |-> "KiB"],
            !.cpu.mode = IF x.cpu.mode = "" THEN "custom" ELSE x.cpu.mode,
            !.genid = IF x.genid = "" THEN "generated" ELSE x.genid,
            !.interfaces = [i \in DOMAIN x.interfaces |-> [x.interfaces[i] EXCEPT
               !.mac = IF x.interfaces[i].mac = Absent THEN "generated" ELSE x.interfaces[i].mac]]]

\* A migration: the firmware is not part of migratable XML.
Migrated(x) == [x EXCEPT !.os.firmware = Absent]

-----------------------------------------------------------------------------
(* From_xml                                                                 *)

vmdef_disk_from_xml(e) ==
  [Path |-> IF DeviceParse[e.device] = "LUN" THEN e.block ELSE e.file,
   Device |-> DeviceParse[e.device], Bus |-> BusParse(e.alias[3], e.alias[4]),
   Man |-> ManParse[e.alias[1]], Prov |-> ProvParse[e.alias[2]], Size |-> 0]

\* The disk to boot from first is the OS disk, the others are in the order of the XML.
NoDisks == [Osdisk |-> Absent, Disks |-> <<>>]

AddDisk(got, e) ==
  IF e.boot = 1 THEN [got EXCEPT !.Osdisk = vmdef_disk_from_xml(e)]
  ELSE [got EXCEPT !.Disks = Append(@, vmdef_disk_from_xml(e))]

DisksFromXml(elements) ==
  LET got[i \in 0..Len(elements)] == IF i = 0 THEN NoDisks ELSE AddDisk(got[i - 1], elements[i])
  IN got[Len(elements)]

FirmwareFromXml(x) ==
  IF x.os.firmware # Absent THEN FirmwareParse[x.os.firmware] ELSE IF x.os.bios THEN "BIOS" ELSE "UEFI"

NetFromXml(e) ==
  [Name |-> IF e.bridge # Absent THEN e.bridge ELSE e.network,
   Nettype |-> IF e.bridge # Absent THEN "BRIDGE" ELSE "LIBVIRT",
   Model |-> ModelParse[e.model], Mac |-> IF e.mac = Absent THEN "" ELSE e.mac]

MetaFromXml(meta) == [i \in DOMAIN meta |-> [Name |-> meta[i].Name, Value |-> meta[i].Value]]

From_xml(x) ==
  LET disks == DisksFromXml(x.disks)
      last == Len(x.interfaces)
  IN
  [Name |-> x.title,
   Cpudef |-> [Model |-> IF x.cpu.mode \notin {"", "custom"} THEN x.cpu.mode ELSE x.cpu.model, Nodes |-> 0,
               Sockets |-> x.cpu.topology[1], Cores |-> x.cpu.topology[2], Threads |-> x.cpu.topology[3]],
   Memory |-> [Total |-> x.memory.value \div 1024, Hp |-> x.backing # Absent],
   Numa |-> x.numatune # Absent,
   Osdisk |-> disks.Osdisk, Disks |-> disks.Disks,
   Nets |-> [i \in DOMAIN x.interfaces |-> NetFromXml(x.interfaces[i])],
   Vlanid |-> IF last = 0 \/ x.interfaces[last].vlan = Absent THEN 0 ELSE x.interfaces[last].vlan,
   Firmware |-> FirmwareFromXml(x),
   Genid |-> IF x.genid = Absent THEN "" ELSE x.genid,
   Custom |-> MetaFromXml(x.meta)]

-----------------------------------------------------------------------------
VmdefInit == vm \in Vmdefs /\ xml = Absent

\* virDomainDefineXML refuses a number of vcpus that is not the topology's.
Accepts(x) == x.vcpus = x.cpu.topology[1] * x.cpu.topology[2] * x.cpu.topology[3]

\* vm_create, when the definition is not refused.
vm_create ==
  /\ xml = Absent
  /\ Validate(vm)
  /\ Accepts(To_xml(vm))
  /\ xml' = Defined(To_xml(vm))
  /\ UNCHANGED vm

\* Migrate_domain persists the domain on the other host from migratable XML.
vm_migrate ==
  /\ xml # Absent
  /\ xml' = Defined(Migrated(xml))
  /\ UNCHANGED vm

\* vm_update with the definition that vm_get has just shown.
vm_update ==
  /\ xml # Absent
  /\ Validate(From_xml(xml))
  /\ Accepts(To_xml(From_xml(xml)))
  /\ xml' = Defined(To_xml(From_xml(xml)))
  /\ UNCHANGED vm

VmdefNext == vm_create \/ vm_migrate \/ vm_update

VmdefSpec == VmdefInit /\ [][VmdefNext]_vmdefVars

-----------------------------------------------------------------------------
(* Properties                                                               *)

\* What is kept of a definition: a size has no place in the XML, nor have a field without
\* a name and the VLAN of no networks; libvirt fills in ids.
KeptDisk(d) ==
  [Path |-> d.Path, Device |-> d.Device, Bus |-> d.Bus, Man |-> d.Man, Prov |-> d.Prov, Size |-> 0]

KeptNet(n) ==
  [Name |-> n.Name, Nettype |-> n.Nettype, Model |-> n.Model,
   Mac |-> IF n.Mac = "" THEN "generated" ELSE n.Mac]

Kept(v) ==
  [Name |-> v.Name, Memory |-> v.Memory, Cpudef |-> [v.Cpudef EXCEPT !.Nodes = 0],
   Numa |-> v.Numa, Firmware |-> v.Firmware,
   Genid |-> IF v.Genid = "auto" THEN "generated" ELSE v.Genid,
   Vlanid |-> IF v.Nets = <<>> THEN 0 ELSE v.Vlanid,
   Nets |-> [i \in DOMAIN v.Nets |-> KeptNet(v.Nets[i])],
   Custom |-> MetaToXml(v.Custom),
   Osdisk |-> KeptDisk(v.Osdisk),
   Disks |-> [i \in DOMAIN v.Disks |-> KeptDisk(v.Disks[i])]]

\* vm_get shows the definition vm_create was given, after any number of migrations and
\* of updates with what vm_get showed, and such an update is never refused: To_xml writes
\* all that From_xml needs into boot orders and aliases, and the firmware is found again
\* from the BIOS element when libvirt has stripped it.
DefinitionKept == xml # Absent => From_xml(xml) = Kept(vm) /\ Validate(From_xml(xml))

\* The devices of a domain do not collide, whatever the mix of buses and up to DISKS_MAX
\* disks: one target name per disk, none the "sda" of the cloud-init ISO or past "z"; one
\* controller per type and index, among them every one a disk is addressed to, with the
\* model of its bus; one I/O thread per user, and all of them among <iothreads>; one boot
\* order per bootable disk, the OS disk's being the first.
DevicesFit ==
  xml # Absent =>
    LET D == xml.disks
        C == xml.controllers
        io == [i \in DOMAIN D |-> D[i].io] \o [i \in DOMAIN C |-> C[i].io]
        boot == [i \in DOMAIN D |-> D[i].boot]
        distinct(s) == \A i, j \in DOMAIN s : s[i] # Absent /\ s[i] = s[j] => i = j
    IN
    /\ IsInjective([i \in DOMAIN D |-> D[i].target.dev])
    /\ \A i \in DOMAIN D : D[i].target.dev # <<"sd", 0>> /\ D[i].target.dev[2] < 26
    /\ IsInjective([i \in DOMAIN C |-> <<C[i].type, C[i].index>>])
    /\ \A i \in DOMAIN D : D[i].controller # Absent =>
         \E j \in DOMAIN C : /\ C[j].type = D[i].target.bus /\ C[j].index = D[i].controller
                            /\ C[j].model = D[i].alias[4]
    /\ distinct(io) /\ \A i \in DOMAIN io : io[i] # Absent => io[i] \in 1..xml.iothreads
    /\ distinct(boot) /\ D[1].boot = 1
    /\ \A i \in DOMAIN D : D[i].device = "cdrom" => D[i].boot # Absent

\* The unit of a path below /dev/disk/by-id: udev names one by its NAA id, with a "3" in
\* front in scsi- and dm-uuid-mpath- names.
Lun(p) == IF p.base[1] = "wwn-0x" THEN <<"3">> \o p.base[2] ELSE p.base[2]

\* Two managed disks that are LUNs have one lease exactly when they are one unit,
\* whichever of its udev names each of them has: Get_resource_name makes one name of all.
\* The leases are those of the managed disks, in their order.
OneLeasePerLun ==
  xml # Absent =>
    LET disks == Disks(From_xml(xml))
        managed == {i \in DOMAIN disks : disks[i].Man = "MANAGED"}
        luns == {i \in managed : disks[i].Device = "LUN" /\ disks[i].Path.base[1] \in dev_disks_prefixes}
        lease(i) == xml.leases[Cardinality({k \in managed : k <= i})]
    IN
    /\ Len(xml.leases) = Cardinality(managed)
    /\ \A i, j \in luns : (lease(i) = lease(j)) = (Lun(disks[i].Path) = Lun(disks[j].Path))
=============================================================================
