SPECIFICATION Spec
CONSTANTS
  DISKS_MAX = 20
  NETS_MAX = 8
  VLAN_MAX = 4094
  Vmdefs <- SomeVmdefs
  Absent = Absent
  BASE = 8
  MAX_MESSAGE_SIZE = 48
  Messages <- SomeMessages
  Err = Err
  M64 = 64
  M32 = 32
  KiB = 2
  Percent = 4
  Sec = 2
  Ms = 2
  Guest <- TwoGuests
  Hugepages = {"huge"}
  Capacity <- Capacities
  Rss <- RssSizes
  MHz = 3
  Nodeinfo <- HostMemory
  OsMemory = {2, 5}
  FirstCounts = {0, 30, 62}
  MaxTs = 3
  MaxFaults = 1
  Share = {0, 1, 2}
  Bytes = {0, 3}
  Nothing = Nothing
CHECK_DEADLOCK FALSE
INVARIANTS  DevicesFit  MessagesArriveWhole  
