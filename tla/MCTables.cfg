SPECIFICATION Spec
CONSTANTS
  MemSize = 10
  MemMin = 1
  MemMax = 4
  MemOther = TRUE
  RxDescs = 2
  RxBufs = {"b1", "b2", "b3"}
  NoBuf = "none"
  RxMask = {"CE", "RE"}
  RxStatuses = {{}, {"ES", "LE", "LS"}}
  RxFrames = 2
  RxMbox = 1
  TxDescs = 3
  TxFrames = 4
  TxClens = {1, 2}
  TxSlow = TRUE
  TxPriority = FALSE
  LinkModes <- MCModes
  LinkOff <- MCOff
  LinkMbox = 2
  LinkChanges = 4
  ArpEntries = 2
  ArpHosts = {"h1", "h2", "h3"}
  ArpGateway = "h1"
  ArpMacs = {"m1", "m2"}
  ArpPackets = {"p1"}
  ArpMaxAge = 4
  ArpRerequest = 3
  ArpMaxPending = 2
  ArpFeatures = {"memory", "trust", "other", "static"}
  PcbBlocks = 3
  PcbFirst = 5
  PcbPorts = {7}
  PcbMsl2 = 1
  PcbTicks = 1
  SrvLast = 5
  SrvAddrs = {1, 2}
  SrvPrios = {1, 2}
  AppLast = 6
  AppAddr = 1
  AppPrios = {1}
INVARIANTS
  LinkSound
  MemSound
  BlocksSound
PROPERTIES
  RxSound
  TxSound
  
CHECK_DEADLOCK FALSE
