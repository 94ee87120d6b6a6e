SPECIFICATION MCSpec
CONSTANTS
  App = {c1}
  SrvId = s
  CommId = {1, 2}
  ServedObj = {"here", "there", "strange"}
  Upstream = {"there"}
  Strange = {"strange"}
  Op = {"get", "log", "samples"}
  ReqId = {1, 2}
  MaxQueue = 1
  NoObj = "NoObj"
  Nets <- MCNets
  Servers <- MCServers
  Asks = {1, 2}
  MaxHops = 5
  MayDie = TRUE
  NoRtr = NoRtr
  Size = 2
  Jobs <- MCJobs
  ArgSets <- MCArgSets
  Uplink <- MCUplink
  ClientNid = 1
  MaxDies = 1
CHECK_DEADLOCK FALSE
INVARIANTS ErrorsTold
