SPECIFICATION Spec
SYMMETRY Symmetry
CONSTANTS
  Chan = {c1, c2, c3, c4}
  Server = {0, 1}
  ReqId = {q1, q2}
  InfoId = {i1, i2}
  CommId = {kAll, kGrp, kOne}
  oa = oa
  ob = ob
  ox = ox
  kAll = kAll
  kGrp = kGrp
  kOne = kOne
  kBad = kBad
  Obj = {oa, ob}
  Home <- MCHome
  Members <- MCMembers
  Ops <- AllOps
  NoChan = NoChan
  NoRoute = NoRoute
  NoComm = NoComm
  NoObj = NoObj
  NoServer = NoServer
  Free = Free
  MaxClients = 2
  MaxAsks = 2
  MaxStarts = 1
  MayLeave = FALSE
  MayDie = {}
CHECK_DEADLOCK FALSE
INVARIANTS
  NoAbort
  CalmIInv
PROPERTIES
  KeepsPromise
