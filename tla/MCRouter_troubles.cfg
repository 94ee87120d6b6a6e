SPECIFICATION Spec
CONSTRAINT OneTrouble
SYMMETRY Symmetry
CONSTANTS
  Chan = {c1, c2, c3}
  Server = {0, 1}
  ReqId = {q1, q2}
  InfoId = {i1, i2}
  CommId = {kAll, kGrp, kOne}
  oa = oa
  ob = ob
  ox = ox
  kAll = kAll
  kGrp = kGrp
  kOne = kOne
  kBad = kBad
  Obj = {oa, ob}
  Home <- MCHome
  Members <- MCMembers
  Ops <- FewOps
  NoChan = NoChan
  NoRoute = NoRoute
  NoComm = NoComm
  NoObj = NoObj
  NoServer = NoServer
  Free = Free
  MaxClients = 2
  MaxAsks = 2
  MaxStarts = 2
  MayLeave = TRUE
  MayDie = {0}
CHECK_DEADLOCK FALSE
INVARIANTS
  CastIsSafe
  RightObject
  AnswersWhole
