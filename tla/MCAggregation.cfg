SPECIFICATION Spec
CONSTANTS
  Client = {c1, c2}
  ReqId = {q1, q2}
  InfoId = {i1, i2}
  o1 = o1
  o2 = o2
  kAll = kAll
  kGrp = kGrp
  CommId <- MCComm
  Obj <- MCObj
  Members <- MCMembers
  NoComm = NoComm
  Free = Free
SYMMETRY Symmetry
INVARIANTS
  ResponsesExpected
  AnswersComplete
  AnsweredOnce
  MissingInFlight
CHECK_DEADLOCK FALSE
