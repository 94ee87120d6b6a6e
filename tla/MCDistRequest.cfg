SPECIFICATION FairSpec
CONSTANTS
  Op = {p1, p2}
  Req = {r1, r2}
  CReq = {q1, q2}
  Calls <- MCCalls
  NoOp = NoOp
  NoReq = NoReq
  Free = Free
CHECK_DEADLOCK FALSE
INVARIANTS
  AnswersExpected
  SuccessIsWhole
  CallbackOnce
PROPERTIES
  WaitReturns
