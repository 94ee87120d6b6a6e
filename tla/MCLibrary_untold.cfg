SPECIFICATION MCSpec
CONSTANTS
  Configs <- MCPgConfigs
  Attr = {"energy", "power", "freq"}
  MaxElems = 2
  MaxFiles = 2
  WuAttr = {"power", "frequency"}
  MaxCmds = 3
  Reader = {t1, t2}
  MaxRounds = 4
  Root = "root"
  Leaf = {"a", "b", "q", "r"}
  Where <- MCWhere
  NoLog = {"b"}
  Kids <- MCKids
  TypeOf <- MCTypeOf
  GrpId = {"g1", "g2"}
  StatId = {s1}
  Docs <- MCDocs
  CtxAttr = {"energy", "power"}
  LgrArgs <- MCArgs
  LgrObj <- MCObj
  LgrTypes = {"Node"}
  MaxEnergy = 3
  MaxRnds = 4
  MaxSize = 2
  MaxMade = 1
  Careless = TRUE
CHECK_DEADLOCK FALSE
INVARIANT AllTell
