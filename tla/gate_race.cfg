CONSTANTS
  coder = coder
  reviewer = reviewer
  pass = pass
  fix = fix
  feed = feed
  None = None
  Session <- GateSession
  Edge <- GateEdge
  Def <- GateDef
  Bundle = {coder}
  HumanKind = {"activate", "approve", "workflow"}
  MaxHuman = 4
  MaxReport = 2
  MaxFail = 0
  MaxAbort = 0
  MaxCrash = 0
SPECIFICATION Spec
CHECK_DEADLOCK FALSE
INVARIANTS
  GateRespected
