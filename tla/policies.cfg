CONSTANTS
  coder = coder
  reviewer = reviewer
  pass = pass
  fix = fix
  feed = feed
  None = None
  Session <- PolicySession
  Edge <- PolicyEdge
  Def <- PolicyDef
  Bundle = {coder}
  HumanKind = {"activate", "stop", "workflow"}
  MaxHuman = 3
  MaxReport = 2
  MaxFail = 1
  MaxAbort = 0
  MaxCrash = 0
SPECIFICATION Spec
CHECK_DEADLOCK FALSE
PROPERTIES
  StoppedEdgeHolds
  KilledHolds
