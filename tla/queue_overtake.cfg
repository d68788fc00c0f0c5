CONSTANTS
  coder = coder
  reviewer = reviewer
  pass = pass
  fix = fix
  feed = feed
  None = None
  Session <- LineSession
  Edge <- LineEdge
  Def <- LineDef
  Bundle = {coder}
  HumanKind = {"activate", "workflow"}
  MaxHuman = 3
  MaxReport = 3
  MaxFail = 0
  MaxAbort = 0
  MaxCrash = 0
SPECIFICATION Spec
CHECK_DEADLOCK FALSE
PROPERTIES
  QueueFiresOldest
