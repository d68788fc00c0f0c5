CONSTANTS
  coder = coder
  reviewer = reviewer
  pass = pass
  fix = fix
  feed = feed
  None = None
  Session <- RingSession
  Edge <- RingEdge
  Def <- RingDef
  Bundle = {coder}
  HumanKind = {"activate", "workflow"}
  MaxHuman = 3
  MaxReport = 1
  MaxFail = 1
  MaxAbort = 1
  MaxCrash = 0
SPECIFICATION Spec
CHECK_DEADLOCK FALSE
INVARIANTS
  LiveIsFold
