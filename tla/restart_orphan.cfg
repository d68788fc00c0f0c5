CONSTANTS
  coder = coder
  reviewer = reviewer
  pass = pass
  fix = fix
  feed = feed
  None = None
  Session <- RingSession
  Edge <- RingEdge
  Def <- RingDef
  Bundle = {coder}
  HumanKind = {"activate", "workflow"}
  MaxHuman = 3
  MaxReport = 0
  MaxFail = 0
  MaxAbort = 0
  MaxCrash = 1
SPECIFICATION Spec
CHECK_DEADLOCK FALSE
INVARIANTS
  NoOrphanRun
