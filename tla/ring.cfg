CONSTANTS
  coder = coder
  reviewer = reviewer
  pass = pass
  fix = fix
  feed = feed
  None = None
  Session <- RingSession
  Edge <- RingEdge
  Def <- RingDef
  Bundle = {coder}
  HumanKind = {"activate", "kill"}
  MaxHuman = 2
  MaxReport = 2
  MaxFail = 1
  MaxAbort = 1
  MaxCrash = 1
SPECIFICATION Spec
CHECK_DEADLOCK FALSE
INVARIANTS
  TypeOK
  FiresOncePerTrigger
  NoParkedGhost
  NoSilentOverwrite
  CapRespected
  LiveIsFold
  NoOrphanRun
