CONSTANTS
  coder = coder
  reviewer = reviewer
  pass = pass
  fix = fix
  feed = feed
  None = None
  Session <- DeskSession
  Edge <- DeskEdge
  Def <- DeskDef
  Bundle = {coder}
  HumanKind = {"activate", "approve", "deny", "freeze", "unfreeze", "workflow"}
  MaxHuman = 3
  MaxReport = 2
  MaxFail = 0
  MaxAbort = 0
  MaxCrash = 1
SPECIFICATION FairSpec
CHECK_DEADLOCK FALSE
PROPERTIES
  ApprovedFires
  FreezeHolds
  ApprovedIsResolved
