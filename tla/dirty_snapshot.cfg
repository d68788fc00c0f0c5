CONSTANTS
  deploy = deploy
  again = again
  note = note
  view = view
  None = None
  Command = {deploy, note}
  KeyOf <- Distinct
  Journaled = {deploy}
  Silent = {}
  Checked = {}
  Staging = {}
  Refusable = {}
  Overlap = FALSE
  MaxOpen = 2
  MaxSend = 3
  MaxThrow = 1
  MaxDirty = 1
  MaxWriteError = 0
SPECIFICATION Spec
CHECK_DEADLOCK FALSE
INVARIANT NothingUncommitted
