CONSTANTS
  deploy = deploy
  again = again
  note = note
  view = view
  None = None
  Command = {deploy, again, note}
  KeyOf <- Retried
  Journaled = {deploy, again}
  Silent = {}
  Checked = {again, note}
  Staging = {deploy, again}
  Refusable = {deploy}
  Overlap = TRUE
  MaxOpen = 2
  MaxSend = 3
  MaxThrow = 1
  MaxDirty = 1
  MaxWriteError = 1
SPECIFICATION Spec
CHECK_DEADLOCK FALSE
INVARIANT RecordedOnce
INVARIANT VersionSerial
INVARIANT ToldIsTrue
INVARIANT EffectOnce
