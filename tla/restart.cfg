CONSTANTS
  deploy = deploy
  again = again
  note = note
  view = view
  None = None
  Command = {deploy, again, note}
  KeyOf <- Retried
  Journaled = {deploy, again}
  Silent = {note}
  Checked = {deploy, note}
  Staging = {deploy, again}
  Refusable = {again}
  Overlap = FALSE
  MaxOpen = 3
  MaxSend = 4
  MaxThrow = 1
  MaxDirty = 0
  MaxWriteError = 0
SPECIFICATION FairSpec
CHECK_DEADLOCK FALSE
INVARIANT TypeOK
INVARIANT JournalSettled
PROPERTY IsLedger
PROPERTY AnswersAgree
PROPERTY EffectMaterialized
