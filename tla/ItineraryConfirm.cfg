\* Two confirmations of one draft; nothing fails.
SPECIFICATION Spec
CONSTANTS
  Edits = {e1}
  Fill = fill
  Tabs = {t1}
  Requests = {r1, r2}
  None = None
  Solo = FALSE
  MaxMishaps = 0
PROPERTIES
  ConfirmKeepsPrivate
CHECK_DEADLOCK FALSE
