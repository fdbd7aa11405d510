\* An owner who waits for every answer; nothing fails.
SPECIFICATION Spec
CONSTANTS
  Edits = {e1, e2}
  Fill = fill
  Tabs = {t1}
  Requests = {r1}
  None = None
  Solo = TRUE
  MaxMishaps = 0
INVARIANTS
  SavedEditsStay
CHECK_DEADLOCK FALSE
