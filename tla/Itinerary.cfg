\* Two tabs, two requests at a time and two edits, against the background fill.
SPECIFICATION Spec
CONSTANTS
  Edits = {e1, e2}
  Fill = fill
  Tabs = {t1, t2}
  Requests = {r1, r2}
  None = None
  Solo = FALSE
  MaxMishaps = 1
SYMMETRY Alike
INVARIANTS
  TypeOK
  
PROPERTIES
  PrivateStaysPrivate
CHECK_DEADLOCK FALSE
