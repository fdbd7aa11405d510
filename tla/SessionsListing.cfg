\* One login and one logout; nothing fails.
SPECIFICATION Spec
CONSTANTS
  Users = {ana}
  Devices = {d1}
  Jtis = {j1, j2}
  Requests = {r1, r2}
  None = None
  MaxMishaps = 0
INVARIANTS
  ListedIsActive
CHECK_DEADLOCK FALSE
