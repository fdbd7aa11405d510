\* Two requests present the same cookie; nothing fails.
SPECIFICATION Spec
CONSTANTS
  Users = {ana}
  Devices = {d1}
  Jtis = {j1, j2, j3}
  Requests = {r1, r2}
  None = None
  MaxMishaps = 0
INVARIANTS
  OneTimeUse
CHECK_DEADLOCK FALSE
