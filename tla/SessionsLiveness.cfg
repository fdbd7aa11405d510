\* Two tokens are enough for an exchange; liveness is checked without symmetry.
SPECIFICATION FairSpec
CONSTANTS
  Users = {ana}
  Devices = {d1}
  Jtis = {j1, j2}
  Requests = {r1, r2}
  None = None
  MaxMishaps = 1
PROPERTIES
  EveryRequestAnswered
  ExchangedLeavesList
CHECK_DEADLOCK FALSE
