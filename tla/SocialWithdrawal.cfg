\* One fan who sends one request at a time, one host; nothing fails.
SPECIFICATION Spec
CONSTANTS
  ana = ana
  bia = bia
  rui = rui
  Users <- MCUsers
  Pairs <- OneFan
  Requests = {r1, r2}
  Milestones = {1}
  OneTab = TRUE
  None = None
  MaxAsks = 1
  MaxMishaps = 0
PROPERTIES
  WithdrawalHolds
CHECK_DEADLOCK FALSE
