\* Two fans of one host, two requests at a time, with milestones one and two.
SPECIFICATION Spec
CONSTANTS
  ana = ana
  bia = bia
  rui = rui
  Users <- MCUsers
  Pairs <- TwoFans
  Requests = {r1, r2}
  Milestones = {1, 2}
  OneTab = FALSE
  None = None
  MaxAsks = 1
  MaxMishaps = 1
SYMMETRY Slots
INVARIANTS
  TypeOK
  AcceptedOnce
  AnnouncedOnce
PROPERTIES
  ConsentedAccess
  RefinesConsent
CHECK_DEADLOCK FALSE
