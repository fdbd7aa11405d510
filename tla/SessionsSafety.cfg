\* One account, one browser, two requests at a time, three tokens, one mishap.
SPECIFICATION Spec
CONSTANTS
  Users = {ana}
  Devices = {d1}
  Jtis = {j1, j2, j3}
  Requests = {r1, r2}
  None = None
  MaxMishaps = 1
SYMMETRY Slots
INVARIANTS
  TypeOK
  ExchangedIsRevoked
  HeldIsListed
  TerminatedStaysDead
PROPERTIES
  NothingForRevoked
\* Without a token left to draw and with every request answered nothing moves.
CHECK_DEADLOCK FALSE
