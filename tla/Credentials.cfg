SPECIFICATION Spec
CONSTANTS
  Passwords = {p1, p2}
  Links = {l1, l2, l3}
  Secrets = {s1, s2}
  Requests = {r1, r2}
  MaxAttempts = 3
  MaxAccounts = 2
  MaxAsks = 7
  None = None
SYMMETRY Symmetry
INVARIANTS
  TypeOK
  PasswordIsChosen
  WrongPasswordsLock
  LastLinkWorks
  AnswerableFactor
PROPERTIES
  DeadLinkStaysDead
CHECK_DEADLOCK FALSE
