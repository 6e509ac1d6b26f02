SPECIFICATION Spec
CONSTANTS
  None = None
  pw = pw
  r1 = r1
  r2 = r2
  Passwords <- MCPasswords
  Requests <- MCRequests
  Starts <- MCStarts
  CodesPerHour = 2
  MaxAttempts = 2
  MaxCalls = 4
  MaxFaults = 1
SYMMETRY Symmetry
CHECK_DEADLOCK FALSE
INVARIANTS
  TypeOK
  OneLive
  CodeServes
  ShutOut
