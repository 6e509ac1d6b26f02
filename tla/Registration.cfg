SPECIFICATION Spec
CONSTANTS
  None = None
  a1 = a1
  a2 = a2
  m1 = m1
  m2 = m2
  v1 = v1
  v2 = v2
  p1 = p1
  p2 = p2
  lo = lo
  up = up
  Accounts <- MCAccounts
  Members <- MCMembers
  Phones <- MCPhones
  Emails <- MCEmails
  Lower <- MCLower
  Values <- MCValues
  Entered <- MCEntered
  Sheets <- MCSheets
  cron = cron
  manual = manual
  Runners <- MCRunners
  MaxCalls = 4
  MaxFaults = 1
SYMMETRY Symmetry
CHECK_DEADLOCK FALSE
INVARIANTS
  NoHalfImport
  MergedUntilFailure
PROPERTIES
  Rerun
  BlankKept
  NeverRelinked
