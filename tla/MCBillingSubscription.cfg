SPECIFICATION Spec
CONSTANTS
  u1 = u1
  t1 = t1
  r1 = r1
  r2 = r2
  none = none
  Users = {u1}
  Tokens = {}
  Requests = {r1, r2}
  Subs = {1, 2}
  UserOf <- OneUserOf
  TokenOf <- NoTokenOf
  NoToken = none
  Unlimited = {}
  SubOwner <- OneSubOwner
  SubCap <- TightSubCap
  Amounts = {1, 2}
  MaxInt = 3
  InitQuota = 0
  InitRemain = 2
  InitUsed = 1
  ManualAmounts = {}
  InitStatuses = {"enabled"}
  DebtUsers = {}
  TaskRequests = {}
  FailureCodes = {}
  MaxVersion = 2
  MaxPeriod = 1
INVARIANTS
  RecordMirrorsReservation
  PeriodUsage
  LifetimeUsage
SYMMETRY RequestSymmetry
CHECK_DEADLOCK FALSE
