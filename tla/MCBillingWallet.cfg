SPECIFICATION Spec
CONSTANTS
  u1 = u1
  t1 = t1
  r1 = r1
  r2 = r2
  none = none
  Users = {u1}
  Tokens = {t1}
  Requests = {r1}
  Subs = {}
  UserOf <- LoneUserOf
  TokenOf <- LoneTokenOf
  NoToken = none
  Unlimited = {}
  SubOwner <- NoSubOwner
  SubCap <- NoSubCap
  Amounts = {0, 1, 2}
  MaxInt = 2
  InitQuota = 1
  InitRemain = 2
  InitUsed = 0
  ManualAmounts = {1}
  InitStatuses = {"enabled", "disabled"}
  DebtUsers = {u1}
  TaskRequests = {r1}
  FailureCodes = {"user_quota"}
  MaxVersion = 4
  MaxPeriod = 0
INVARIANTS
  LedgerMirrorsHold
  LedgerBehindRevision
  FrozenIffLiable
PROPERTIES
  WalletMovesWithLedger
  ImplementsCharge
CHECK_DEADLOCK FALSE
