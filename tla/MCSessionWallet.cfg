SPECIFICATION SessionSpec
CONSTANTS
  u1 = u1
  r1 = r1
  none = none
  Users = {u1}
  Tokens = {}
  Requests = {r1}
  Subs = {}
  UserOf <- LoneUserOf
  TokenOf <- SkipTokenOf
  NoToken = none
  Unlimited = {}
  SubOwner <- NoSubOwner
  SubCap <- NoSubCap
  Amounts = {0, 1, 2}
  MaxInt = 3
  InitQuota = 1
  InitRemain = 2
  InitUsed = 0
  ManualAmounts = {1}
  InitStatuses = {"enabled"}
  DebtUsers = {}
  TaskRequests = {}
  FailureCodes = {"user_quota", "token_quota", "subscription_quota", "account_missing"}
  MaxVersion = 8
  MaxPeriod = 0
  Preferences = {"wallet_only"}
  StrictSubs = {}
  MaxAttempts = 2
  MaxCalls = 2
  Faults = TRUE
INVARIANTS
  SessionMatchesRow
  EndedIsAccounted
PROPERTIES
  DeliveredUsageIsKept
  SettlementRealisesIntent
  Spec
CHECK_DEADLOCK FALSE
