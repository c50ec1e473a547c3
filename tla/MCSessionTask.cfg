SPECIFICATION FairSessionSpec
CONSTANTS
  u1 = u1
  r1 = r1
  none = none
  Users = {u1}
  Tokens = {}
  Requests = {r1}
  Subs = {1}
  UserOf <- LoneUserOf
  TokenOf <- SkipTokenOf
  NoToken = none
  Unlimited = {}
  SubOwner <- LoneSubOwner
  SubCap <- LoneSubCap
  Amounts = {0, 1, 2}
  MaxInt = 3
  InitQuota = 2
  InitRemain = 2
  InitUsed = 1
  ManualAmounts = {}
  InitStatuses = {"enabled"}
  DebtUsers = {}
  TaskRequests = {r1}
  FailureCodes = {"user_quota", "token_quota", "subscription_quota", "account_missing"}
  MaxVersion = 8
  MaxPeriod = 0
  Preferences = {"subscription_only", "wallet_only", "wallet_first", "subscription_first"}
  StrictSubs = {1}
  MaxAttempts = 1
  MaxCalls = 1
  Faults = TRUE
PROPERTIES
  FundingFollowsPreference
  EventuallyAccounted
CHECK_DEADLOCK FALSE
