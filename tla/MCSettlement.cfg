SPECIFICATION Spec
CONSTANTS
  h1 = h1
  h2 = h2
  Handlers = {h1, h2}
  Histories <- AnyHistory
  Expected = 2
  CreditQuota = 3
  MaxQuota = 3
  InitQuota = 1
  ExternalRefunds = {1}
  MaxSpent = 2
  MaxFaults = 1
INVARIANTS
  Books
  EntitlementSourcesAgree
  AgreesWithProvider
  RejectedStaysUncredited
SYMMETRY Alike
CHECK_DEADLOCK FALSE
