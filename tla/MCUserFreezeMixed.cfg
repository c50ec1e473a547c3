SPECIFICATION Spec
CONSTANTS
  a = a
  b = b
  c = c
  Reservations = {a, b}
  Debts = {c}
  WalletMovers = {a}
  MaxRaises = 2
  MaxManual = 2
INVARIANTS
  BlockedUnlessOvertaken
  ReleasedUnlessCrossed
  DisableOutlivesFreeze
PROPERTY ManualEnableIsSafe
CHECK_DEADLOCK FALSE
