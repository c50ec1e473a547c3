SPECIFICATION Spec
CONSTANTS
  a = a
  b = b
  c = c
  Reservations = {a}
  Debts = {b}
  WalletMovers = {a}
  MaxRaises = 1
  MaxManual = 0
INVARIANT BlockedWhileLiable
CHECK_DEADLOCK FALSE
