SPECIFICATION FairCheckoutSpec
CONSTANTS
  alipay = alipay
  card = card
  waffo = waffo
  Methods = {alipay, card}
  Options = {waffo}
  Default = alipay
  MinOf <- SmallMinOf
  Amounts = {1, 2}
  MaxQuotes = 2
  MaxStarts = 2
  MaxFailures = 3
INVARIANTS
  OneOrderPerConfirmation
PROPERTIES
  ConfirmedAsShown
  SettledIsShown
CHECK_DEADLOCK FALSE
