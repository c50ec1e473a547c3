------------------------- MODULE MCPaymentCheckout -------------------------
(* TLC instance of PaymentCheckout: two methods, one without a minimum of   *)
(* its own, and one option.                                                 *)
EXTENDS PaymentCheckout

CONSTANTS alipay, card, waffo

SmallMinOf == [r \in {alipay, card, waffo} |-> IF r = alipay THEN 0 ELSE 2]
=============================================================================
