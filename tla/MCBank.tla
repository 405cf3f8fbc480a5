------------------------------- MODULE MCBank -------------------------------
(* Two units with a payment each, one charge of the first unit with a due  *)
(* date, in the billing period, and one bank movement that either payment  *)
(* may come from.                                                          *)
EXTENDS AccountStatement
CONSTANTS p1, p2, c1, c2, b1, u1, u2, x1

MCPaymentUnit  == [p \in Payment |-> IF p = p2 THEN u2 ELSE u1]
MCChargeUnit   == [c \in Charge |-> IF c = c2 THEN u2 ELSE u1]
MCChargePeriod == [c \in Charge |-> IF b1 \in Period THEN b1 ELSE None]
MCDueDate      == [c \in Charge |-> IF c = c1 THEN 1 ELSE 0]
MCChargeDate   == [c \in Charge |-> IF c = c1 THEN 1 ELSE 2]
=============================================================================
