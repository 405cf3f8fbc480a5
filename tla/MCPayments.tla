----------------------------- MODULE MCPayments -----------------------------
(* One unit with two payments and two charges; c2 is due first, c1 is a    *)
(* penalty; both belong to the billing period.                             *)
EXTENDS AccountStatement, TLC
CONSTANTS p1, p2, c1, c2, b1, u1

MCPaymentUnit  == [p \in Payment |-> u1]
MCChargeUnit   == [c \in Charge |-> u1]
MCChargePeriod == [c \in Charge |-> b1]
MCDueDate      == [c \in Charge |-> IF c = c1 THEN 3 ELSE 1]
MCChargeDate   == [c \in Charge |-> IF c = c1 THEN 1 ELSE 2]
MCPenalty      == {c1}
PaymentSymmetry == Permutations(Payment)
=============================================================================
