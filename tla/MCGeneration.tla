---------------------------- MODULE MCGeneration ----------------------------
(* One period and one recurring type; the first unit has two charge rows   *)
(* of it to be inserted, the second one.                                   *)
EXTENDS BillingGeneration
CONSTANTS p1, c1, c2, c3, b1, u1, u2, t1, w1, w2

MCPaymentUnit   == [p \in Payment |-> u1]
MCChargeUnit    == [c \in Charge |-> IF c = c3 THEN u2 ELSE u1]
MCChargePeriod  == [c \in Charge |-> b1]
MCChargeType    == [c \in Charge |-> t1]
MCDueDate       == [c \in Charge |-> 0]
MCChargeDate    == [c \in Charge |-> IF c = c1 THEN 1 ELSE IF c = c2 THEN 2 ELSE 3]
MCConfig        == {[type |-> t1, from |-> 1, to |-> 9, amount |-> 1],
                    [type |-> t1, from |-> 3, to |-> 9, amount |-> 2]}
MCDefaultAmount == [t \in Type |-> None]
MCAsOf          == [b \in Period |-> 5]
=============================================================================
