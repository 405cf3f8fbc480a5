------------------------------ MODULE MCWater -------------------------------
(* Readings: one unit over two months with a meter that shows 0 or 3 cubic *)
(* metres, and one tariff.                                                 *)
EXTENDS WaterBilling
CONSTANTS u1, c1, c2, n1, s1, t1, d1

(* 0 m3 costs less than the discount, which makes a credit.                *)
Discounted ==
  [base |-> 1, minimum |-> 0, discount |-> 3, percent |-> 25,
   rounding |-> "CEIL",
   tiers |-> {[m3 |-> 0, fixed |-> 1, perM3 |-> 0, type |-> "FIXED_TOTAL"],
              [m3 |-> 300, fixed |-> 0, perM3 |-> 250, type |-> "PER_M3"]}]

MCInputs      == {Discounted}
MCRowInputs   ==
  {[previous |-> 300, current |-> 0, macro |-> 0, mode |-> "METER_REPLACEMENT"]}
    \cup [previous : Level, current : Level, macro : MacroPrice, mode : {"ACTUAL"}]
MCWaterCharge == [m \in Month |-> [u \in Unit |-> IF m = 1 THEN c1 ELSE c2]]

NoPaymentUnit  == [p \in Payment |-> u1]
MCChargeUnit   == [c \in Charge |-> u1]
MCChargePeriod == [c \in Charge |-> None]
MCDueDate      == [c \in Charge |-> 0]
MCChargeDate   == [c \in Charge |-> IF c = c1 THEN 1 ELSE 2]
=============================================================================
