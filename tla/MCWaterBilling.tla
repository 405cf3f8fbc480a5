--------------------------- MODULE MCWaterBilling ---------------------------
(* Billing: two units in one month, a file of readings with 0 or 3 cubic   *)
(* metres, and tables of which one has no row for 3.                       *)
EXTENDS WaterBilling, TLC
CONSTANTS u1, u2, c1, c2, n1, n2, s1, t1, d1, p1

Price(m3, cents) == [m3 |-> m3 * CubicMetre, fixed |-> cents, perM3 |-> 0,
                     type |-> "LOOKUP_BY_M3"]
Lookup(rows) == [base |-> 0, minimum |-> 0, discount |-> 0, percent |-> 0,
                 rounding |-> "HALF_UP", tiers |-> rows]
MCInputs      == {Lookup({Price(0, 3)}), Lookup({Price(0, 2), Price(3, 8)})}
(* The row of a unit without consumption has a difference that makes its   *)
(* amount a credit.                                                        *)
MCMacroPrice  == {-5, 1}
MCRowInputs   == {[previous |-> 0, current |-> k,
                   macro |-> IF k = 0 THEN -5 ELSE 1, mode |-> "ACTUAL"]
                    : k \in Level}
MCWaterCharge == [m \in Month |-> [u \in Unit |-> IF u = u1 THEN c1 ELSE c2]]

MCPaymentUnit  == [p \in Payment |-> u1]
MCChargeUnit   == [c \in Charge |-> IF c = c1 THEN u1 ELSE u2]
MCChargePeriod == [c \in Charge |-> None]
MCDueDate      == [c \in Charge |-> 0]
MCChargeDate   == [c \in Charge |-> IF c = c1 THEN 1 ELSE 2]

MeterSymmetry == Permutations(Meter)
=============================================================================
