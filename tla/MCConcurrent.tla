---------------------------- MODULE MCConcurrent ----------------------------
(* Small ledgers for overlapping requests: c1 belongs to the billing       *)
(* period; units are chosen by the configuration through OneUnit.          *)
EXTENDS ConcurrentLedger, TLC
CONSTANTS p1, p2, c1, c2, b1, u1, u2, w1, w2, x1, OneUnit

MCPaymentUnit  == [p \in Payment |-> IF OneUnit \/ p = p1 THEN u1 ELSE u2]
MCChargeUnit   == [c \in Charge |-> IF OneUnit \/ c = c1 THEN u1 ELSE u2]
MCChargePeriod ==
  [c \in Charge |-> IF c = c1 /\ b1 \in Period THEN b1 ELSE None]
MCDueDate      == [c \in Charge |-> 0]
MCChargeDate   == [c \in Charge |-> IF c = c1 THEN 1 ELSE 2]
WorkerSymmetry == Permutations(Worker)
=============================================================================
