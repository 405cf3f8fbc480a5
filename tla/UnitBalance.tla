---------------------------- MODULE UnitBalance -----------------------------
(***************************************************************************)
(* The read side of the ledger: the balance of a unit, which the service   *)
(* derives twice from different columns, and the summary of a billing      *)
(* period.  Read without dates, as the unit's balance page does: the       *)
(* opening balance is then zero and every row counts.                      *)
(***************************************************************************)
EXTENDS BankReconciliation

ChargesOf(u) ==
  {c \in Charge : /\ ChargeUnit[c] = u
                  /\ charge[c].status \notin {"ABSENT", "CANCELLED"}}

(* What some rows amount to.                                               *)
Stated(rows, ids) == SumOf([i \in ids |-> rows[i].amount])

Posted(u, movement) ==
  Stated(charge, {c \in ChargesOf(u) : charge[c].movement = movement})

ValidPayments(u) ==
  {p \in Payment :
     /\ PaymentUnit[p] = u
     /\ payment[p].status \in {"CONFIRMED", "PARTIALLY_APPLIED", "APPLIED"}}

(* getBalance: payments count for what their unapplied column says is used *)
PaymentTotal(u) ==
  Stated(payment, ValidPayments(u))
    - SumOf([p \in ValidPayments(u) |-> payment[p].unapplied])

ClosingBalance(u) == Posted(u, "DEBIT") - Posted(u, "CREDIT") - PaymentTotal(u)

(* balanceUntil: payments count for the applications to the unit's charges *)
CurrentBalance(u) ==
  Posted(u, "DEBIT") - Posted(u, "CREDIT")
    - SumOf([c \in {c \in Charge : ChargeUnit[c] = u} |-> AppliedTo(c)])

(* What charges still lack; one that is overpaid lacks nothing.            *)
Pending(charges) == SumOf([c \in charges |-> Remaining(c)])

PastDueBalance(u, now) ==
  Pending({c \in ChargesOf(u) :
             /\ charge[c].movement = "DEBIT"
             /\ charge[c].status \in {"PENDING", "PARTIALLY_PAID"}
             /\ PastDue(c, now)})

(* billing-periods summary                                                 *)
PeriodCharges(b) ==
  {c \in Charge : /\ ChargePeriod[c] = b
                  /\ charge[c].status \notin {"ABSENT", "CANCELLED"}}

TotalCharged(b)   == Stated(charge, PeriodCharges(b))
TotalCollected(b) == SumOf([c \in PeriodCharges(b) |-> AppliedTo(c)])
TotalPending(b)   == Pending(PeriodCharges(b))

-----------------------------------------------------------------------------
(* The two derivations of a unit's balance that getBalance returns side by *)
(* side, closingBalance and currentBalance, agree: what payments say they  *)
(* have used is what the unit's charges have received, so no application   *)
(* crosses units and none is left on a cancelled row.                      *)
BalancesAgree == \A u \in Unit : ClosingBalance(u) = CurrentBalance(u)
=============================================================================
