-------------------------- MODULE AccountStatement --------------------------
(***************************************************************************)
(* What residents and managers are shown of the ledger: the statement of a *)
(* unit over its whole history, the statements of a billing period, and    *)
(* the figures of the dashboard.  A statement counts every payment at its  *)
(* full amount from the moment it is registered, where the balance of the  *)
(* unit counts what has been applied.                                      *)
(*                                                                         *)
(* The lists over the units of the complex name those that are ACTIVE and  *)
(* not deleted, while the money of a unit outlives its status: units are   *)
(* updated and removed whatever they owe, and no handler of the ledger     *)
(* reads their status.  The rows of the ledger may therefore meet any set  *)
(* of ACTIVE units, which is a parameter here (active).                    *)
(*                                                                         *)
(* Dates are left out: the statement of a month takes its opening balance  *)
(* and its payments by date, which this ledger does not keep.              *)
(***************************************************************************)
EXTENDS UnitBalance

ASSUME UnitsAssumption == IsFiniteSet(Unit)

(* cancelledAt is set with CANCELLED and with REVERSED, and by nothing     *)
(* else.                                                                   *)
StatedPayments(u) ==
  {p \in Payment :
     /\ PaymentUnit[p] = u
     /\ payment[p].status \notin {"ABSENT", "CANCELLED", "REVERSED"}}

StatedCharges(u, movement, b) ==
  {c \in ChargesOf(u) : /\ charge[c].movement = movement
                        /\ b # None => ChargePeriod[c] = b}

(* getUnitStatement; b is the billing period its charges are limited to.   *)
(* Of a deleted unit it is refused, and only the rows are left.            *)
Statement(u, b) ==
  [charges  |-> Stated(charge, StatedCharges(u, "DEBIT", b)),
   credits  |-> Stated(charge, StatedCharges(u, "CREDIT", b)),
   payments |-> Stated(payment, StatedPayments(u))]

StatementClosing(u) ==
  LET s == Statement(u, None) IN s.charges - s.credits - s.payments

PeriodStatements(b, active) == [u \in active |-> Statement(u, b)]

(* units listed with hasDebt, set aside and deleted ones among them        *)
UnitsWithDebt == {u \in Unit : CurrentBalance(u) > 0}

(* dashboard: summary, delinquency and collection.  A unit in credit does  *)
(* not lower what is outstanding.                                          *)
OutstandingBalance(active) ==
  SumOf([u \in active \cap UnitsWithDebt |-> CurrentBalance(u)])
DelinquentUnits(active, now) == {u \in active : PastDueBalance(u, now) > 0}
Collection(b) == [charged |-> TotalCharged(b), collected |-> TotalCollected(b)]

-----------------------------------------------------------------------------
(* Money of a unit that no charge has received: what confirmed payments    *)
(* have left and what pending ones announce.                               *)
Unspent(u) == SumOf([p \in StatedPayments(u) |-> payment[p].unapplied])

(* The statement and the balance tell the same story: they differ exactly  *)
(* by the unit's unspent money, through applications, reversals,           *)
(* cancellations and returned bank movements.  So what is told from the    *)
(* balances can be told from the statements, which read other columns: a   *)
(* unit is missing from the list of units in debt only when its statement  *)
(* is settled, and, whichever units are ACTIVE, nothing is outstanding     *)
(* exactly when none of their statements, without the money that waits to  *)
(* be applied, shows a debt.                                               *)
StatementExplained ==
  /\ \A u \in Unit :
       /\ StatementClosing(u) + Unspent(u) = CurrentBalance(u)
       /\ StatementClosing(u) > 0 => u \in UnitsWithDebt
  /\ \A active \in SUBSET Unit :
       OutstandingBalance(active) = 0 <=>
         \A u \in active : StatementClosing(u) + Unspent(u) <= 0

(* A period's summary adds up; it charges what the statements of the       *)
(* ACTIVE units charge and, besides, what units since set aside or deleted *)
(* were charged, which no statement of the period lists; and it shows      *)
(* nothing pending exactly when each of its charges is worth nothing or is *)
(* marked PAID.                                                            *)
SummaryAddsUp ==
  \A b \in Period :
    /\ Collection(b).collected + TotalPending(b) = Collection(b).charged
    /\ \A active \in SUBSET Unit :
         LET rows == PeriodStatements(b, active)
             unlisted == {c \in PeriodCharges(b) : ChargeUnit[c] \notin active}
         IN  SumOf([u \in active |-> rows[u].charges + rows[u].credits])
               + Stated(charge, unlisted) = Collection(b).charged
    /\ TotalPending(b) = 0 <=>
         \A c \in PeriodCharges(b) :
           charge[c].status = "PAID" \/ charge[c].amount = 0

(* The past-due balance, which picks the charges by their stored status,   *)
(* misses no debt: it is what every past-due debit of the unit still lacks *)
(* by its active applications, whatever status reversals, edits and new    *)
(* applications have left it with.  The delinquency list names exactly the *)
(* ACTIVE units with such a debit, whichever they are; one that is not     *)
(* ACTIVE is left out with its debt.                                       *)
PastDueIsOwed ==
  \A now \in Days :
    LET owed(u) == {c \in ChargesOf(u) : /\ PastDue(c, now)
                                        /\ charge[c].movement = "DEBIT"}
    IN  /\ \A u \in Unit : PastDueBalance(u, now) = Pending(owed(u))
        /\ \A active \in SUBSET Unit :
             DelinquentUnits(active, now) =
               {u \in active : \E c \in owed(u) : Remaining(c) > 0}
=============================================================================
