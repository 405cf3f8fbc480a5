------------------------------ MODULE Payments ------------------------------
(***************************************************************************)
(* The payment ledger of the back office: payments, unit charges, the      *)
(* applications that join them, and the billing periods that freeze them.  *)
(*                                                                         *)
(* A definition named after another one with a suffix, just before it, is  *)
(* a mutant of it: a plausible mistake which a run is shown to catch.      *)
(*                                                                         *)
(* Every handler is one action here: this is what the handlers do when     *)
(* each runs alone.  Each is split into the condition its reads establish  *)
(* (...OK) and the rows its statements write (Write...), so that           *)
(* ConcurrentLedger can let other requests commit between the two.         *)
(*                                                                         *)
(* Money is a natural number of cents: the DTOs accept only unsigned       *)
(* decimal strings with at most two places and the columns are             *)
(* DECIMAL(14,2), so sums and differences are exact.  Bank movements       *)
(* imported with a negative amount are left out: a payment matched to one  *)
(* has less than any positive amount left, so it is never applied.         *)
(***************************************************************************)
EXTENDS Integers, FiniteSetsExt

CONSTANTS
  Payment,        \* identifiers of payment rows
  Charge,         \* identifiers of unit_charge rows
  Period,         \* identifiers of billing_period rows
  BankTx,         \* identifiers of bank_transaction rows
  Unit,           \* residential units
  None,           \* a NULL foreign key
  Amount,         \* amounts a request may carry, in cents
  PaymentUnit,    \* the unit a payment row is created for
  ChargeUnit,     \* the unit a charge row is created for
  ChargePeriod,   \* the billing period of a charge, or None
  DueDate,        \* due date of a charge as a day number, 0 for NULL
  ChargeDate,     \* charge date, a distinct number per charge
  PenaltyCharge   \* charges whose type is PENALTY or SURCHARGE

ASSUME ConstantsAssumption ==
  /\ Amount \subseteq Nat
  /\ PaymentUnit \in [Payment -> Unit]
  /\ ChargeUnit \in [Charge -> Unit]
  /\ ChargePeriod \in [Charge -> Period \cup {None}]
  /\ None \notin Period \cup BankTx \cup Unit

ASSUME DatesAssumption ==
  /\ DueDate \in [Charge -> Nat]
  /\ ChargeDate \in [Charge -> Nat]
  /\ \A c, d \in Charge : ChargeDate[c] = ChargeDate[d] => c = d
  /\ PenaltyCharge \subseteq Charge

ASSUME FiniteAssumption == IsFiniteSet(Payment) /\ IsFiniteSet(Charge)

VARIABLES
  payment,   \* payment rows
  charge,    \* unit_charge rows
  app,       \* payment_application rows, one per payment and charge
  period,    \* status column of billing_period
  bank       \* bank_transaction rows

vars == <<payment, charge, app, period, bank>>

(* ABSENT stands for a row that has not been inserted. *)
PaymentStatus == {"ABSENT", "PENDING", "CONFIRMED", "PARTIALLY_APPLIED",
                  "APPLIED", "CANCELLED", "REVERSED"}
ChargeStatus  == {"ABSENT", "PENDING", "PARTIALLY_PAID", "PAID", "CANCELLED"}
PeriodStatus  == {"DRAFT", "GENERATED", "OPEN", "CLOSED", "CANCELLED"}
BankStatus    == {"ABSENT", "UNMATCHED", "SUGGESTED", "PARTIALLY_APPLIED",
                  "APPLIED", "IGNORED", "REVERSED"}
Movement      == {"DEBIT", "CREDIT"}

PaymentRow == [status : PaymentStatus, amount : Nat, unapplied : Nat,
               bankTx : BankTx \cup {None}]
ChargeRow  == [status : ChargeStatus, amount : Nat, movement : Movement]
AppRow     == [state : {"none", "active", "reversed"}, amount : Nat]
BankRow    == [status : BankStatus, amount : Nat, unit : Unit \cup {None}]

NoPaymentRow == [status |-> "ABSENT", amount |-> 0, unapplied |-> 0,
                 bankTx |-> None]
NoChargeRow  == [status |-> "ABSENT", amount |-> 0, movement |-> "DEBIT"]
NoAppRow     == [state |-> "none", amount |-> 0]

(* The column types of prisma/schema.prisma, and the pairs' unique index.  *)
TypeOK ==
  /\ payment \in [Payment -> PaymentRow]
  /\ charge \in [Charge -> ChargeRow]
  /\ app \in [Payment -> [Charge -> AppRow]]
  /\ period \in [Period -> PeriodStatus]
  /\ bank \in [BankTx -> BankRow]

(* Periods may already have been through a generation that created no     *)
(* charge of this model; bank movements have been imported.                *)
Init ==
  /\ payment = [p \in Payment |-> NoPaymentRow]
  /\ charge = [c \in Charge |-> NoChargeRow]
  /\ app = [p \in Payment |-> [c \in Charge |-> NoAppRow]]
  /\ period \in [Period -> {"DRAFT", "GENERATED"}]
  /\ bank \in [BankTx -> [status : {"UNMATCHED"}, amount : Amount,
                          unit : {None}]]

-----------------------------------------------------------------------------
(* What the handlers read.                                                 *)

Active(p, c) == app[p][c].state = "active"
Payers(c)    == {p \in Payment : Active(p, c)}
PaidBy(p)    == {c \in Charge : Active(p, c)}

(* The sum of some amounts is the number of their cents; amounts below     *)
(* zero do not count.                                                      *)
Cents(amounts) == UNION {{x} \X (1..amounts[x]) : x \in DOMAIN amounts}
SumOf(amounts) == Cardinality(Cents(amounts))

AppliedTo(c)   == SumOf([p \in Payers(c) |-> app[p][c].amount])
AppliedFrom(p) == SumOf([c \in PaidBy(p) |-> app[p][c].amount])
Remaining(c)   == charge[c].amount - AppliedTo(c)

Closed(c)  == ChargePeriod[c] # None /\ period[ChargePeriod[c]] = "CLOSED"
Mutable(c) == ~Closed(c)

-----------------------------------------------------------------------------
(* payments.service.ts                                                     *)

CreatePaymentOK(p, amount, b) ==
  /\ payment[p].status = "ABSENT"
  /\ amount > 0
  /\ b # None => bank[b].status # "ABSENT"

WriteNewPayment(p, amount, b, status) ==
  payment' = [payment EXCEPT ![p] =
                [status |-> status, amount |-> amount, unapplied |-> amount,
                 bankTx |-> b]]

WritePaymentStatus(p, status) ==
  payment' = [payment EXCEPT ![p].status = status]

CreatePayment(p, amount, b) ==
  /\ CreatePaymentOK(p, amount, b)
  /\ WriteNewPayment(p, amount, b, "PENDING")
  /\ UNCHANGED <<charge, app, period, bank>>

ConfirmOK(p) == payment[p].status = "PENDING"

ConfirmPayment(p) ==
  /\ ConfirmOK(p)
  /\ WritePaymentStatus(p, "CONFIRMED")
  /\ UNCHANGED <<charge, app, period, bank>>

CancelPaymentOKWhenApplied(p) ==
  payment[p].status \notin {"ABSENT", "CANCELLED", "REVERSED"}

CancelPaymentOK(p) ==
  /\ payment[p].status \notin {"ABSENT", "CANCELLED", "REVERSED"}
  /\ PaidBy(p) = {}

CancelPayment(p) ==
  /\ CancelPaymentOK(p)
  /\ WritePaymentStatus(p, "CANCELLED")
  /\ UNCHANGED <<charge, app, period, bank>>

-----------------------------------------------------------------------------
(* payment-application.service.ts                                          *)

(* The body of an apply request is a function from some charges to         *)
(* amounts: naming a charge twice fails on the second item and rolls       *)
(* everything back.                                                        *)
Requests == UNION {[S -> Amount] : S \in (SUBSET Charge) \ {{}}}

LeftAfter(p, apps) == payment[p].unapplied - SumOf(apps)

ItemOKAnyUnit(p, c, amount) ==
  /\ amount \in Nat \ {0}
  /\ charge[c].status \in {"PENDING", "PARTIALLY_PAID"} /\ Mutable(c)
  /\ amount <= Remaining(c) /\ ~Active(p, c)

ItemOK(p, c, amount) ==
  /\ amount \in Nat \ {0}
  /\ charge[c].status \in {"PENDING", "PARTIALLY_PAID"}
  /\ Mutable(c)
  /\ ChargeUnit[c] = PaymentUnit[p]
  /\ amount <= Remaining(c)
  /\ ~Active(p, c)

ApplyOKOverdrawn(p, apps) ==
  /\ payment[p].status \in {"CONFIRMED", "PARTIALLY_APPLIED"}
  /\ \A c \in DOMAIN apps : ItemOK(p, c, apps[c])

ApplyOK(p, apps) ==
  /\ payment[p].status \in {"CONFIRMED", "PARTIALLY_APPLIED"}
  /\ LeftAfter(p, apps) \in Nat
  /\ \A c \in DOMAIN apps : ItemOK(p, c, apps[c])

PaidStatus(rem)    == IF rem <= 0 THEN "PAID" ELSE "PARTIALLY_PAID"
AppliedStatus(rem) == IF rem <= 0 THEN "APPLIED" ELSE "PARTIALLY_APPLIED"

(* left and rem are what the transaction computed from its reads.          *)
WriteApply(p, apps, left, rem) ==
  /\ app' = [app EXCEPT ![p] =
               [c \in Charge |->
                  IF c \in DOMAIN apps
                  THEN [state |-> "active", amount |-> apps[c]]
                  ELSE app[p][c]]]
  /\ charge' = [c \in Charge |->
                  IF c \in DOMAIN apps
                  THEN [charge[c] EXCEPT !.status = PaidStatus(rem[c])]
                  ELSE charge[c]]
  /\ payment' = [payment EXCEPT ![p].unapplied = left,
                                ![p].status = AppliedStatus(left)]
  /\ bank' = [b \in BankTx |->
                IF b = payment[p].bankTx
                THEN [bank[b] EXCEPT !.status = AppliedStatus(left),
                                     !.unit = PaymentUnit[p]]
                ELSE bank[b]]

RemainingAfter(apps) == [c \in DOMAIN apps |-> Remaining(c) - apps[c]]

Apply(p, apps) ==
  /\ ApplyOK(p, apps)
  /\ WriteApply(p, apps, LeftAfter(p, apps), RemainingAfter(apps))
  /\ UNCHANGED period

(* autoApply: the payable debits of the unit, past-due ones first, then    *)
(* penalties, then by due date (NULL first) and charge date.               *)
PastDue(c, now) == DueDate[c] # 0 /\ DueDate[c] < now

PayableDebits(p) ==
  {c \in Charge : /\ ChargeUnit[c] = PaymentUnit[p]
                  /\ charge[c].status \in {"PENDING", "PARTIALLY_PAID"}
                  /\ charge[c].movement = "DEBIT"}

SortKeyPenaltyFirst(c, now) ==
  <<IF c \in PenaltyCharge THEN 0 ELSE 1, IF PastDue(c, now) THEN 0 ELSE 1,
    DueDate[c], ChargeDate[c]>>

SortKey(c, now) ==
  <<IF PastDue(c, now) THEN 0 ELSE 1, IF c \in PenaltyCharge THEN 0 ELSE 1,
    DueDate[c], ChargeDate[c]>>

PaidBefore(c, d, now) ==
  \E i \in 1..4 : /\ SortKey(c, now)[i] < SortKey(d, now)[i]
                  /\ \A j \in 1..(i - 1) :
                       SortKey(c, now)[j] = SortKey(d, now)[j]

(* The loop pays each debit what it owes out of what those before it left *)
(* available; one that is paid beyond its amount owes nothing.             *)
Plan(owed, available, now) ==
  LET before(c) == {d \in DOMAIN owed : PaidBefore(d, c, now)}
      part == [c \in DOMAIN owed |->
                 Min({owed[c], available - SumOf([d \in before(c) |-> owed[d]])})]
  IN  [c \in {c \in DOMAIN owed : part[c] > 0} |-> part[c]]

AutoPlan(p, now) ==
  Plan([c \in PayableDebits(p) |-> Remaining(c)], payment[p].unapplied, now)

AutoApply(p, now) ==
  /\ payment[p].status # "PENDING"
  /\ LET plan == AutoPlan(p, now)
     IN  DOMAIN plan # {} /\ Apply(p, plan)     \* an empty plan applies nothing

ReverseOKWhenClosed(p, c) == Active(p, c)

ReverseOK(p, c) == Active(p, c) /\ Mutable(c)

RestoredStatusOnlyPayer(c, rem) == IF rem > 0 THEN "PENDING" ELSE "PAID"

RestoredStatusUntouched(c, rem) == charge[c].status

(* rem is what is left of the charge without this application.             *)
RestoredStatus(c, rem) ==
  IF rem = charge[c].amount THEN "PENDING" ELSE PaidStatus(rem)

WriteReverseFreesAll(p, c, left, amount, status) ==
  /\ app' = [app EXCEPT ![p][c].state = "reversed"]
  /\ payment' = [payment EXCEPT ![p].unapplied = amount,
                                ![p].status = "CONFIRMED"]
  /\ charge' = [charge EXCEPT ![c].status = status]

WriteReverse(p, c, left, amount, status) ==
  /\ app' = [app EXCEPT ![p][c].state = "reversed"]
  /\ payment' = [payment EXCEPT
                   ![p].unapplied = left,
                   ![p].status = IF left = amount THEN "CONFIRMED"
                                 ELSE "PARTIALLY_APPLIED"]
  /\ charge' = [charge EXCEPT ![c].status = status]

ReverseApplication(p, c) ==
  /\ ReverseOK(p, c)
  /\ WriteReverse(p, c, payment[p].unapplied + app[p][c].amount,
                  payment[p].amount,
                  RestoredStatus(c, Remaining(c) + app[p][c].amount))
  /\ UNCHANGED <<period, bank>>

-----------------------------------------------------------------------------
(* charges.service.ts                                                      *)

CreateChargeOK(c) == charge[c].status = "ABSENT" /\ Mutable(c)

WriteNewCharge(c, amount, movement) ==
  charge' = [charge EXCEPT ![c] = [status |-> "PENDING", amount |-> amount,
                                   movement |-> movement]]

CreateCharge(c, amount, movement) ==
  /\ CreateChargeOK(c)
  /\ WriteNewCharge(c, amount, movement)
  /\ UNCHANGED <<payment, app, period, bank>>

(* update with an amount in the body; the movement may stay the same.      *)
UpdateAmountOKWhenPaid(c) == charge[c].status \notin {"ABSENT", "CANCELLED"}

UpdateAmountOK(c) ==
  charge[c].status \notin {"ABSENT", "CANCELLED"} /\ Payers(c) = {}

WriteChargeAmount(c, amount, movement) ==
  charge' = [charge EXCEPT ![c].amount = amount, ![c].movement = movement]

UpdateChargeAmount(c, amount, movement) ==
  /\ UpdateAmountOK(c) /\ Mutable(c)
  /\ WriteChargeAmount(c, amount, movement)
  /\ UNCHANGED <<payment, app, period, bank>>

(* update without one: the movement may change under active applications.  *)
UpdateMovementOKWhenCancelled(c) == charge[c].status # "ABSENT"

UpdateMovementOK(c) == charge[c].status \notin {"ABSENT", "CANCELLED"}

WriteChargeMovement(c, movement) ==
  charge' = [charge EXCEPT ![c].movement = movement]

UpdateChargeMovement(c, movement) ==
  /\ UpdateMovementOK(c) /\ Mutable(c)
  /\ WriteChargeMovement(c, movement)
  /\ UNCHANGED <<payment, app, period, bank>>

CancelChargeOKWhenPaid(c) == charge[c].status \notin {"ABSENT", "CANCELLED"}

CancelChargeOK(c) ==
  charge[c].status \notin {"ABSENT", "CANCELLED"} /\ Payers(c) = {}

WriteChargeCancelled(c) == charge' = [charge EXCEPT ![c].status = "CANCELLED"]

CancelCharge(c) ==
  /\ CancelChargeOK(c) /\ Mutable(c)
  /\ WriteChargeCancelled(c)
  /\ UNCHANGED <<payment, app, period, bank>>

-----------------------------------------------------------------------------
(* billing-periods.service.ts                                              *)

ClosePeriodOK(b)  == period[b] \in {"GENERATED", "OPEN"}
ReopenPeriodOK(b) == period[b] = "CLOSED"

WritePeriod(b, status) == period' = [period EXCEPT ![b] = status]

ClosePeriod(b) ==
  /\ ClosePeriodOK(b)
  /\ WritePeriod(b, "CLOSED")
  /\ UNCHANGED <<payment, charge, app, bank>>

ReopenPeriod(b) ==
  /\ ReopenPeriodOK(b)
  /\ WritePeriod(b, "OPEN")
  /\ UNCHANGED <<payment, charge, app, bank>>

(* remove cancels the period, whatever its status.                         *)
RemovePeriod(b) ==
  /\ WritePeriod(b, "CANCELLED")
  /\ UNCHANGED <<payment, charge, app, bank>>

-----------------------------------------------------------------------------
(* Days an auto-apply may run on: before, between and after the due dates. *)
Days == {DueDate[c] + 1 : c \in Charge}

PaymentNext ==
  \E p \in Payment :
    \/ \E amount \in Amount, b \in BankTx \cup {None} :
         CreatePayment(p, amount, b)
    \/ ConfirmPayment(p)
    \/ CancelPayment(p)
    \/ \E apps \in Requests : Apply(p, apps)
    \/ \E now \in Days : AutoApply(p, now)
    \/ \E c \in Charge : ReverseApplication(p, c)

ChargeNext ==
  \E c \in Charge :
    \/ \E amount \in Amount, movement \in Movement :
         \/ CreateCharge(c, amount, movement)
         \/ UpdateChargeAmount(c, amount, movement)
    \/ \E movement \in Movement : UpdateChargeMovement(c, movement)
    \/ CancelCharge(c)

PeriodNext ==
  \E b \in Period : ClosePeriod(b) \/ ReopenPeriod(b) \/ RemovePeriod(b)

Next == PaymentNext \/ ChargeNext \/ PeriodNext

Spec == Init /\ [][Next]_vars

-----------------------------------------------------------------------------
(* No money is made or lost: what a payment still has plus what is applied *)
(* from it is its amount, through any chain of applications, reversals and *)
(* re-applications of the same pair.                                       *)
MoneyConserved ==
  \A p \in Payment :
    payment[p].unapplied + AppliedFrom(p) = payment[p].amount

(* No charge is paid beyond its amount, by one payment or by several, even *)
(* when its amount is edited between a reversal and the next application.  *)
NeverOverApplied == \A c \in Charge : AppliedTo(c) <= charge[c].amount

(* The stored status of a charge is the one its active applications imply, *)
(* although each handler rewrites it from its own arithmetic.              *)
ChargeStatusDerived ==
  \A c \in Charge :
    /\ Payers(c) = {} <=>
         charge[c].status \in {"ABSENT", "PENDING", "CANCELLED"}
    /\ charge[c].status = "PAID" <=> Payers(c) # {} /\ Remaining(c) = 0

(* The stored status of a payment is the one its applications imply,       *)
(* although apply derives it from what is left and reversal from the sum.  *)
PaymentStatusDerived ==
  \A p \in Payment :
    /\ PaidBy(p) = {} <=> payment[p].status \notin {"PARTIALLY_APPLIED", "APPLIED"}
    /\ payment[p].status = "APPLIED" <=>
         PaidBy(p) # {} /\ payment[p].unapplied = 0

(* Nothing that belongs to a CLOSED billing period changes: neither its    *)
(* charges nor the applications to them (assertBillingPeriodMutable).      *)
KeepsClosed ==
  \A c \in Charge :
    Closed(c) => /\ charge'[c] = charge[c]
                 /\ \A p \in Payment : app'[p][c] = app[p][c]

ClosedPeriodFrozen == [][KeepsClosed]_vars

(* A payment that is not confirmed, or no longer valid, pays for nothing,  *)
(* and a cancelled charge is paid by nothing: every handler that retires a *)
(* row, or revives one, looks at the applications first.                   *)
RetiredRowsUnused ==
  /\ \A p \in Payment :
       payment[p].status \in {"ABSENT", "PENDING", "CANCELLED", "REVERSED"}
         => PaidBy(p) = {}
  /\ \A c \in Charge :
       charge[c].status \in {"ABSENT", "CANCELLED"} => Payers(c) = {}

(* A cancelled payment or charge is never brought back or edited.          *)
KeepsCancelled ==
  /\ \A p \in Payment :
       payment[p].status = "CANCELLED" => payment'[p] = payment[p]
  /\ \A c \in Charge :
       charge[c].status = "CANCELLED" => charge'[c] = charge[c]

CancelledIsFinal == [][KeepsCancelled]_vars

(* An automatic application reaches a charge that is not yet due only when *)
(* nothing is left of the unit's past-due debits.                          *)
PastDueFirst(p, now) ==
  \A c, d \in PayableDebits(p) :
    /\ PastDue(c, now) /\ ~PastDue(d, now)
    /\ ~Active(p, d) /\ Active(p, d)'
    /\ AutoApply(p, now)
    => Remaining(c)' <= 0

AutoApplyPastDueFirst ==
  [][\A p \in Payment, now \in Days : PastDueFirst(p, now)]_vars
=============================================================================
