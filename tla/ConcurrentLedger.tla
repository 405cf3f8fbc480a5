-------------------------- MODULE ConcurrentLedger --------------------------
(***************************************************************************)
(* The same handlers when requests overlap.  A worker serves one request   *)
(* at a time: it reads and checks (Begin...), then writes what it computed *)
(* from those reads (Commit), and other workers may commit in between.     *)
(*                                                                         *)
(* apply and reverseApplication run in a Prisma $transaction at MySQL's    *)
(* default REPEATABLE READ: all their reads see one snapshot, their        *)
(* updates write absolute values computed from it, and the row locks taken *)
(* by the writes make the whole write set appear at once.  The other       *)
(* handlers are separate autocommit statements.  A transaction that hits   *)
(* the unique index on (payment, charge), loses a deadlock or times out,   *)
(* and a request whose process dies, write nothing (Abandon).              *)
(*                                                                         *)
(* Inserting a payment and cancelling a period depend on nothing that can  *)
(* change, so they stay single steps.                                      *)
(***************************************************************************)
EXTENDS UnitBalance

CONSTANT Worker

VARIABLE flight    \* per worker, the request it has read for but not written

cvars == <<payment, charge, app, period, bank, flight>>

Idle == [op |-> "idle"]

(* What a worker may hold between its reads and its writes.                *)
RequestOK(r) ==
  \/ r = Idle
  \/ r \in [op : {"confirm", "cancelPayment"}, payment : Payment]
  \/ r.op = "plan" /\ r.payment \in Payment
  \/ /\ r.op = "apply" /\ r.payment \in Payment /\ r.left \in Nat
     /\ \A c \in DOMAIN r.apps : r.apps[c] \in Nat \ {0}
  \/ r \in [op : {"reverse"}, payment : Payment, charge : Charge, left : Nat,
            amount : Nat, status : ChargeStatus]
  \/ r \in [op : {"createCharge"}, charge : Charge, amount : Nat,
            movement : Movement]
  \/ r \in [op : {"updateAmount"}, charge : Charge, amount : Nat,
            movement : Movement, checked : BOOLEAN]
  \/ r \in [op : {"updateMovement"}, charge : Charge, movement : Movement,
            checked : BOOLEAN]
  \/ r \in [op : {"cancelCharge"}, charge : Charge, checked : BOOLEAN]
  \/ r \in [op : {"closePeriod", "reopenPeriod"}, period : Period]
  \/ r \in [op : {"suggest", "ignore"}, bank : BankTx]
  \/ r \in [op : {"match"}, bank : BankTx, payment : Payment]
  \/ r \in [op : {"reverseBank"}, bank : BankTx, payments : SUBSET Payment]

(* Columns keep their types whatever overlaps.                             *)
ConcurrentTypeOK ==
  /\ TypeOK
  /\ flight = [w \in Worker |-> flight[w]]
  /\ \A w \in Worker : RequestOK(flight[w])

ConcurrentInit == Init /\ flight = [w \in Worker |-> Idle]

Begin(w, request) ==
  /\ flight[w] = Idle
  /\ flight' = [flight EXCEPT ![w] = request]
  /\ UNCHANGED vars

(* The transaction at the commit of worker w, whose request has this op.   *)
Finish(w, op) ==
  /\ flight[w].op = op
  /\ flight' = [flight EXCEPT ![w] = Idle]

Abandon(w) ==
  /\ flight[w] # Idle
  /\ flight' = [flight EXCEPT ![w] = Idle]
  /\ UNCHANGED vars

-----------------------------------------------------------------------------
(* Payments                                                                *)

BeginConfirm(w, p) ==
  ConfirmOK(p) /\ Begin(w, [op |-> "confirm", payment |-> p])

CommitConfirm(w) ==
  /\ Finish(w, "confirm")
  /\ WritePaymentStatus(flight[w].payment, "CONFIRMED")
  /\ UNCHANGED <<charge, app, period, bank>>

BeginCancelPayment(w, p) ==
  CancelPaymentOK(p) /\ Begin(w, [op |-> "cancelPayment", payment |-> p])

CommitCancelPayment(w) ==
  /\ Finish(w, "cancelPayment")
  /\ WritePaymentStatus(flight[w].payment, "CANCELLED")
  /\ UNCHANGED <<charge, app, period, bank>>

ApplyRequestUndeducted(p, apps) ==
  [op |-> "apply", payment |-> p, apps |-> apps,
   left |-> payment[p].unapplied, rem |-> RemainingAfter(apps),
   fresh |-> {c \in DOMAIN apps : app[p][c].state = "none"}]

(* fresh: the pairs this transaction will insert rather than update.       *)
ApplyRequest(p, apps) ==
  [op |-> "apply", payment |-> p, apps |-> apps,
   left |-> LeftAfter(p, apps), rem |-> RemainingAfter(apps),
   fresh |-> {c \in DOMAIN apps : app[p][c].state = "none"}]

BeginApply(w, p, apps) ==
  ApplyOK(p, apps) /\ Begin(w, ApplyRequest(p, apps))

CommitApplyRelative(w) ==
  LET r == flight[w]
  IN  /\ Finish(w, "apply")
      /\ \A c \in r.fresh : app[r.payment][c].state = "none"
      /\ WriteApply(r.payment, r.apps, LeftAfter(r.payment, r.apps), r.rem)
      /\ UNCHANGED period

CommitApply(w) ==
  LET r == flight[w]
  IN  /\ Finish(w, "apply")
      /\ \A c \in r.fresh : app[r.payment][c].state = "none"
      /\ WriteApply(r.payment, r.apps, r.left, r.rem)
      /\ UNCHANGED period

(* autoApply plans from reads of its own, then calls apply.                *)
PlanAutoApply(w, p, now) ==
  /\ payment[p].status \notin {"ABSENT", "PENDING"}
  /\ DOMAIN AutoPlan(p, now) # {}
  /\ Begin(w, [op |-> "plan", payment |-> p, apps |-> AutoPlan(p, now)])

BeginPlanned(w) ==
  LET r == flight[w]
  IN  /\ r.op = "plan"
      /\ ApplyOK(r.payment, r.apps)
      /\ flight' = [flight EXCEPT ![w] = ApplyRequest(r.payment, r.apps)]
      /\ UNCHANGED vars

BeginReverse(w, p, c) ==
  /\ ReverseOK(p, c)
  /\ Begin(w, [op |-> "reverse", payment |-> p, charge |-> c,
               left |-> payment[p].unapplied + app[p][c].amount,
               amount |-> payment[p].amount,
               status |-> RestoredStatus(c, Remaining(c) + app[p][c].amount)])

CommitReverse(w) ==
  LET r == flight[w]
  IN  /\ Finish(w, "reverse")
      /\ WriteReverse(r.payment, r.charge, r.left, r.amount, r.status)
      /\ UNCHANGED <<period, bank>>

-----------------------------------------------------------------------------
(* Charges: the charge is read first, the billing period after it.         *)

BeginCreateCharge(w, c, amount, movement) ==
  /\ CreateChargeOK(c)
  /\ Begin(w, [op |-> "createCharge", charge |-> c, amount |-> amount,
               movement |-> movement])

CommitCreateCharge(w) ==
  LET r == flight[w]
  IN  /\ Finish(w, "createCharge")
      /\ charge[r.charge].status = "ABSENT"     \* the id is a fresh uuid
      /\ WriteNewCharge(r.charge, r.amount, r.movement)
      /\ UNCHANGED <<payment, app, period, bank>>

ReadUpdateAmount(w, c, amount, movement) ==
  /\ UpdateAmountOK(c)
  /\ Begin(w, [op |-> "updateAmount", charge |-> c, amount |-> amount,
               movement |-> movement, checked |-> FALSE])

ReadUpdateMovement(w, c, movement) ==
  /\ UpdateMovementOK(c)
  /\ Begin(w, [op |-> "updateMovement", charge |-> c, movement |-> movement,
               checked |-> FALSE])

ReadCancelCharge(w, c) ==
  /\ CancelChargeOK(c)
  /\ Begin(w, [op |-> "cancelCharge", charge |-> c, checked |-> FALSE])

CheckPeriod(w) ==
  /\ flight[w].op \in {"updateAmount", "updateMovement", "cancelCharge"}
  /\ Mutable(flight[w].charge)
  /\ flight' = [flight EXCEPT ![w].checked = TRUE]
  /\ UNCHANGED vars

CommitUpdateAmount(w) ==
  LET r == flight[w]
  IN  /\ Finish(w, "updateAmount")
      /\ r.checked
      /\ WriteChargeAmount(r.charge, r.amount, r.movement)
      /\ UNCHANGED <<payment, app, period, bank>>

CommitUpdateMovement(w) ==
  LET r == flight[w]
  IN  /\ Finish(w, "updateMovement")
      /\ r.checked
      /\ WriteChargeMovement(r.charge, r.movement)
      /\ UNCHANGED <<payment, app, period, bank>>

CommitCancelChargeUnchecked(w) ==
  LET r == flight[w]
  IN  /\ Finish(w, "cancelCharge")
      /\ WriteChargeCancelled(r.charge)
      /\ UNCHANGED <<payment, app, period, bank>>

CommitCancelCharge(w) ==
  LET r == flight[w]
  IN  /\ Finish(w, "cancelCharge")
      /\ r.checked
      /\ WriteChargeCancelled(r.charge)
      /\ UNCHANGED <<payment, app, period, bank>>

-----------------------------------------------------------------------------
(* Billing periods                                                         *)

BeginClosePeriod(w, b) ==
  ClosePeriodOK(b) /\ Begin(w, [op |-> "closePeriod", period |-> b])

CommitClosePeriod(w) ==
  /\ Finish(w, "closePeriod")
  /\ WritePeriod(flight[w].period, "CLOSED")
  /\ UNCHANGED <<payment, charge, app, bank>>

BeginReopenPeriod(w, b) ==
  ReopenPeriodOK(b) /\ Begin(w, [op |-> "reopenPeriod", period |-> b])

CommitReopenPeriod(w) ==
  /\ Finish(w, "reopenPeriod")
  /\ WritePeriod(flight[w].period, "OPEN")
  /\ UNCHANGED <<payment, charge, app, bank>>

-----------------------------------------------------------------------------
(* Bank movements: match and reverse check before their transaction opens. *)

BeginSuggest(w, b) ==
  SuggestOK(b) /\ Begin(w, [op |-> "suggest", bank |-> b])

CommitSuggest(w) ==
  /\ Finish(w, "suggest")
  /\ WriteBankStatus(flight[w].bank, "SUGGESTED")
  /\ UNCHANGED <<payment, charge, app, period>>

BeginMatch(w, b, p) ==
  /\ MatchOK(b)
  /\ payment[p].status = "ABSENT"
  /\ Begin(w, [op |-> "match", bank |-> b, payment |-> p])

CommitMatch(w) ==
  LET r == flight[w]
  IN  /\ Finish(w, "match")
      /\ payment[r.payment].status = "ABSENT"   \* the id is a fresh uuid
      /\ WriteMatch(r.bank, r.payment)
      /\ UNCHANGED <<charge, app, period>>

BeginIgnore(w, b) ==
  IgnoreOK(b) /\ Begin(w, [op |-> "ignore", bank |-> b])

CommitIgnore(w) ==
  /\ Finish(w, "ignore")
  /\ WriteBankStatus(flight[w].bank, "IGNORED")
  /\ UNCHANGED <<payment, charge, app, period>>

BeginReverseBank(w, b) ==
  /\ ReverseBankOK(b)
  /\ Begin(w, [op |-> "reverseBank", bank |-> b, payments |-> LivePayments(b)])

CommitReverseBank(w) ==
  LET r == flight[w]
  IN  /\ Finish(w, "reverseBank")
      /\ WriteReverseBank(r.bank, r.payments)
      /\ UNCHANGED <<charge, app, period>>

-----------------------------------------------------------------------------
BeginStep(w) ==
  \/ \E p \in Payment :
       \/ BeginConfirm(w, p)
       \/ BeginCancelPayment(w, p)
       \/ \E apps \in Requests : BeginApply(w, p, apps)
       \/ \E now \in Days : PlanAutoApply(w, p, now)
       \/ \E c \in Charge : BeginReverse(w, p, c)
  \/ \E c \in Charge :
       \/ \E amount \in Amount, movement \in Movement :
            \/ BeginCreateCharge(w, c, amount, movement)
            \/ ReadUpdateAmount(w, c, amount, movement)
       \/ \E movement \in Movement : ReadUpdateMovement(w, c, movement)
       \/ ReadCancelCharge(w, c)
  \/ \E b \in Period : BeginClosePeriod(w, b) \/ BeginReopenPeriod(w, b)
  \/ \E b \in BankTx :
       \/ BeginSuggest(w, b)
       \/ \E p \in Payment : BeginMatch(w, b, p)
       \/ BeginIgnore(w, b)
       \/ BeginReverseBank(w, b)

CommitStep(w) ==
  \/ CommitConfirm(w)
  \/ CommitCancelPayment(w)
  \/ CommitApply(w)
  \/ CommitReverse(w)
  \/ CommitCreateCharge(w)
  \/ CommitUpdateAmount(w)
  \/ CommitUpdateMovement(w)
  \/ CommitCancelCharge(w)
  \/ CommitClosePeriod(w)
  \/ CommitReopenPeriod(w)
  \/ CommitSuggest(w)
  \/ CommitMatch(w)
  \/ CommitIgnore(w)
  \/ CommitReverseBank(w)

AtomicStep(w) ==
  /\ flight[w] = Idle
  /\ \/ \E p \in Payment, amount \in Amount, b \in BankTx \cup {None} :
          CreatePayment(p, amount, b)
     \/ \E b \in Period : RemovePeriod(b)
  /\ UNCHANGED flight

ConcurrentNext ==
  \E w \in Worker : \/ BeginStep(w) \/ BeginPlanned(w) \/ CheckPeriod(w)
                     \/ CommitStep(w) \/ Abandon(w) \/ AtomicStep(w)

ConcurrentSpec == ConcurrentInit /\ [][ConcurrentNext]_cvars

-----------------------------------------------------------------------------
(* Requests that touch different units.  A bank movement may have payments *)
(* of any unit; closing a period freezes the charges of every unit.        *)
Scope(r) ==
  CASE r.op = "idle" -> {}
    [] r.op \in {"confirm", "cancelPayment", "apply", "plan", "reverse"} ->
         {PaymentUnit[r.payment]}
    [] r.op \in {"createCharge", "updateAmount", "updateMovement",
                 "cancelCharge"} -> {ChargeUnit[r.charge]}
    [] OTHER -> Unit

UnitsApart ==
  \A v, w \in Worker : v # w => Scope(flight[v]) \cap Scope(flight[w]) = {}

ApartNext == ConcurrentNext /\ UnitsApart'

(* What the callers would have to ensure: never two requests on one unit.  *)
ApartSpec == ConcurrentInit /\ [][ApartNext]_cvars

-----------------------------------------------------------------------------
(* A single worker does what the handlers do when each runs alone: every   *)
(* write is still justified by the rows as they are when it is made, the   *)
(* steps before it write nothing, and an abandoned request leaves no trace *)
RunsOneAtATime == BankLedgerSpec

(* Whatever overlaps, a payment nobody has confirmed has never been spent: *)
(* PENDING is not entered again once left, and apply only starts from a    *)
(* confirmed payment.                                                      *)
PendingNeverSpent ==
  \A p \in Payment :
    payment[p].status \in {"ABSENT", "PENDING"} =>
      PaidBy(p) = {} /\ payment[p].unapplied = payment[p].amount
=============================================================================
