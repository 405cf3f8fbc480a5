------------------------- MODULE BankReconciliation -------------------------
(***************************************************************************)
(* Bank reconciliation on top of the payment ledger: a bank movement is    *)
(* suggested, matched to a unit (which creates a confirmed payment for its *)
(* whole amount), ignored or reversed (which reverses its payments).       *)
(*                                                                         *)
(* Which units a movement's text hints at is data: suggestMatch may or may *)
(* not find a candidate.  The unit a match names is that of the payment    *)
(* row it inserts.                                                         *)
(***************************************************************************)
EXTENDS Payments

Linked(b) == {p \in Payment : payment[p].bankTx = b}

(* The payments of the movement that are neither cancelled nor reversed.   *)
LivePayments(b) ==
  {p \in Linked(b) :
     payment[p].status \notin {"ABSENT", "CANCELLED", "REVERSED"}}

WriteBankStatus(b, status) == bank' = [bank EXCEPT ![b].status = status]

SuggestOK(b) == bank[b].status = "UNMATCHED"

SuggestMatch(b) ==
  /\ SuggestOK(b)
  /\ WriteBankStatus(b, "SUGGESTED")
  /\ UNCHANGED <<payment, charge, app, period>>

MatchOK(b) == bank[b].status \notin {"ABSENT", "APPLIED", "IGNORED", "REVERSED"}

WriteMatch(b, p) ==
  /\ WriteNewPayment(p, bank[b].amount, b, "CONFIRMED")
  /\ bank' = [bank EXCEPT ![b].status = "SUGGESTED", ![b].unit = PaymentUnit[p]]

Match(b, p) ==
  /\ MatchOK(b)
  /\ payment[p].status = "ABSENT"
  /\ WriteMatch(b, p)
  /\ UNCHANGED <<charge, app, period>>

IgnoreOK(b) == bank[b].status \notin {"ABSENT", "APPLIED"}

Ignore(b) ==
  /\ IgnoreOK(b)
  /\ WriteBankStatus(b, "IGNORED")
  /\ UNCHANGED <<payment, charge, app, period>>

ReverseBankOKWhenApplied(b) == bank[b].status # "ABSENT"

ReverseBankOK(b) ==
  /\ bank[b].status # "ABSENT"
  /\ \A p \in LivePayments(b) : PaidBy(p) = {}

WriteReverseBankKeepsUnit(b, payments) ==
  /\ payment' = [p \in Payment |->
                   IF p \in payments
                   THEN [payment[p] EXCEPT !.status = "REVERSED"]
                   ELSE payment[p]]
  /\ bank' = [bank EXCEPT ![b].status = "REVERSED"]

WriteReverseBankUnconfirms(b, payments) ==
  /\ payment' = [p \in Payment |->
                   IF p \in payments
                   THEN [payment[p] EXCEPT !.status = "PENDING"]
                   ELSE payment[p]]
  /\ bank' = [bank EXCEPT ![b].status = "UNMATCHED", ![b].unit = None]

WriteReverseBank(b, payments) ==
  /\ payment' = [p \in Payment |->
                   IF p \in payments
                   THEN [payment[p] EXCEPT !.status = "REVERSED"]
                   ELSE payment[p]]
  /\ bank' = [bank EXCEPT ![b].status = "REVERSED", ![b].unit = None]

ReverseBank(b) ==
  /\ ReverseBankOK(b)
  /\ WriteReverseBank(b, LivePayments(b))
  /\ UNCHANGED <<charge, app, period>>

BankNext ==
  \E b \in BankTx :
    \/ SuggestMatch(b)
    \/ \E p \in Payment : Match(b, p)
    \/ Ignore(b)
    \/ ReverseBank(b)

BankLedgerNext == Next \/ BankNext

BankLedgerSpec == Init /\ [][BankLedgerNext]_vars

-----------------------------------------------------------------------------
(* A bank movement that carries a matched unit has a payment of that unit  *)
(* which was not reversed with it: reverse clears the unit, and only a     *)
(* match or an application sets it again.                                  *)
MatchedUnitBacked ==
  \A b \in BankTx :
    bank[b].unit # None =>
      \E p \in Linked(b) : /\ payment[p].status # "REVERSED"
                           /\ PaymentUnit[p] = bank[b].unit
=============================================================================
