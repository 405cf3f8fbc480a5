-------------------------- MODULE ConcurrentProofs --------------------------
(***************************************************************************)
(* What holds of the ledger for any number of requests in flight at once,  *)
(* and what they amount to when there is one at a time, or one on a unit.  *)
(***************************************************************************)
EXTENDS ConcurrentLedger, BalanceProofs

(* Steps that read and check: the new request is well formed and no row    *)
(* changes.                                                                *)
Reads(w) ==
  /\ UNCHANGED vars
  /\ \E r : RequestOK(r) /\ flight' = [flight EXCEPT ![w] = r]

LEMMA BeginReads ==
  ASSUME ConcurrentTypeOK, NEW w \in Worker, BeginStep(w)
  PROVE  Reads(w)
<1> USE DEF Reads, Begin, RequestOK
<1>1. CASE \E p \in Payment : BeginConfirm(w, p) \/ BeginCancelPayment(w, p)
  BY <1>1 DEF BeginConfirm, BeginCancelPayment
<1>2. ASSUME NEW p \in Payment, NEW apps, BeginApply(w, p, apps)
      PROVE  Reads(w)
  BY <1>2 DEF BeginApply, ApplyRequest, ApplyOK, ItemOK
<1>3. ASSUME NEW p \in Payment, NEW now \in Days, PlanAutoApply(w, p, now)
      PROVE  Reads(w)
  BY <1>3 DEF PlanAutoApply
<1>4. ASSUME NEW p \in Payment, NEW c \in Charge, BeginReverse(w, p, c)
      PROVE  Reads(w)
  <2>1. /\ payment[p].unapplied + app[p][c].amount \in Nat
        /\ payment[p].amount \in Nat
    BY DEF ConcurrentTypeOK, TypeOK, PaymentRow, AppRow
  <2>2. RestoredStatus(c, Remaining(c) + app[p][c].amount) \in ChargeStatus
    BY StatusValues, DerivedStatusValues DEF RestoredStatus
  <2>3. QED BY <1>4, <2>1, <2>2 DEF BeginReverse
<1>5. ASSUME NEW c \in Charge, NEW amount \in Amount, NEW movement \in Movement,
             \/ BeginCreateCharge(w, c, amount, movement)
             \/ ReadUpdateAmount(w, c, amount, movement)
      PROVE  Reads(w)
  BY <1>5, ConstantsAssumption DEF BeginCreateCharge, ReadUpdateAmount
<1>6. ASSUME NEW c \in Charge, NEW movement \in Movement,
             ReadUpdateMovement(w, c, movement)
      PROVE  Reads(w)
  BY <1>6 DEF ReadUpdateMovement
<1>7. ASSUME NEW c \in Charge, ReadCancelCharge(w, c) PROVE Reads(w)
  BY <1>7 DEF ReadCancelCharge
<1>8. CASE \E b \in Period : BeginClosePeriod(w, b) \/ BeginReopenPeriod(w, b)
  BY <1>8 DEF BeginClosePeriod, BeginReopenPeriod
<1>9. CASE \E b \in BankTx : BeginSuggest(w, b) \/ BeginIgnore(w, b)
  BY <1>9 DEF BeginSuggest, BeginIgnore
<1>10. CASE \E b \in BankTx, p \in Payment : BeginMatch(w, b, p)
  BY <1>10 DEF BeginMatch
<1>11. ASSUME NEW b \in BankTx, BeginReverseBank(w, b) PROVE Reads(w)
  <2>1. LivePayments(b) \subseteq Payment
    BY DEF LivePayments, Linked
  <2>2. QED BY <1>11, <2>1 DEF BeginReverseBank
<1>12. QED
  BY <1>1, <1>2, <1>3, <1>4, <1>5, <1>6, <1>7, <1>8, <1>9, <1>10, <1>11
  DEF BeginStep

LEMMA OtherReads ==
  ASSUME ConcurrentTypeOK, NEW w \in Worker,
         BeginPlanned(w) \/ CheckPeriod(w) \/ Abandon(w)
  PROVE  Reads(w)
<1>0. RequestOK(flight[w])
  BY DEF ConcurrentTypeOK
<1>1. CASE BeginPlanned(w)
  <2> DEFINE p == flight[w].payment
             r == ApplyRequest(p, flight[w].apps)
  <2>1. /\ flight[w].op = "plan" /\ ApplyOK(p, flight[w].apps)
        /\ flight' = [flight EXCEPT ![w] = r] /\ UNCHANGED vars
    BY <1>1 DEF BeginPlanned
  <2>2. p \in Payment
    BY <1>0, <2>1 DEF RequestOK, Idle
  <2>3. RequestOK(r)
    BY <2>1, <2>2 DEF ApplyRequest, ApplyOK, ItemOK, RequestOK
  <2>4. QED BY <2>1, <2>3 DEF Reads
<1>2. CASE CheckPeriod(w)
  <2> DEFINE r == [flight[w] EXCEPT !.checked = TRUE]
  <2>1. RequestOK(r)
    BY <1>0, <1>2 DEF CheckPeriod, RequestOK, Idle
  <2>2. flight' = [flight EXCEPT ![w] = r] /\ UNCHANGED vars
    BY <1>2 DEF CheckPeriod
  <2>3. QED BY <2>1, <2>2 DEF Reads
<1>3. CASE Abandon(w)
  BY <1>3 DEF Abandon, Reads, RequestOK
<1>4. QED BY <1>1, <1>2, <1>3

-----------------------------------------------------------------------------
(* Steps that write: the rows keep their types, and the payments and       *)
(* applications of every other payment stay as they are.                   *)
Frees(w) == flight' = [flight EXCEPT ![w] = Idle]

(* What no write may do to a payment that nobody has confirmed.            *)
SpendsNone(p) ==
  payment'[p].status \in {"ABSENT", "PENDING"} =>
    app'[p] = app[p] /\ payment'[p] = payment[p]

LEMMA PaymentCommits ==
  ASSUME ConcurrentTypeOK, NEW w \in Worker,
         CommitConfirm(w) \/ CommitCancelPayment(w)
  PROVE  TypeOK' /\ Frees(w) /\ \A p \in Payment : SpendsNone(p)
<1> DEFINE p == flight[w].payment
<1>1. p \in Payment
  BY DEF ConcurrentTypeOK, RequestOK, Idle, CommitConfirm, CommitCancelPayment,
         Finish
<1>2. PICK status \in PaymentStatus \ {"ABSENT", "PENDING"} :
        WritePaymentStatus(p, status)
  BY StatusValues DEF CommitConfirm, CommitCancelPayment
<1>3. UNCHANGED <<charge, app, period, bank>> /\ Frees(w)
  BY DEF CommitConfirm, CommitCancelPayment, Finish, Frees
<1>4. TypeOK'
  BY <1>1, <1>2, <1>3, PaymentStatusType DEF ConcurrentTypeOK, TypeOK
<1>5. \A q \in Payment : SpendsNone(q)
  BY <1>1, <1>2, <1>3
  DEF WritePaymentStatus, SpendsNone, ConcurrentTypeOK, TypeOK, PaymentRow
<1>6. QED BY <1>3, <1>4, <1>5

LEMMA ApplyCommit ==
  ASSUME ConcurrentTypeOK, NEW w \in Worker, CommitApply(w)
  PROVE  TypeOK' /\ Frees(w) /\ \A p \in Payment : SpendsNone(p)
<1> DEFINE r == flight[w]
<1>1. /\ r.payment \in Payment /\ r.left \in Nat
      /\ \A c \in DOMAIN r.apps : r.apps[c] \in Nat \ {0}
  BY DEF ConcurrentTypeOK, RequestOK, Idle, CommitApply, Finish
<1>2. /\ WriteApply(r.payment, r.apps, r.left, r.rem) /\ period' = period
      /\ Frees(w)
  BY DEF CommitApply, Finish, Frees
<1> HIDE DEF r
<1>3. TypeOK'
  BY <1>1, <1>2, ApplyType DEF ConcurrentTypeOK, TypeOK
<1>4. ASSUME NEW q \in Payment PROVE SpendsNone(q)
  <2>1. CASE q = r.payment
    <3>1. payment'[q].status = AppliedStatus(r.left)
      BY <1>2, <2>1
      DEF WriteApply, ConcurrentTypeOK, TypeOK, PaymentRow
    <3>2. QED BY <3>1, DerivedStatusLive DEF SpendsNone
  <2>2. CASE q # r.payment
    BY <1>1, <1>2, <2>2
    DEF WriteApply, SpendsNone, ConcurrentTypeOK, TypeOK
  <2>3. QED BY <2>1, <2>2
<1>5. QED BY <1>2, <1>3, <1>4

LEMMA ReverseCommit ==
  ASSUME ConcurrentTypeOK, NEW w \in Worker, CommitReverse(w)
  PROVE  TypeOK' /\ Frees(w) /\ \A p \in Payment : SpendsNone(p)
<1> DEFINE r == flight[w]
<1>1. /\ r.payment \in Payment /\ r.charge \in Charge /\ r.left \in Nat
      /\ r.status \in ChargeStatus
  BY DEF ConcurrentTypeOK, RequestOK, Idle, CommitReverse, Finish
<1>2. /\ WriteReverse(r.payment, r.charge, r.left, r.amount, r.status)
      /\ UNCHANGED <<period, bank>> /\ Frees(w)
  BY DEF CommitReverse, Finish, Frees
<1> HIDE DEF r
<1>3. TypeOK'
  BY <1>1, <1>2, ReverseType DEF ConcurrentTypeOK, TypeOK
<1>4. \A q \in Payment : SpendsNone(q)
  BY <1>1, <1>2 DEF WriteReverse, SpendsNone, ConcurrentTypeOK, TypeOK, PaymentRow
<1>5. QED BY <1>2, <1>3, <1>4

LEMMA ChargeCommits ==
  ASSUME ConcurrentTypeOK, NEW w \in Worker,
         \/ CommitCreateCharge(w) \/ CommitUpdateAmount(w)
         \/ CommitUpdateMovement(w) \/ CommitCancelCharge(w)
  PROVE  TypeOK' /\ Frees(w) /\ \A p \in Payment : SpendsNone(p)
<1> DEFINE r == flight[w]
<1>1. UNCHANGED <<payment, app, period, bank>> /\ Frees(w)
  BY DEF CommitCreateCharge, CommitUpdateAmount, CommitUpdateMovement,
         CommitCancelCharge, Finish, Frees
<1>2. RequestOK(r)
  BY DEF ConcurrentTypeOK
<1> HIDE DEF r
<1>3. charge' \in [Charge -> ChargeRow]
  <2>0. TypeOK /\ 0 \in Nat /\ "DEBIT" \in Movement
    BY DEF ConcurrentTypeOK, Movement
  <2>1. CASE CommitCreateCharge(w)
    <3>1. r.charge \in Charge /\ r.amount \in Nat /\ r.movement \in Movement
      BY <1>2, <2>1 DEF CommitCreateCharge, Finish, RequestOK, Idle, r
    <3>2. QED BY <2>0, <2>1, <3>1, ChargeWritesType DEF CommitCreateCharge, r
  <2>2. CASE CommitUpdateAmount(w)
    <3>1. r.charge \in Charge /\ r.amount \in Nat /\ r.movement \in Movement
      BY <1>2, <2>2 DEF CommitUpdateAmount, Finish, RequestOK, Idle, r
    <3>2. QED BY <2>0, <2>2, <3>1, ChargeWritesType DEF CommitUpdateAmount, r
  <2>3. CASE CommitUpdateMovement(w)
    <3>1. r.charge \in Charge /\ r.movement \in Movement
      BY <1>2, <2>3 DEF CommitUpdateMovement, Finish, RequestOK, Idle, r
    <3>2. QED BY <2>0, <2>3, <3>1, ChargeWritesType DEF CommitUpdateMovement, r
  <2>4. CASE CommitCancelCharge(w)
    <3>1. r.charge \in Charge
      BY <1>2, <2>4 DEF CommitCancelCharge, Finish, RequestOK, Idle, r
    <3>2. QED BY <2>0, <2>4, <3>1, ChargeWritesType DEF CommitCancelCharge, r
  <2>5. QED BY <2>1, <2>2, <2>3, <2>4
<1>4. QED BY <1>1, <1>3 DEF SpendsNone, ConcurrentTypeOK, TypeOK

LEMMA PeriodCommits ==
  ASSUME ConcurrentTypeOK, NEW w \in Worker,
         CommitClosePeriod(w) \/ CommitReopenPeriod(w)
  PROVE  TypeOK' /\ Frees(w) /\ \A p \in Payment : SpendsNone(p)
<1>1. UNCHANGED <<payment, charge, app, bank>> /\ Frees(w)
  BY DEF CommitClosePeriod, CommitReopenPeriod, Finish, Frees
<1>2. PICK status \in PeriodStatus : WritePeriod(flight[w].period, status)
  BY StatusValues DEF CommitClosePeriod, CommitReopenPeriod
<1>3. period' \in [Period -> PeriodStatus]
  BY <1>2 DEF WritePeriod, ConcurrentTypeOK, TypeOK
<1>4. QED BY <1>1, <1>3 DEF SpendsNone, ConcurrentTypeOK, TypeOK

LEMMA BankCommits ==
  ASSUME ConcurrentTypeOK, NEW w \in Worker,
         \/ CommitSuggest(w) \/ CommitMatch(w)
         \/ CommitIgnore(w) \/ CommitReverseBank(w)
  PROVE  TypeOK' /\ Frees(w) /\ \A p \in Payment : SpendsNone(p)
<1> DEFINE r == flight[w]
<1>1. UNCHANGED <<charge, app, period>> /\ Frees(w)
  BY DEF CommitSuggest, CommitMatch, CommitIgnore, CommitReverseBank, Finish,
         Frees
<1>2. TypeOK /\ r.bank \in BankTx
  BY DEF ConcurrentTypeOK, RequestOK, Idle, CommitSuggest, CommitMatch,
         CommitIgnore, CommitReverseBank, Finish
<1>3. CASE CommitSuggest(w) \/ CommitIgnore(w)
  <2>1. PICK status \in BankStatus : WriteBankStatus(r.bank, status)
    BY <1>3, StatusValues DEF CommitSuggest, CommitIgnore
  <2>2. payment' = payment
    BY <1>3 DEF CommitSuggest, CommitIgnore
  <2>3. QED BY <1>1, <1>2, <2>1, <2>2, BankStatusType DEF SpendsNone, TypeOK
<1>4. CASE CommitMatch(w)
  <2>1. r.payment \in Payment
    BY <1>4 DEF ConcurrentTypeOK, RequestOK, Idle, CommitMatch, Finish
  <2>2. WriteMatch(r.bank, r.payment)
    BY <1>4 DEF CommitMatch
  <2> HIDE DEF r
  <2>3. TypeOK'
    BY <1>1, <1>2, <2>1, <2>2, MatchType DEF TypeOK
  <2>4. \A q \in Payment : SpendsNone(q)
    BY <1>1, <1>2, <2>1, <2>2
    DEF WriteMatch, WriteNewPayment, SpendsNone, TypeOK
  <2>5. QED BY <1>1, <2>3, <2>4
<1>5. CASE CommitReverseBank(w)
  <2>1. WriteReverseBank(r.bank, r.payments)
    BY <1>5 DEF CommitReverseBank
  <2> HIDE DEF r
  <2>2. TypeOK'
    BY <1>1, <1>2, <2>1, ReverseBankType DEF TypeOK
  <2>3. \A q \in Payment : SpendsNone(q)
    BY <1>1, <1>2, <2>1 DEF WriteReverseBank, SpendsNone, TypeOK, PaymentRow
  <2>4. QED BY <1>1, <2>2, <2>3
<1>6. QED BY <1>3, <1>4, <1>5

LEMMA Commits ==
  ASSUME ConcurrentTypeOK, NEW w \in Worker, CommitStep(w)
  PROVE  TypeOK' /\ Frees(w) /\ \A p \in Payment : SpendsNone(p)
BY Zenon, PaymentCommits, ApplyCommit, ReverseCommit, ChargeCommits,
   PeriodCommits, BankCommits DEF CommitStep

-----------------------------------------------------------------------------
LEMMA RequestReplaced ==
  ASSUME ConcurrentTypeOK, NEW w \in Worker, NEW r, RequestOK(r),
         flight' = [flight EXCEPT ![w] = r]
  PROVE  /\ flight' = [v \in Worker |-> flight'[v]]
         /\ \A v \in Worker : RequestOK(flight'[v])
<1>1. flight' = [v \in Worker |-> IF v = w THEN r ELSE flight[v]]
  BY DEF ConcurrentTypeOK
<1>2. QED BY <1>1 DEF ConcurrentTypeOK

LEMMA StillWellFormed ==
  ASSUME TypeOK', flight' = [v \in Worker |-> flight'[v]],
         \A v \in Worker : RequestOK(flight'[v])
  PROVE  ConcurrentTypeOK'
BY DEF ConcurrentTypeOK, RequestOK, Idle

LEMMA AtomicType ==
  ASSUME TypeOK, NEW w, AtomicStep(w)
  PROVE  TypeOK'
BY NextTypeOK DEF AtomicStep, BankLedgerNext, Next, PaymentNext, PeriodNext

LEMMA NextConcurrentTypeOK ==
  ConcurrentTypeOK /\ [ConcurrentNext]_cvars => ConcurrentTypeOK'
<1> SUFFICES ASSUME ConcurrentTypeOK, [ConcurrentNext]_cvars
             PROVE  ConcurrentTypeOK'
  OBVIOUS
<1>1. CASE UNCHANGED cvars
  BY <1>1, StillWellFormed, NextTypeOK DEF cvars, vars, ConcurrentTypeOK
<1>2. ASSUME NEW w \in Worker, Reads(w) PROVE ConcurrentTypeOK'
  <2>1. TypeOK'
    BY <1>2, NextTypeOK DEF Reads, ConcurrentTypeOK
  <2>2. QED BY <1>2, <2>1, RequestReplaced, StillWellFormed DEF Reads
<1>3. ASSUME NEW w \in Worker, TypeOK', Frees(w) PROVE ConcurrentTypeOK'
  <2>1. RequestOK(Idle)
    BY DEF RequestOK
  <2>2. QED BY <1>3, <2>1, RequestReplaced, StillWellFormed DEF Frees
<1>4. ASSUME NEW w \in Worker, AtomicStep(w) PROVE ConcurrentTypeOK'
  BY <1>4, AtomicType, StillWellFormed DEF AtomicStep, ConcurrentTypeOK
<1>5. QED
  BY <1>1, <1>2, <1>3, <1>4, BeginReads, OtherReads, Commits DEF ConcurrentNext

LEMMA InitConcurrentTypeOK == ConcurrentInit => ConcurrentTypeOK
BY InitTypeOK DEF ConcurrentInit, ConcurrentTypeOK, RequestOK

(* With any number of requests in flight, written from reads however old,  *)
(* the columns keep their types and every request is one of the code's.    *)
THEOREM ConcurrentTypeCorrect == ConcurrentSpec => []ConcurrentTypeOK
BY InitConcurrentTypeOK, NextConcurrentTypeOK, PTL DEF ConcurrentSpec

-----------------------------------------------------------------------------
(* The unconfirmed payments, one by one                                    *)

UnspentPayment(p) ==
  payment[p].status \in {"ABSENT", "PENDING"} =>
    /\ \A c \in Charge : ~Active(p, c)
    /\ payment[p].unapplied = payment[p].amount

LEMMA UnspentPayments ==
  /\ PendingNeverSpent <=> \A p \in Payment : UnspentPayment(p)
  /\ PendingNeverSpent' <=> \A p \in Payment : UnspentPayment(p)'
BY DEF PendingNeverSpent, UnspentPayment, PaidBy

LEMMA UnspentKept ==
  ASSUME PendingNeverSpent, \A p \in Payment : SpendsNone(p)
  PROVE  PendingNeverSpent'
BY UnspentPayments DEF SpendsNone, UnspentPayment, Active

LEMMA AtomicKeepsUnspent ==
  ASSUME ConcurrentTypeOK, PendingNeverSpent, NEW w, AtomicStep(w)
  PROVE  PendingNeverSpent'
<1>1. ASSUME NEW p \in Payment, NEW amount \in Amount,
             NEW b \in BankTx \cup {None}, CreatePayment(p, amount, b)
      PROVE  PendingNeverSpent'
  <2>1. UnspentPayment(p)'
    BY <1>1, UnspentPayments
    DEF CreatePayment, CreatePaymentOK, WriteNewPayment, UnspentPayment, Active,
        ConcurrentTypeOK, TypeOK
  <2>2. \A q \in Payment \ {p} : UnspentPayment(q)'
    BY <1>1, UnspentPayments
    DEF CreatePayment, WriteNewPayment, UnspentPayment, Active,
        ConcurrentTypeOK, TypeOK
  <2>3. QED BY <2>1, <2>2, UnspentPayments
<1>2. ASSUME NEW b \in Period, RemovePeriod(b) PROVE PendingNeverSpent'
  BY <1>2, UnspentKept DEF RemovePeriod, SpendsNone
<1>3. QED BY <1>1, <1>2 DEF AtomicStep

LEMMA NextUnspent ==
  ConcurrentTypeOK /\ PendingNeverSpent /\ [ConcurrentNext]_cvars
    => PendingNeverSpent'
<1> SUFFICES ASSUME ConcurrentTypeOK, PendingNeverSpent,
                    [ConcurrentNext]_cvars
             PROVE  PendingNeverSpent'
  OBVIOUS
<1>1. ASSUME UNCHANGED vars PROVE PendingNeverSpent'
  BY <1>1, UnspentKept DEF vars, SpendsNone
<1>2. QED
  BY <1>1, BeginReads, OtherReads, Commits, UnspentKept, AtomicKeepsUnspent
  DEF ConcurrentNext, Reads, cvars, vars

(* However many requests overlap and however stale their reads, a payment  *)
(* that nobody has confirmed has no active application and all its money.  *)
THEOREM UnconfirmedUnspent == ConcurrentSpec => []PendingNeverSpent
<1>1. ConcurrentInit => PendingNeverSpent
  BY DEF ConcurrentInit, Init, NoPaymentRow, NoAppRow, PendingNeverSpent, PaidBy,
         Active
<1>2. QED
  BY <1>1, ConcurrentTypeCorrect, NextUnspent, PTL DEF ConcurrentSpec

-----------------------------------------------------------------------------
(* With one request in flight at a time the handlers split into reads and  *)
(* writes implement the handlers that run in one step: what a request read *)
(* is still so when it writes.                                             *)

PlannedBy(r) == \E now \in Days : /\ r.apps = AutoPlan(r.payment, now)
                                  /\ DOMAIN r.apps # {}

(* What the reads of a request established, and what it computed from them *)
JustifiedPayment(r) ==
  /\ r.op = "confirm" => ConfirmOK(r.payment)
  /\ r.op = "cancelPayment" => CancelPaymentOK(r.payment)
  /\ r.op = "plan" => PlannedBy(r) /\ payment[r.payment].status # "ABSENT"
  /\ r.op = "apply" => /\ ApplyOK(r.payment, r.apps)
                       /\ r.left = LeftAfter(r.payment, r.apps)
                       /\ r.rem = RemainingAfter(r.apps)
                       /\ r.apps \in Requests \/ PlannedBy(r)
  /\ r.op = "reverse" =>
       /\ ReverseOK(r.payment, r.charge)
       /\ r.left = payment[r.payment].unapplied + app[r.payment][r.charge].amount
       /\ r.amount = payment[r.payment].amount
       /\ r.status = RestoredStatus(r.charge, Remaining(r.charge)
                                                + app[r.payment][r.charge].amount)

JustifiedCharge(r) ==
  /\ r.op = "createCharge" => CreateChargeOK(r.charge) /\ r.amount \in Amount
  /\ r.op = "updateAmount" => /\ UpdateAmountOK(r.charge) /\ r.amount \in Amount
                              /\ r.checked => Mutable(r.charge)
  /\ r.op = "updateMovement" => /\ UpdateMovementOK(r.charge)
                                /\ r.checked => Mutable(r.charge)
  /\ r.op = "cancelCharge" => /\ CancelChargeOK(r.charge)
                              /\ r.checked => Mutable(r.charge)

JustifiedOther(r) ==
  /\ r.op = "closePeriod" => ClosePeriodOK(r.period)
  /\ r.op = "reopenPeriod" => ReopenPeriodOK(r.period)
  /\ r.op = "suggest" => SuggestOK(r.bank)
  /\ r.op = "match" => MatchOK(r.bank)
  /\ r.op = "ignore" => IgnoreOK(r.bank)
  /\ r.op = "reverseBank" => /\ ReverseBankOK(r.bank)
                             /\ r.payments = LivePayments(r.bank)

Justified(r) == JustifiedPayment(r) /\ JustifiedCharge(r) /\ JustifiedOther(r)

(* Requests that check a status their write no longer looks at, and the    *)
(* reversal of a movement, whose payments are read before its transaction. *)
ReadEarly == {"closePeriod", "reopenPeriod", "reverseBank"}

(* The refinement's invariant: the request in flight, if any, is justified *)
(* by the rows as they are now.                                            *)
FlightJustified == \A w \in Worker : \A r : flight[w] = r => Justified(r)

-----------------------------------------------------------------------------
LEMMA SameReads ==
  ASSUME UNCHANGED vars
  PROVE  /\ \A c : Payers(c)' = Payers(c)
         /\ \A p : PaidBy(p)' = PaidBy(p)
         /\ \A c : Remaining(c)' = Remaining(c)
         /\ \A c : Mutable(c)' <=> Mutable(c)
         /\ \A b : LivePayments(b)' = LivePayments(b)
         /\ \A p, now : AutoPlan(p, now)' = AutoPlan(p, now)
<1>1. \A c : Payers(c)' = Payers(c)
  BY DEF vars, Payers, Active
<1>2. \A p : PaidBy(p)' = PaidBy(p)
  BY DEF vars, PaidBy, Active
<1>3. \A c : AppliedTo(c)' = AppliedTo(c)
  BY <1>1 DEF AppliedTo, vars
<1>4. \A c : Remaining(c)' = Remaining(c)
  BY <1>3 DEF Remaining, vars
<1>5. \A c : Mutable(c)' <=> Mutable(c)
  BY DEF vars, Mutable, Closed
<1>6. \A b : LivePayments(b)' = LivePayments(b)
  BY DEF vars, LivePayments, Linked
<1>7. \A p : PayableDebits(p)' = PayableDebits(p)
  BY DEF vars, PayableDebits
<1>8. \A p, now : AutoPlan(p, now)' = AutoPlan(p, now)
  BY <1>4, <1>7 DEF AutoPlan, vars
<1>9. QED BY <1>1, <1>2, <1>4, <1>5, <1>6, <1>8

LEMMA StillJustified ==
  ASSUME UNCHANGED vars, NEW r, Justified(r)
  PROVE  Justified(r)'
<1>1. PlannedBy(r) => PlannedBy(r)'
  BY SameReads DEF PlannedBy
<1>2. \A p, apps : /\ ApplyOK(p, apps) => ApplyOK(p, apps)'
                   /\ LeftAfter(p, apps)' = LeftAfter(p, apps)
                   /\ RemainingAfter(apps)' = RemainingAfter(apps)
  BY SameReads DEF ApplyOK, ItemOK, LeftAfter, RemainingAfter, Active, vars
<1>3. \A c, rem : RestoredStatus(c, rem)' = RestoredStatus(c, rem)
  BY DEF RestoredStatus, vars
<1>4. JustifiedPayment(r)'
  <2>1. ReverseOK(r.payment, r.charge) => ReverseOK(r.payment, r.charge)'
    BY SameReads DEF ReverseOK, Active, vars
  <2>2. /\ ConfirmOK(r.payment) => ConfirmOK(r.payment)'
        /\ CancelPaymentOK(r.payment) => CancelPaymentOK(r.payment)'
    BY SameReads DEF ConfirmOK, CancelPaymentOK, vars
  <2>3. r.op = "reverse" =>
          r.status = RestoredStatus(r.charge, Remaining(r.charge)
                                       + app[r.payment][r.charge].amount)'
    BY SameReads DEF Justified, JustifiedPayment, RestoredStatus, vars
  <2>4. QED
    BY <1>1, <1>2, <2>1, <2>2, <2>3 DEF Justified, JustifiedPayment, vars
<1>5. JustifiedCharge(r)'
  BY SameReads
  DEF Justified, JustifiedCharge, CreateChargeOK, UpdateAmountOK,
      UpdateMovementOK, CancelChargeOK, vars
<1>6. JustifiedOther(r)'
  BY SameReads
  DEF Justified, JustifiedOther, ClosePeriodOK, ReopenPeriodOK, SuggestOK, MatchOK,
      IgnoreOK, ReverseBankOK, vars
<1>7. QED BY <1>4, <1>5, <1>6 DEF Justified

-----------------------------------------------------------------------------
(* Steps that read leave a justified request and write no row.             *)
ReadsJustified(w) ==
  /\ UNCHANGED vars
  /\ \E r : Justified(r) /\ flight' = [flight EXCEPT ![w] = r]

LEMMA BeginJustified ==
  ASSUME NEW w \in Worker, BeginStep(w)
  PROVE  ReadsJustified(w)
<1> USE DEF ReadsJustified, Begin
<1>1. ASSUME NEW p \in Payment, BeginConfirm(w, p) PROVE ReadsJustified(w)
  <2>1. Justified([op |-> "confirm", payment |-> p])
    BY <1>1 DEF BeginConfirm, Justified, JustifiedPayment, JustifiedCharge,
                JustifiedOther
  <2>2. QED BY <1>1, <2>1 DEF BeginConfirm
<1>2. ASSUME NEW p \in Payment, BeginCancelPayment(w, p)
      PROVE  ReadsJustified(w)
  <2>1. Justified([op |-> "cancelPayment", payment |-> p])
    BY <1>2 DEF BeginCancelPayment, Justified, JustifiedPayment,
                JustifiedCharge, JustifiedOther
  <2>2. QED BY <1>2, <2>1 DEF BeginCancelPayment
<1>3. ASSUME NEW p \in Payment, NEW apps \in Requests, BeginApply(w, p, apps)
      PROVE  ReadsJustified(w)
  <2>1. Justified(ApplyRequest(p, apps))
    BY <1>3 DEF BeginApply, ApplyRequest, Justified, JustifiedPayment,
                JustifiedCharge, JustifiedOther
  <2>2. QED BY <1>3, <2>1 DEF BeginApply
<1>4. ASSUME NEW p \in Payment, NEW now \in Days, PlanAutoApply(w, p, now)
      PROVE  ReadsJustified(w)
  <2>1. Justified([op |-> "plan", payment |-> p, apps |-> AutoPlan(p, now)])
    BY <1>4 DEF PlanAutoApply, PlannedBy, Justified, JustifiedPayment,
                JustifiedCharge, JustifiedOther
  <2>2. QED BY <1>4, <2>1 DEF PlanAutoApply
<1>5. ASSUME NEW p \in Payment, NEW c \in Charge, BeginReverse(w, p, c)
      PROVE  ReadsJustified(w)
  <2>1. PICK r : /\ r = [op |-> "reverse", payment |-> p, charge |-> c,
                          left |-> payment[p].unapplied + app[p][c].amount,
                          amount |-> payment[p].amount,
                          status |-> RestoredStatus(c, Remaining(c)
                                                         + app[p][c].amount)]
                 /\ ReverseOK(p, c) /\ UNCHANGED vars
                 /\ flight' = [flight EXCEPT ![w] = r]
    BY <1>5 DEF BeginReverse
  <2>2. Justified(r)
    BY <2>1 DEF Justified, JustifiedPayment, JustifiedCharge, JustifiedOther
  <2>3. QED BY <2>1, <2>2
<1>6. ASSUME NEW c \in Charge, NEW amount \in Amount, NEW movement \in Movement,
             \/ BeginCreateCharge(w, c, amount, movement)
             \/ ReadUpdateAmount(w, c, amount, movement)
      PROVE  ReadsJustified(w)
  <2>1. CASE BeginCreateCharge(w, c, amount, movement)
    <3>1. Justified([op |-> "createCharge", charge |-> c, amount |-> amount,
                     movement |-> movement])
      BY <2>1 DEF BeginCreateCharge, Justified, JustifiedPayment,
                  JustifiedCharge, JustifiedOther
    <3>2. QED BY <2>1, <3>1 DEF BeginCreateCharge
  <2>2. CASE ReadUpdateAmount(w, c, amount, movement)
    <3>1. Justified([op |-> "updateAmount", charge |-> c, amount |-> amount,
                     movement |-> movement, checked |-> FALSE])
      BY <2>2 DEF ReadUpdateAmount, Justified, JustifiedPayment,
                  JustifiedCharge, JustifiedOther
    <3>2. QED BY <2>2, <3>1 DEF ReadUpdateAmount
  <2>3. QED BY <1>6, <2>1, <2>2
<1>7. ASSUME NEW c \in Charge, NEW movement \in Movement,
             ReadUpdateMovement(w, c, movement)
      PROVE  ReadsJustified(w)
  <2>1. Justified([op |-> "updateMovement", charge |-> c, movement |-> movement,
                   checked |-> FALSE])
    BY <1>7 DEF ReadUpdateMovement, Justified, JustifiedPayment,
                JustifiedCharge, JustifiedOther
  <2>2. QED BY <1>7, <2>1 DEF ReadUpdateMovement
<1>8. ASSUME NEW c \in Charge, ReadCancelCharge(w, c) PROVE ReadsJustified(w)
  <2>1. Justified([op |-> "cancelCharge", charge |-> c, checked |-> FALSE])
    BY <1>8 DEF ReadCancelCharge, Justified, JustifiedPayment,
                JustifiedCharge, JustifiedOther
  <2>2. QED BY <1>8, <2>1 DEF ReadCancelCharge
<1>9. ASSUME NEW b \in Period, BeginClosePeriod(w, b) \/ BeginReopenPeriod(w, b)
      PROVE  ReadsJustified(w)
  BY <1>9 DEF BeginClosePeriod, BeginReopenPeriod, Justified, JustifiedPayment,
              JustifiedCharge, JustifiedOther
<1>10. ASSUME NEW b \in BankTx, BeginSuggest(w, b) \/ BeginIgnore(w, b)
       PROVE  ReadsJustified(w)
  BY <1>10 DEF BeginSuggest, BeginIgnore, Justified, JustifiedPayment,
               JustifiedCharge, JustifiedOther
<1>11. ASSUME NEW b \in BankTx, NEW p \in Payment, BeginMatch(w, b, p)
       PROVE  ReadsJustified(w)
  BY <1>11 DEF BeginMatch, Justified, JustifiedPayment, JustifiedCharge,
               JustifiedOther
<1>12. ASSUME NEW b \in BankTx, BeginReverseBank(w, b) PROVE ReadsJustified(w)
  BY <1>12 DEF BeginReverseBank, Justified, JustifiedPayment, JustifiedCharge,
               JustifiedOther
<1> HIDE DEF ReadsJustified, Begin
<1>13. QED
  BY <1>1, <1>2, <1>3, <1>4, <1>5, <1>6, <1>7, <1>8, <1>9, <1>10, <1>11, <1>12,
     Zenon DEF BeginStep

LEMMA OtherJustified ==
  ASSUME ConcurrentTypeOK, NEW w \in Worker,
         flight[w].op \notin ReadEarly => Justified(flight[w]),
         BeginPlanned(w) \/ CheckPeriod(w) \/ Abandon(w)
  PROVE  ReadsJustified(w)
<1> DEFINE r == flight[w]
<1>1. (r.op \notin ReadEarly => Justified(r)) /\ RequestOK(r)
  BY DEF ConcurrentTypeOK
<1>2. CASE BeginPlanned(w)
  <2>1. /\ r.op = "plan" /\ ApplyOK(r.payment, r.apps) /\ UNCHANGED vars
        /\ flight' = [flight EXCEPT ![w] = ApplyRequest(r.payment, r.apps)]
    BY <1>2 DEF BeginPlanned
  <2>2. PlannedBy(r)
    BY <1>1, <2>1 DEF ReadEarly, Justified, JustifiedPayment
  <2> HIDE DEF r
  <2>3. Justified(ApplyRequest(r.payment, r.apps))
    BY <2>1, <2>2
    DEF ApplyRequest, PlannedBy, Justified, JustifiedPayment, JustifiedCharge,
        JustifiedOther
  <2>4. QED BY <2>1, <2>3 DEF ReadsJustified
<1>3. CASE CheckPeriod(w)
  <2>1. /\ r.op \in {"updateAmount", "updateMovement", "cancelCharge"}
        /\ Mutable(r.charge) /\ UNCHANGED vars
        /\ flight' = [flight EXCEPT ![w] = [r EXCEPT !.checked = TRUE]]
    BY <1>3 DEF CheckPeriod, ConcurrentTypeOK
  <2> HIDE DEF r
  <2>2. Justified([r EXCEPT !.checked = TRUE])
    BY <1>1, <2>1
    DEF ReadEarly, RequestOK, Idle, Justified, JustifiedPayment,
        JustifiedCharge, JustifiedOther
  <2>3. QED BY <2>1, <2>2 DEF ReadsJustified
<1>4. CASE Abandon(w)
  BY <1>4 DEF Abandon, ReadsJustified, Idle, Justified, JustifiedPayment,
              JustifiedCharge, JustifiedOther
<1>5. QED BY <1>2, <1>3, <1>4

-----------------------------------------------------------------------------
(* A justified write is a step of the handlers that run alone.             *)

LEMMA PaymentWrites ==
  ASSUME ConcurrentTypeOK, NEW w \in Worker, Justified(flight[w]),
         \/ CommitConfirm(w) \/ CommitCancelPayment(w) \/ CommitApply(w)
         \/ CommitReverse(w)
  PROVE  PaymentNext
<1> DEFINE r == flight[w]
<1>1. Justified(r) /\ RequestOK(r)
  BY DEF ConcurrentTypeOK
<1>2. CASE CommitConfirm(w)
  <2>1. r.payment \in Payment /\ ConfirmPayment(r.payment)
    BY <1>1, <1>2
    DEF CommitConfirm, Finish, RequestOK, Idle, Justified, JustifiedPayment,
        ConfirmPayment
  <2>2. QED BY <2>1 DEF PaymentNext
<1>3. CASE CommitCancelPayment(w)
  <2>1. r.payment \in Payment /\ CancelPayment(r.payment)
    BY <1>1, <1>3
    DEF CommitCancelPayment, Finish, RequestOK, Idle, Justified,
        JustifiedPayment, CancelPayment
  <2>2. QED BY <2>1 DEF PaymentNext
<1>4. CASE CommitApply(w)
  <2>1. r.op = "apply" /\ r.payment \in Payment
    BY <1>1, <1>4 DEF CommitApply, Finish, RequestOK, Idle
  <2>2. /\ WriteApply(r.payment, r.apps, r.left, r.rem) /\ UNCHANGED period
        /\ ApplyOK(r.payment, r.apps)
        /\ r.left = LeftAfter(r.payment, r.apps)
        /\ r.rem = RemainingAfter(r.apps)
        /\ r.apps \in Requests \/ PlannedBy(r)
    BY <1>1, <1>4, <2>1 DEF CommitApply, Justified, JustifiedPayment
  <2> HIDE DEF r
  <2>3. Apply(r.payment, r.apps)
    BY <2>2 DEF Apply
  <2>4. CASE r.apps \in Requests
    BY <2>1, <2>3, <2>4 DEF PaymentNext
  <2>5. CASE PlannedBy(r)
    <3>1. PICK now \in Days : /\ r.apps = AutoPlan(r.payment, now)
                              /\ DOMAIN r.apps # {}
      BY <2>5 DEF PlannedBy
    <3>2. payment[r.payment].status # "PENDING"
      BY <2>2 DEF ApplyOK
    <3>3. AutoApply(r.payment, now)
      BY <2>3, <3>1, <3>2 DEF AutoApply
    <3>4. QED BY <2>1, <3>3 DEF PaymentNext
  <2>6. QED BY <2>2, <2>4, <2>5
<1>5. CASE CommitReverse(w)
  <2>1. /\ r.op = "reverse" /\ r.payment \in Payment /\ r.charge \in Charge
    BY <1>1, <1>5 DEF CommitReverse, Finish, RequestOK, Idle
  <2>2. ReverseApplication(r.payment, r.charge)
    BY <1>1, <1>5, <2>1
    DEF CommitReverse, Justified, JustifiedPayment, ReverseApplication
  <2>3. QED BY <2>1, <2>2 DEF PaymentNext
<1>6. QED BY <1>2, <1>3, <1>4, <1>5

LEMMA ChargeWrites ==
  ASSUME ConcurrentTypeOK, NEW w \in Worker, Justified(flight[w]),
         \/ CommitCreateCharge(w) \/ CommitUpdateAmount(w)
         \/ CommitUpdateMovement(w) \/ CommitCancelCharge(w)
  PROVE  ChargeNext
<1> DEFINE r == flight[w]
<1>1. Justified(r) /\ RequestOK(r)
  BY DEF ConcurrentTypeOK
<1>2. CASE CommitCreateCharge(w)
  <2>1. /\ r.charge \in Charge /\ r.amount \in Amount /\ r.movement \in Movement
        /\ CreateCharge(r.charge, r.amount, r.movement)
    BY <1>1, <1>2
    DEF CommitCreateCharge, Finish, RequestOK, Idle, Justified, JustifiedCharge,
        CreateCharge
  <2>2. QED BY <2>1 DEF ChargeNext
<1>3. CASE CommitUpdateAmount(w)
  <2>1. /\ r.charge \in Charge /\ r.amount \in Amount /\ r.movement \in Movement
        /\ UpdateChargeAmount(r.charge, r.amount, r.movement)
    BY <1>1, <1>3
    DEF CommitUpdateAmount, Finish, RequestOK, Idle, Justified, JustifiedCharge,
        UpdateChargeAmount
  <2>2. QED BY <2>1 DEF ChargeNext
<1>4. CASE CommitUpdateMovement(w)
  <2>1. /\ r.charge \in Charge /\ r.movement \in Movement
        /\ UpdateChargeMovement(r.charge, r.movement)
    BY <1>1, <1>4
    DEF CommitUpdateMovement, Finish, RequestOK, Idle, Justified,
        JustifiedCharge, UpdateChargeMovement
  <2>2. QED BY <2>1 DEF ChargeNext
<1>5. CASE CommitCancelCharge(w)
  <2>1. r.charge \in Charge /\ CancelCharge(r.charge)
    BY <1>1, <1>5
    DEF CommitCancelCharge, Finish, RequestOK, Idle, Justified, JustifiedCharge,
        CancelCharge
  <2>2. QED BY <2>1 DEF ChargeNext
<1>6. QED BY <1>2, <1>3, <1>4, <1>5

LEMMA PeriodWrites ==
  ASSUME ConcurrentTypeOK, NEW w \in Worker, Justified(flight[w]),
         CommitClosePeriod(w) \/ CommitReopenPeriod(w)
  PROVE  PeriodNext
<1> DEFINE r == flight[w]
<1>1. Justified(r) /\ RequestOK(r)
  BY DEF ConcurrentTypeOK
<1>2. /\ r.period \in Period
      /\ ClosePeriod(r.period) \/ ReopenPeriod(r.period)
  BY <1>1
  DEF CommitClosePeriod, CommitReopenPeriod, Finish, RequestOK, Idle, Justified,
      JustifiedOther, ClosePeriod, ReopenPeriod
<1>3. QED BY <1>2 DEF PeriodNext

LEMMA BankWrites ==
  ASSUME ConcurrentTypeOK, NEW w \in Worker, Justified(flight[w]),
         \/ CommitSuggest(w) \/ CommitMatch(w)
         \/ CommitIgnore(w) \/ CommitReverseBank(w)
  PROVE  BankNext
<1> DEFINE r == flight[w]
<1>1. Justified(r) /\ RequestOK(r)
  BY DEF ConcurrentTypeOK
<1>2. CASE CommitSuggest(w) \/ CommitIgnore(w)
  <2>1. r.bank \in BankTx /\ (SuggestMatch(r.bank) \/ Ignore(r.bank))
    BY <1>1, <1>2
    DEF CommitSuggest, CommitIgnore, Finish, RequestOK, Idle, Justified,
        JustifiedOther, SuggestMatch, Ignore
  <2>2. QED BY <2>1 DEF BankNext
<1>3. CASE CommitMatch(w)
  <2>1. r.bank \in BankTx /\ r.payment \in Payment /\ Match(r.bank, r.payment)
    BY <1>1, <1>3
    DEF CommitMatch, Finish, RequestOK, Idle, Justified, JustifiedOther, Match
  <2>2. QED BY <2>1 DEF BankNext
<1>4. CASE CommitReverseBank(w)
  <2>1. r.bank \in BankTx /\ ReverseBank(r.bank)
    BY <1>1, <1>4
    DEF CommitReverseBank, Finish, RequestOK, Idle, Justified, JustifiedOther,
        ReverseBank
  <2>2. QED BY <2>1 DEF BankNext
<1>5. QED BY <1>2, <1>3, <1>4

LEMMA WritesAlone ==
  ASSUME ConcurrentTypeOK, NEW w \in Worker, Justified(flight[w]),
         CommitStep(w) \/ AtomicStep(w)
  PROVE  BankLedgerNext
<1>1. CASE CommitStep(w)
  BY <1>1, PaymentWrites, ChargeWrites, PeriodWrites, BankWrites, Zenon
  DEF CommitStep, BankLedgerNext, Next
<1>2. CASE AtomicStep(w)
  BY <1>2 DEF AtomicStep, BankLedgerNext, Next, PaymentNext, PeriodNext
<1>3. QED BY <1>1, <1>2

-----------------------------------------------------------------------------
LEMMA IdleJustified ==
  ASSUME NEW r, r = Idle
  PROVE  Justified(r)'
BY DEF Idle, Justified, JustifiedPayment, JustifiedCharge, JustifiedOther

(* Nobody else writes while the only request is in flight.                 *)
LEMMA NextJustified ==
  ASSUME \A v, w \in Worker : v = w, ConcurrentTypeOK, FlightJustified,
         [ConcurrentNext]_cvars
  PROVE  FlightJustified' /\ [BankLedgerNext]_vars
<1>1. CASE UNCHANGED cvars
  BY <1>1, StillJustified DEF cvars, vars, FlightJustified
<1>2. ASSUME NEW w \in Worker, ReadsJustified(w)
      PROVE  FlightJustified' /\ [BankLedgerNext]_vars
  BY <1>2, StillJustified DEF ReadsJustified, FlightJustified, ConcurrentTypeOK
<1>3. ASSUME NEW w \in Worker, CommitStep(w) \/ AtomicStep(w)
      PROVE  FlightJustified' /\ [BankLedgerNext]_vars
  <2>1. flight'[w] = Idle
    <3>1. CASE CommitStep(w)
      <4>1. Frees(w)
        BY <3>1, Commits
      <4>2. QED BY <4>1 DEF Frees, ConcurrentTypeOK
    <3>2. CASE AtomicStep(w)
      BY <3>2 DEF AtomicStep
    <3>3. QED BY <1>3, <3>1, <3>2
  <2>2. FlightJustified'
    BY <2>1, IdleJustified DEF FlightJustified
  <2>3. Justified(flight[w])
    BY DEF FlightJustified
  <2>4. QED BY <1>3, <2>2, <2>3, WritesAlone
<1>4. ASSUME NEW w \in Worker, BeginPlanned(w) \/ CheckPeriod(w) \/ Abandon(w)
      PROVE  ReadsJustified(w)
  <2>1. Justified(flight[w])
    BY DEF FlightJustified
  <2>2. QED BY <1>4, <2>1, OtherJustified
<1>5. QED BY <1>1, <1>2, <1>3, <1>4, BeginJustified DEF ConcurrentNext

(* With one request in flight at a time, the handlers as they run against  *)
(* the database, reads first and writes later, do only what the one-step   *)
(* handlers do, so all that is proved of those holds of them.              *)
THEOREM OneWorkerAlone ==
  ASSUME \A v, w \in Worker : v = w
  PROVE  ConcurrentSpec => RunsOneAtATime
<1>1. ConcurrentInit => Init /\ FlightJustified
  BY IdleJustified
  DEF ConcurrentInit, FlightJustified, Idle, Justified, JustifiedPayment,
      JustifiedCharge, JustifiedOther
<1>2. ConcurrentTypeOK /\ FlightJustified /\ [ConcurrentNext]_cvars
        => FlightJustified' /\ [BankLedgerNext]_vars
  BY NextJustified
<1>3. QED
  BY <1>1, <1>2, ConcurrentTypeCorrect, PTL
  DEF ConcurrentSpec, RunsOneAtATime, BankLedgerSpec

-----------------------------------------------------------------------------
(* Requests on different units                                             *)
(*                                                                         *)
(* A payment may still be registered and a period cancelled while another  *)
(* request is in flight, so a period is closed or reopened, and a bank     *)
(* movement reversed, from reads that are no longer true.  The serial      *)
(* ledger has no such steps: the reversal may miss payments linked to the  *)
(* movement since, and a period be closed that has been cancelled.  No     *)
(* money is lost by either, and all other requests write as if alone.      *)

EarlyPeriod ==
  /\ \E b \in Period, status \in {"OPEN", "CLOSED"} : WritePeriod(b, status)
  /\ UNCHANGED <<payment, charge, app, bank>>

EarlyReversal ==
  /\ \E b \in BankTx : \E payments \in SUBSET LivePayments(b) :
       /\ \A p \in payments : PaidBy(p) = {}
       /\ WriteReverseBank(b, payments)
  /\ UNCHANGED <<charge, app, period>>

EarlyLedgerNext == BankLedgerNext \/ EarlyPeriod \/ EarlyReversal

EarlyLedgerSpec == Init /\ [][EarlyLedgerNext]_vars

LEMMA EarlyReversalSettled ==
  ASSUME Settled, EarlyReversal
  PROVE  Settled'
<1>1. PICK b \in BankTx, payments \in SUBSET Payment :
        /\ \A p \in payments : PaidBy(p) = {}
        /\ WriteReverseBank(b, payments)
  BY DEF EarlyReversal, LivePayments, Linked
<1>2. UNCHANGED <<charge, app, period>>
  BY DEF EarlyReversal
<1>3. TypeOK'
  BY <1>1, <1>2, ReverseBankType DEF Settled, TypeOK
<1>4. ASSUME NEW q \in Payment, q \in payments
      PROVE  NothingApplied(q)
  <2>1. payment[q] \in PaymentRow
    BY DEF Settled, TypeOK
  <2>2. payment'[q] = [payment[q] EXCEPT !.status = "REVERSED"]
    BY <1>1, <1>4 DEF WriteReverseBank
  <2>3. PaidBy(q) = {} /\ payment[q].unapplied = payment[q].amount
    BY <1>1, <1>4, UnusedHasAll DEF Settled, MoneyInv
  <2>4. QED BY <2>1, <2>2, <2>3 DEF PaymentRow, NothingApplied
<1>5. \A q \in Payment : payment'[q] = payment[q] \/ NothingApplied(q)
  BY <1>1, <1>4 DEF WriteReverseBank
<1>6. MoneyInv'
  BY <1>2, <1>3, <1>5, QuietRows DEF Settled, QuietCharge
<1>7. RetiredRowsUnused'
  <2>1. \A q \in Payment : payment'[q] = payment[q] \/ PaidBy(q) = {}
    BY <1>5 DEF NothingApplied
  <2>2. \A q \in Payment : PaidBy(q)' = PaidBy(q)
    BY <1>2 DEF PaidBy, Active
  <2>3. \A c \in Charge : Payers(c)' = Payers(c)
    BY <1>2 DEF Payers, Active
  <2>4. QED BY <1>2, <2>1, <2>2, <2>3 DEF Settled, RetiredRowsUnused
<1>8. SameUnit'
  BY <1>2 DEF Settled, SameUnit, Active
<1>9. QED BY <1>3, <1>6, <1>7, <1>8 DEF Settled

LEMMA EarlyPeriodSettled ==
  ASSUME Settled, EarlyPeriod
  PROVE  Settled'
<1>1. UNCHANGED <<payment, charge, app, bank>>
  BY DEF EarlyPeriod
<1>2. TypeOK'
  BY <1>1 DEF EarlyPeriod, WritePeriod, PeriodStatus, Settled, TypeOK
<1>3. MoneyInv'
  BY <1>1, <1>2, QuietRows DEF Settled, QuietCharge
<1>4. RetiredRowsUnused'
  BY <1>1, UnusedPairs, UnusedPairsAfter DEF Settled, UnusedPair, Active
<1>5. QED BY <1>1, <1>2, <1>3, <1>4 DEF Settled, SameUnit, Active

LEMMA EarlySettled == Settled /\ [EarlyLedgerNext]_vars => Settled'
<1>1. Settled /\ [BankLedgerNext]_vars => Settled'
  BY NextTypeOK, NextMoney, NextUnused, SameUnitStep DEF Settled
<1>2. QED BY <1>1, EarlyPeriodSettled, EarlyReversalSettled DEF EarlyLedgerNext

LEMMA InitSettled == Init => Settled
<1>1. Init => RetiredRowsUnused /\ SameUnit
  BY DEF Init, NoAppRow, RetiredRowsUnused, PaidBy, Payers, SameUnit, Active
<1>2. QED BY <1>1, InitTypeOK, InitMoney DEF Settled

LEMMA EarlyKeeps ==
  ASSUME Settled, [EarlyLedgerNext]_vars
  PROVE  [KeepsClosed]_vars /\ [KeepsCancelled]_vars
<1>1. CASE [BankLedgerNext]_vars
  BY <1>1, NextKeepsClosed, NextKeepsCancelled DEF Settled
<1>2. CASE EarlyPeriod
  BY <1>2 DEF EarlyPeriod, KeepsClosed, KeepsCancelled
<1>3. CASE EarlyReversal
  BY <1>3
  DEF EarlyReversal, WriteReverseBank, LivePayments, KeepsClosed, KeepsCancelled
<1>4. QED BY <1>1, <1>2, <1>3 DEF EarlyLedgerNext

LEMMA EarlyBacked ==
  ASSUME TypeOK, AbsentUnlinked, MatchedUnitBacked, [EarlyLedgerNext]_vars
  PROVE  AbsentUnlinked' /\ MatchedUnitBacked'
<1>1. CASE [BankLedgerNext]_vars
  BY <1>1, NextBacked
<1>2. CASE EarlyPeriod
  BY <1>2, BackingKept DEF EarlyPeriod, KeepsBacking, KeepsPayment, StaysAbsent
<1>3. CASE EarlyReversal
  <2>1. PICK b \in BankTx, payments \in SUBSET Payment :
          /\ payments \subseteq LivePayments(b)
          /\ WriteReverseBank(b, payments)
    BY <1>3 DEF EarlyReversal, LivePayments, Linked
  <2>2. /\ bank'[b].unit = None
        /\ \A d \in BankTx \ {b} : bank'[d] = bank[d]
    BY <2>1 DEF WriteReverseBank, TypeOK, BankRow
  <2>3. \A p \in Payment : payment[p].bankTx # b => payment'[p] = payment[p]
    BY <2>1 DEF WriteReverseBank, LivePayments, Linked
  <2>4. \A p \in Payment : StaysAbsent(p)
    BY <2>1 DEF WriteReverseBank, TypeOK, PaymentRow, StaysAbsent
  <2>5. QED BY <2>2, <2>3, <2>4, BackingKept DEF KeepsBacking, KeepsPayment
<1>4. QED BY <1>1, <1>2, <1>3 DEF EarlyLedgerNext

-----------------------------------------------------------------------------
(* What nobody else's write touches of a unit.                             *)
UnitKept(u) ==
  /\ \A p \in Payment :
       /\ PaymentUnit[p] = u
       /\ payment[p].status # "ABSENT"
       => payment'[p] = payment[p] /\ app'[p] = app[p]
  /\ \A c \in Charge :
       ChargeUnit[c] = u => /\ charge'[c] = charge[c]
                            /\ \A q \in Payment : app'[q][c] = app[q][c]
  /\ \A c \in Charge : Mutable(c) => Mutable(c)'

LEMMA KeptReads ==
  ASSUME NEW u, UnitKept(u)
  PROVE  /\ \A c \in Charge : ChargeUnit[c] = u =>
              Payers(c)' = Payers(c) /\ Remaining(c)' = Remaining(c)
         /\ \A p \in Payment :
              PaymentUnit[p] = u /\ payment[p].status # "ABSENT" =>
                /\ PaidBy(p)' = PaidBy(p)
                /\ \A now : AutoPlan(p, now)' = AutoPlan(p, now)
<1>1. ASSUME NEW c \in Charge, ChargeUnit[c] = u
      PROVE  Payers(c)' = Payers(c) /\ Remaining(c)' = Remaining(c)
  <2>1. \A q \in Payment : app'[q][c] = app[q][c]
    BY <1>1 DEF UnitKept
  <2>2. AppliedTo(c)' = AppliedTo(c) /\ Payers(c)' = Payers(c)
    BY <2>1, SamePayers
  <2>3. QED BY <1>1, <2>2 DEF UnitKept, Remaining
<1>2. ASSUME NEW p \in Payment, PaymentUnit[p] = u, payment[p].status # "ABSENT"
      PROVE  /\ PaidBy(p)' = PaidBy(p)
             /\ \A now : AutoPlan(p, now)' = AutoPlan(p, now)
  <2>1. payment'[p] = payment[p] /\ app'[p] = app[p]
    BY <1>2 DEF UnitKept
  <2>2. PayableDebits(p)' = PayableDebits(p)
    BY <1>2 DEF UnitKept, PayableDebits
  <2>3. \A c \in PayableDebits(p) : Remaining(c)' = Remaining(c)
    BY <1>1, <1>2 DEF PayableDebits
  <2>4. [c \in PayableDebits(p) |-> Remaining(c)]'
          = [c \in PayableDebits(p) |-> Remaining(c)]
    BY <2>2, <2>3
  <2>5. QED BY <2>1, <2>4 DEF PaidBy, Active, AutoPlan
<1>3. QED BY <1>1, <1>2

(* Who writes what: a request touches the rows of its own units.           *)
LEMMA PaymentTouches ==
  ASSUME Settled, ConcurrentTypeOK, NEW w \in Worker, Justified(flight[w]),
         NEW u, u \notin Scope(flight[w]),
         \/ CommitConfirm(w) \/ CommitCancelPayment(w) \/ CommitApply(w)
         \/ CommitReverse(w)
  PROVE  UnitKept(u)
<1> DEFINE r == flight[w]
<1>1. Justified(r) /\ RequestOK(r)
  BY DEF ConcurrentTypeOK
<1>2. /\ r.op \in {"confirm", "cancelPayment", "apply", "reverse"}
      /\ r.payment \in Payment /\ period' = period
  BY <1>1
  DEF CommitConfirm, CommitCancelPayment, CommitApply, CommitReverse, Finish,
      RequestOK, Idle
<1>3. PaymentUnit[r.payment] # u
  BY <1>2 DEF Scope
<1>4. \A c \in Charge : Mutable(c) => Mutable(c)'
  BY <1>2 DEF Mutable, Closed
<1>5. CASE CommitConfirm(w) \/ CommitCancelPayment(w)
  BY <1>2, <1>3, <1>4, <1>5
  DEF CommitConfirm, CommitCancelPayment, WritePaymentStatus, UnitKept,
      ConcurrentTypeOK, TypeOK
<1>6. CASE CommitApply(w)
  <2>1. /\ WriteApply(r.payment, r.apps, r.left, r.rem)
        /\ ApplyOK(r.payment, r.apps)
    BY <1>1, <1>6 DEF CommitApply, Finish, Justified, JustifiedPayment
  <2>2. \A c \in DOMAIN r.apps : ChargeUnit[c] # u
    BY <1>3, <2>1 DEF ApplyOK, ItemOK
  <2> HIDE DEF r
  <2>3. QED
    BY <1>2, <1>3, <1>4, <2>1, <2>2
    DEF WriteApply, UnitKept, ConcurrentTypeOK, TypeOK
<1>7. CASE CommitReverse(w)
  <2>1. /\ WriteReverse(r.payment, r.charge, r.left, r.amount, r.status)
        /\ Active(r.payment, r.charge) /\ r.charge \in Charge
    BY <1>1, <1>7
    DEF CommitReverse, Finish, Justified, JustifiedPayment, ReverseOK, RequestOK,
        Idle
  <2>2. ChargeUnit[r.charge] # u
    BY <1>2, <1>3, <2>1 DEF Settled, SameUnit
  <2> HIDE DEF r
  <2>3. QED
    BY <1>2, <1>3, <1>4, <2>1, <2>2
    DEF WriteReverse, UnitKept, ConcurrentTypeOK, TypeOK
<1>8. QED BY <1>5, <1>6, <1>7

LEMMA ChargeTouches ==
  ASSUME ConcurrentTypeOK, NEW w \in Worker, NEW u, u \notin Scope(flight[w]),
         \/ CommitCreateCharge(w) \/ CommitUpdateAmount(w)
         \/ CommitUpdateMovement(w) \/ CommitCancelCharge(w)
  PROVE  UnitKept(u)
<1> DEFINE r == flight[w]
<1>1. /\ r.op \in {"createCharge", "updateAmount", "updateMovement", "cancelCharge"}
      /\ UNCHANGED <<payment, app, period, bank>>
  BY DEF CommitCreateCharge, CommitUpdateAmount, CommitUpdateMovement,
         CommitCancelCharge, Finish
<1>2. ChargeUnit[r.charge] # u
  BY <1>1 DEF Scope
<1>3. \A c \in Charge \ {r.charge} : charge'[c] = charge[c]
  BY DEF CommitCreateCharge, CommitUpdateAmount, CommitUpdateMovement,
         CommitCancelCharge, WriteNewCharge, WriteChargeAmount,
         WriteChargeMovement, WriteChargeCancelled, ConcurrentTypeOK, TypeOK
<1>4. \A c \in Charge : Mutable(c) => Mutable(c)'
  BY <1>1 DEF Mutable, Closed
<1> HIDE DEF r
<1>5. QED BY <1>1, <1>2, <1>3, <1>4 DEF UnitKept

LEMMA AtomicTouches ==
  ASSUME TypeOK, NEW w, AtomicStep(w), NEW u
  PROVE  UnitKept(u) /\ UNCHANGED <<charge, app, bank>>
<1>1. ASSUME NEW p \in Payment, NEW amount \in Amount,
             NEW b \in BankTx \cup {None}, CreatePayment(p, amount, b)
      PROVE  UnitKept(u) /\ UNCHANGED <<charge, app, bank>>
  <2>1. \A q \in Payment : payment[q].status # "ABSENT" => payment'[q] = payment[q]
    BY <1>1 DEF CreatePayment, CreatePaymentOK, WriteNewPayment, TypeOK
  <2>2. UNCHANGED <<charge, app, period, bank>>
    BY <1>1 DEF CreatePayment
  <2>3. QED BY <2>1, <2>2 DEF UnitKept, Mutable, Closed
<1>2. ASSUME NEW b \in Period, RemovePeriod(b)
      PROVE  UnitKept(u) /\ UNCHANGED <<charge, app, bank>>
  <2>1. \A c \in Charge : Mutable(c) => Mutable(c)'
    BY <1>2 DEF RemovePeriod, WritePeriod, Mutable, Closed, TypeOK
  <2>2. QED BY <1>2, <2>1 DEF RemovePeriod, UnitKept
<1>3. QED BY <1>1, <1>2 DEF AtomicStep

-----------------------------------------------------------------------------
(* The invariant: a request in flight is justified by the rows as they are *)
(* now, as far as its write depends on it.                                 *)
Held(r) ==
  /\ r.op \notin ReadEarly => Justified(r)
  /\ r.op = "reverseBank" => /\ r.payments \subseteq LivePayments(r.bank)
                             /\ \A p \in r.payments : PaidBy(p) = {}

FlightHeld == \A w \in Worker : \A r : flight[w] = r => Held(r)

PaymentOps == {"confirm", "cancelPayment", "plan", "apply", "reverse"}
ChargeOps  == {"createCharge", "updateAmount", "updateMovement", "cancelCharge"}
SharedOps  == {"closePeriod", "reopenPeriod", "suggest", "match", "ignore",
               "reverseBank"}

LEMMA Scopes ==
  ASSUME NEW r, RequestOK(r)
  PROVE  \/ r = Idle /\ Scope(r) = {}
         \/ /\ r.op \in PaymentOps /\ r.payment \in Payment
            /\ Scope(r) = {PaymentUnit[r.payment]}
         \/ /\ r.op \in ChargeOps /\ r.charge \in Charge
            /\ Scope(r) = {ChargeUnit[r.charge]}
         \/ r.op \in SharedOps /\ Scope(r) = Unit
BY DEF RequestOK, Idle, Scope, PaymentOps, ChargeOps, SharedOps

LEMMA JustifiedHeld ==
  ASSUME NEW r, Justified(r)
  PROVE  Held(r)
BY DEF Held, Justified, JustifiedOther, ReverseBankOK

LEMMA IdleHeld ==
  ASSUME NEW r, r = Idle
  PROVE  Held(r) /\ Held(r)'
BY DEF Held, Idle, ReadEarly, Justified, JustifiedPayment, JustifiedCharge,
       JustifiedOther

(* What a request knows of a payment stays true while its unit is kept.    *)
LEMMA PaymentHeld ==
  ASSUME Settled, NEW r, RequestOK(r), r.op \in PaymentOps, r.payment \in Payment, Justified(r),
         UnitKept(PaymentUnit[r.payment])
  PROVE  Justified(r)'
<1> DEFINE p == r.payment
           u == PaymentUnit[p]
<1>1. payment[p].status # "ABSENT"
  <2>1. r.op # "reverse" => payment[p].status # "ABSENT"
    BY DEF PaymentOps, Justified, JustifiedPayment, ConfirmOK, CancelPaymentOK,
           ApplyOK
  <2>2. r.op = "reverse" => PaidBy(p) # {}
    BY DEF RequestOK, Idle, Justified, JustifiedPayment, ReverseOK, PaidBy
  <2>3. QED BY <2>1, <2>2 DEF Settled, RetiredRowsUnused
<1>2. /\ payment'[p] = payment[p] /\ app'[p] = app[p]
      /\ PaidBy(p)' = PaidBy(p)
      /\ \A now : AutoPlan(p, now)' = AutoPlan(p, now)
  BY <1>1, KeptReads DEF UnitKept
<1>3. \A c \in Charge : ChargeUnit[c] = u =>
        /\ charge'[c] = charge[c] /\ Remaining(c)' = Remaining(c)
        /\ Mutable(c) => Mutable(c)'
  BY KeptReads DEF UnitKept
<1>4. r.op = "plan" => PlannedBy(r)' /\ payment'[p].status # "ABSENT"
  BY <1>1, <1>2 DEF Justified, JustifiedPayment, PlannedBy
<1>5. ASSUME r.op = "apply"
      PROVE  /\ ApplyOK(p, r.apps)'
             /\ r.left = LeftAfter(p, r.apps)'
             /\ r.rem = RemainingAfter(r.apps)'
             /\ r.apps \in Requests \/ PlannedBy(r)'
  <2>1. /\ ApplyOK(p, r.apps)
        /\ r.left = LeftAfter(p, r.apps)
        /\ r.rem = RemainingAfter(r.apps)
        /\ r.apps \in Requests \/ PlannedBy(r)
    BY <1>5 DEF Justified, JustifiedPayment
  <2>2. r.apps \in Requests \/ PlannedBy(r)'
    BY <1>2, <2>1 DEF PlannedBy
  <2>3. \A c \in DOMAIN r.apps : c \in Charge
    BY <2>1 DEF Requests, PlannedBy, AutoPlan, Plan, PayableDebits
  <2>4. \A c \in DOMAIN r.apps :
          /\ ChargeUnit[c] = u /\ c \in Charge
          /\ charge'[c] = charge[c] /\ Remaining(c)' = Remaining(c)
          /\ Mutable(c)'
    BY <1>3, <2>1, <2>3 DEF ApplyOK, ItemOK
  <2>5. ApplyOK(p, r.apps)' /\ LeftAfter(p, r.apps)' = LeftAfter(p, r.apps)
    BY <1>2, <2>1, <2>4 DEF ApplyOK, ItemOK, LeftAfter, Active
  <2>6. RemainingAfter(r.apps)' = RemainingAfter(r.apps)
    BY <2>4 DEF RemainingAfter
  <2>7. QED BY <2>1, <2>2, <2>5, <2>6
<1>6. ASSUME r.op = "reverse"
      PROVE  /\ ReverseOK(p, r.charge)'
             /\ r.left = payment'[p].unapplied + app'[p][r.charge].amount
             /\ r.amount = payment'[p].amount
             /\ r.status = RestoredStatus(r.charge, Remaining(r.charge)
                                             + app[p][r.charge].amount)'
  <2>1. r.charge \in Charge /\ Active(p, r.charge) /\ Mutable(r.charge)
    BY <1>6 DEF RequestOK, Idle, Justified, JustifiedPayment, ReverseOK
  <2>2. /\ charge'[r.charge] = charge[r.charge]
        /\ Remaining(r.charge)' = Remaining(r.charge) /\ Mutable(r.charge)'
    BY <1>3, <2>1 DEF Settled, SameUnit
  <2>3. QED
    BY <1>2, <1>6, <2>1, <2>2
    DEF Justified, JustifiedPayment, ReverseOK, Active, RestoredStatus
<1>7. /\ r.op = "confirm" => ConfirmOK(p)'
      /\ r.op = "cancelPayment" => CancelPaymentOK(p)'
  BY <1>2 DEF Justified, JustifiedPayment, ConfirmOK, CancelPaymentOK
<1>8. JustifiedPayment(r)'
  BY <1>4, <1>5, <1>6, <1>7 DEF JustifiedPayment
<1>9. QED
  BY <1>8 DEF PaymentOps, Justified, JustifiedCharge, JustifiedOther

(* So does what a request knows of a charge.                               *)
LEMMA ChargeHeld ==
  ASSUME NEW r, r.op \in ChargeOps, r.charge \in Charge, Justified(r),
         UnitKept(ChargeUnit[r.charge])
  PROVE  Justified(r)'
<1>1. /\ charge'[r.charge] = charge[r.charge]
      /\ Payers(r.charge)' = Payers(r.charge)
      /\ Mutable(r.charge) => Mutable(r.charge)'
  BY KeptReads DEF UnitKept
<1>2. JustifiedCharge(r)'
  BY <1>1
  DEF Justified, JustifiedCharge, CreateChargeOK, UpdateAmountOK,
      UpdateMovementOK, CancelChargeOK
<1>3. QED
  BY <1>2 DEF ChargeOps, Justified, JustifiedPayment, JustifiedOther

(* Only one-step requests run beside one on a movement or a period.        *)
LEMMA SharedHeld ==
  ASSUME TypeOK, NEW r, r.op \in SharedOps, Held(r), NEW v, AtomicStep(v)
  PROVE  Held(r)'
<1>1. UNCHANGED <<charge, app, bank>> /\ \A u : UnitKept(u)
  BY AtomicTouches
<1>2. r.op \notin ReadEarly => Justified(r)'
  BY <1>1
  DEF SharedOps, ReadEarly, Held, Justified, JustifiedPayment, JustifiedCharge,
      JustifiedOther, SuggestOK, MatchOK, IgnoreOK
<1>3. ASSUME r.op = "reverseBank"
      PROVE  /\ r.payments \subseteq LivePayments(r.bank)'
             /\ \A p \in r.payments : PaidBy(p)' = {}
  <2>1. /\ r.payments \subseteq LivePayments(r.bank)
        /\ \A p \in r.payments : PaidBy(p) = {}
    BY <1>3 DEF Held
  <2>2. \A p \in r.payments : p \in Payment /\ payment'[p] = payment[p]
    BY <1>1, <2>1 DEF LivePayments, Linked, UnitKept
  <2>3. QED BY <1>1, <2>1, <2>2 DEF LivePayments, Linked, PaidBy, Active
<1>4. QED BY <1>2, <1>3 DEF Held

LEMMA OthersHeld ==
  ASSUME Settled, ConcurrentTypeOK, UnitsApart, FlightHeld, Unit # {},
         NEW v \in Worker, NEW w \in Worker, v # w,
         CommitStep(v) \/ AtomicStep(v)
  PROVE  \A r : r = flight[w] => Held(r)'
<1>1. SUFFICES ASSUME NEW r, r = flight[w] PROVE Held(r)'
  OBVIOUS
<1>2. Held(r) /\ RequestOK(r) /\ Scope(flight[v]) \cap Scope(r) = {}
  BY <1>1 DEF FlightHeld, ConcurrentTypeOK, UnitsApart
<1>3. Held(flight[v]) /\ RequestOK(flight[v])
  BY DEF FlightHeld, ConcurrentTypeOK
<1>4. ASSUME NEW u \in Unit, u \notin Scope(flight[v]) PROVE UnitKept(u)
  <2>1. CASE AtomicStep(v)
    BY <2>1, AtomicTouches DEF Settled
  <2>2. CASE \/ CommitConfirm(v) \/ CommitCancelPayment(v) \/ CommitApply(v)
             \/ CommitReverse(v)
    <3>1. flight[v].op \notin ReadEarly
      BY <2>2 DEF CommitConfirm, CommitCancelPayment, CommitApply, CommitReverse,
                  Finish, ReadEarly
    <3>2. QED BY <1>3, <1>4, <2>2, <3>1, PaymentTouches DEF Held
  <2>3. CASE \/ CommitCreateCharge(v) \/ CommitUpdateAmount(v)
             \/ CommitUpdateMovement(v) \/ CommitCancelCharge(v)
    BY <1>4, <2>3, ChargeTouches
  <2>4. CASE \/ CommitClosePeriod(v) \/ CommitReopenPeriod(v) \/ CommitSuggest(v)
             \/ CommitMatch(v) \/ CommitIgnore(v) \/ CommitReverseBank(v)
    BY <1>4, <2>4
    DEF CommitClosePeriod, CommitReopenPeriod, CommitSuggest, CommitMatch,
        CommitIgnore, CommitReverseBank, Finish, Scope
  <2>5. QED BY <2>1, <2>2, <2>3, <2>4, Zenon DEF CommitStep
<1>5. CASE r = Idle
  BY <1>5, IdleHeld
<1>6. CASE r.op \in PaymentOps /\ r.payment \in Payment
           /\ Scope(r) = {PaymentUnit[r.payment]}
  <2>1. UnitKept(PaymentUnit[r.payment])
    BY <1>2, <1>4, <1>6, ConstantsAssumption
  <2>2. Justified(r)
    BY <1>2, <1>6 DEF Held, PaymentOps, ReadEarly
  <2>3. QED BY <1>2, <1>6, <2>1, <2>2, PaymentHeld DEF Held, PaymentOps
<1>7. CASE r.op \in ChargeOps /\ r.charge \in Charge
           /\ Scope(r) = {ChargeUnit[r.charge]}
  <2>1. UnitKept(ChargeUnit[r.charge])
    BY <1>2, <1>4, <1>7, ConstantsAssumption
  <2>2. Justified(r)
    BY <1>2, <1>7 DEF Held, ChargeOps, ReadEarly
  <2>3. QED BY <1>7, <2>1, <2>2, ChargeHeld DEF Held, ChargeOps
<1>8. CASE r.op \in SharedOps /\ Scope(r) = Unit
  <2>1. flight[v] = Idle
    BY <1>2, <1>3, <1>8, Scopes, ConstantsAssumption
  <2>2. AtomicStep(v)
    BY <2>1 DEF CommitStep, CommitConfirm, CommitCancelPayment, CommitApply,
       CommitReverse, CommitCreateCharge, CommitUpdateAmount,
       CommitUpdateMovement, CommitCancelCharge, CommitClosePeriod,
       CommitReopenPeriod, CommitSuggest, CommitMatch, CommitIgnore,
       CommitReverseBank, Finish, Idle
  <2>3. QED BY <1>2, <1>8, <2>2, SharedHeld DEF Settled
<1>9. QED BY <1>2, <1>5, <1>6, <1>7, <1>8, Scopes

-----------------------------------------------------------------------------
(* A write of such a request is one of the ledger's, early or not.         *)
LEMMA HeldWrites ==
  ASSUME ConcurrentTypeOK, NEW w \in Worker, Held(flight[w]),
         CommitStep(w) \/ AtomicStep(w)
  PROVE  EarlyLedgerNext
<1>1. RequestOK(flight[w])
  BY DEF ConcurrentTypeOK
<1>2. CASE CommitClosePeriod(w) \/ CommitReopenPeriod(w)
  BY <1>1, <1>2
  DEF CommitClosePeriod, CommitReopenPeriod, Finish, RequestOK, Idle,
      WritePeriod, EarlyPeriod, EarlyLedgerNext
<1>3. CASE CommitReverseBank(w)
  <2>1. /\ flight[w].op = "reverseBank" /\ flight[w].bank \in BankTx
        /\ WriteReverseBank(flight[w].bank, flight[w].payments)
        /\ UNCHANGED <<charge, app, period>>
    BY <1>1, <1>3 DEF CommitReverseBank, Finish, RequestOK, Idle
  <2>2. /\ flight[w].payments \in SUBSET LivePayments(flight[w].bank)
        /\ \A p \in flight[w].payments : PaidBy(p) = {}
    BY <2>1 DEF Held
  <2>3. QED BY <2>1, <2>2 DEF EarlyReversal, EarlyLedgerNext
<1>4. CASE flight[w].op \notin ReadEarly
  BY <1>4, WritesAlone DEF Held, EarlyLedgerNext
<1>5. CASE AtomicStep(w)
  BY <1>5, <1>4 DEF AtomicStep, Idle, ReadEarly
<1>6. QED
  BY <1>2, <1>3, <1>4, <1>5
  DEF CommitStep, CommitConfirm, CommitCancelPayment, CommitApply, CommitReverse,
      CommitCreateCharge, CommitUpdateAmount, CommitUpdateMovement,
      CommitCancelCharge, CommitSuggest, CommitMatch, CommitIgnore, Finish,
      ReadEarly

LEMMA NextHeld ==
  ASSUME Unit # {}, Settled, ConcurrentTypeOK, UnitsApart, FlightHeld,
         [ConcurrentNext]_cvars
  PROVE  FlightHeld' /\ [EarlyLedgerNext]_vars
<1>1. ASSUME UNCHANGED vars, NEW r, Held(r) PROVE Held(r)'
  BY <1>1, StillJustified, SameReads DEF Held
<1>2. CASE UNCHANGED cvars
  BY <1>1, <1>2 DEF cvars, vars, FlightHeld
<1>3. ASSUME NEW w \in Worker, ReadsJustified(w)
      PROVE  FlightHeld' /\ [EarlyLedgerNext]_vars
  <2>1. PICK r : Justified(r) /\ flight' = [flight EXCEPT ![w] = r]
    BY <1>3 DEF ReadsJustified
  <2>2. UNCHANGED vars
    BY <1>3 DEF ReadsJustified
  <2>3. ASSUME NEW v \in Worker, NEW s, flight'[v] = s PROVE Held(s)
    <3>1. CASE v = w
      BY <2>1, <2>3, <3>1, JustifiedHeld DEF ConcurrentTypeOK
    <3>2. CASE v # w
      BY <2>1, <2>3, <3>2 DEF ConcurrentTypeOK, FlightHeld
    <3>3. QED BY <3>1, <3>2
  <2>4. FlightHeld'
    BY <1>1, <2>2, <2>3 DEF FlightHeld
  <2>5. QED BY <2>2, <2>4
<1>4. ASSUME NEW w \in Worker, CommitStep(w) \/ AtomicStep(w)
      PROVE  FlightHeld' /\ [EarlyLedgerNext]_vars
  <2>1. flight' = [flight EXCEPT ![w] = Idle]
    <3>1. CASE CommitStep(w)
      BY <3>1, Commits DEF Frees
    <3>2. CASE AtomicStep(w)
      BY <3>2 DEF AtomicStep, ConcurrentTypeOK
    <3>3. QED BY <1>4, <3>1, <3>2
  <2>2. ASSUME NEW v \in Worker, NEW s, flight'[v] = s PROVE Held(s)'
    <3>1. CASE v = w
      <4>1. s = Idle
        BY <2>1, <2>2, <3>1 DEF ConcurrentTypeOK
      <4>2. QED BY <4>1, IdleHeld
    <3>2. CASE v # w
      <4>1. s = flight[v]
        BY <2>1, <2>2, <3>2 DEF ConcurrentTypeOK
      <4>2. QED BY <1>4, <3>2, <4>1, OthersHeld
    <3>3. QED BY <3>1, <3>2
  <2>3. FlightHeld'
    BY <2>2 DEF FlightHeld
  <2>4. Held(flight[w])
    BY DEF FlightHeld
  <2>5. QED BY <1>4, <2>3, <2>4, HeldWrites
<1>5. ASSUME NEW w \in Worker, BeginPlanned(w) \/ CheckPeriod(w) \/ Abandon(w)
      PROVE  ReadsJustified(w)
  <2>1. Held(flight[w])
    BY DEF FlightHeld
  <2>2. QED BY <1>5, <2>1, OtherJustified DEF Held
<1>6. QED BY <1>2, <1>3, <1>4, <1>5, BeginJustified DEF ConcurrentNext

LEMMA ApartIsConcurrent == ApartSpec => ConcurrentSpec
<1>1. [ApartNext]_cvars => [ConcurrentNext]_cvars
  BY DEF ApartNext
<1>2. QED BY <1>1, PTL DEF ApartSpec, ConcurrentSpec

LEMMA ApartKept == ApartSpec => []UnitsApart
<1>1. ConcurrentInit => UnitsApart
  BY DEF ConcurrentInit, UnitsApart, Scope, Idle
<1>2. UnitsApart /\ [ApartNext]_cvars => UnitsApart'
  BY DEF ApartNext, cvars, UnitsApart, Scope
<1>3. QED BY <1>1, <1>2, PTL DEF ApartSpec

LEMMA ApartHolds ==
  ASSUME Unit # {}
  PROVE  ApartSpec => [](Settled /\ FlightHeld)
<1>1. ConcurrentInit => Settled /\ FlightHeld
  <2>1. ConcurrentInit => \A w \in Worker : flight[w] = Idle
    BY DEF ConcurrentInit
  <2>2. QED BY <2>1, InitSettled, IdleHeld DEF ConcurrentInit, FlightHeld
<1>2. /\ ConcurrentTypeOK /\ UnitsApart /\ Settled /\ FlightHeld
      /\ [ApartNext]_cvars
      => Settled' /\ FlightHeld'
  <2>1. [ApartNext]_cvars => [ConcurrentNext]_cvars
    BY DEF ApartNext
  <2>2. QED BY <2>1, NextHeld, EarlySettled
<1>3. QED
  BY <1>1, <1>2, ApartIsConcurrent, ConcurrentTypeCorrect, ApartKept, PTL
  DEF ApartSpec

(* Requests that overlap on different units, with any number of workers    *)
(* and whatever is registered beside them, implement the serial ledger     *)
(* with its two early writes.                                              *)
THEOREM UnitsApartImplement ==
  ASSUME Unit # {}
  PROVE  ApartSpec => EarlyLedgerSpec
<1>1. ConcurrentInit => Init
  BY DEF ConcurrentInit
<1>2. /\ ConcurrentTypeOK /\ UnitsApart /\ Settled /\ FlightHeld
      /\ [ApartNext]_cvars
      => [EarlyLedgerNext]_vars
  <2>1. [ApartNext]_cvars => [ConcurrentNext]_cvars
    BY DEF ApartNext
  <2>2. QED BY <2>1, NextHeld
<1>3. QED
  BY <1>1, <1>2, ApartHolds, ApartIsConcurrent, ConcurrentTypeCorrect,
     ApartKept, PTL
  DEF ApartSpec, EarlyLedgerSpec

LEMMA NoUnitsSettled ==
  ASSUME Unit = {}
  PROVE  Payment = {} /\ Charge = {} /\ (TypeOK => Settled)
<1>1. Payment = {} /\ Charge = {}
  BY ConstantsAssumption
<1>2. QED
  BY <1>1
  DEF Settled, MoneyInv, PositiveApplied, MoneyConserved, NeverOverApplied,
      ChargeStatusDerived, PaymentStatusDerived, RetiredRowsUnused, SameUnit

LEMMA ApartSettled == ApartSpec => []Settled
<1>1. CASE Unit # {}
  BY <1>1, ApartHolds, PTL
<1>2. CASE Unit = {}
  <2>1. ConcurrentTypeOK => Settled
    BY <1>2, NoUnitsSettled DEF ConcurrentTypeOK
  <2>2. QED BY <2>1, ApartIsConcurrent, ConcurrentTypeCorrect, PTL
<1>3. QED BY <1>1, <1>2

(* While no two requests are on one unit no money is lost: payments and    *)
(* charges add up, no charge is paid beyond its amount by any number of    *)
(* workers, and the stored statuses are the ones the applications imply.   *)
THEOREM MoneyApart ==
  ApartSpec => [](/\ MoneyConserved /\ NeverOverApplied
                  /\ ChargeStatusDerived /\ PaymentStatusDerived
                  /\ RetiredRowsUnused)
BY ApartSettled, PTL DEF Settled, MoneyInv

(* The two derivations of a unit's balance agree while requests on         *)
(* different units overlap.                                                *)
THEOREM BalancesApart == ApartSpec => []BalancesAgree
BY ApartSettled, SettledBalances, PTL

(* Nothing of a closed period changes and nothing cancelled comes back     *)
(* while requests on different units overlap, although their periods are   *)
(* checked before they write.                                              *)
THEOREM FrozenApart == ApartSpec => ClosedPeriodFrozen /\ CancelledIsFinal
<1>1. CASE Unit # {}
  <2>1. Settled /\ [EarlyLedgerNext]_vars => [KeepsClosed]_vars /\ [KeepsCancelled]_vars
    BY EarlyKeeps
  <2>2. ApartSpec => EarlyLedgerSpec
    BY <1>1, UnitsApartImplement
  <2>3. QED
    BY <2>1, <2>2, ApartSettled, PTL
    DEF EarlyLedgerSpec, ClosedPeriodFrozen, CancelledIsFinal
<1>2. CASE Unit = {}
  <2>1. KeepsClosed /\ KeepsCancelled
    BY <1>2, NoUnitsSettled DEF KeepsClosed, KeepsCancelled
  <2>2. [KeepsClosed]_vars /\ [KeepsCancelled]_vars
    BY <2>1
  <2>3. QED BY <2>2, PTL DEF ClosedPeriodFrozen, CancelledIsFinal
<1>3. QED BY <1>1, <1>2

(* A bank movement that carries a unit keeps a payment of that unit that   *)
(* was not reversed, although a reversal may miss payments registered      *)
(* after it read the movement's.                                           *)
THEOREM BackedApart == ApartSpec => []MatchedUnitBacked
<1>1. CASE Unit # {}
  <2>1. ApartSpec => EarlyLedgerSpec
    BY <1>1, UnitsApartImplement
  <2>2. Settled => TypeOK
    BY DEF Settled
  <2>3. QED
    BY <2>1, <2>2, InitBacked, EarlyBacked, ApartSettled, PTL DEF EarlyLedgerSpec
<1>2. CASE Unit = {}
  <2>1. Settled => MatchedUnitBacked
    BY <1>2 DEF Settled, TypeOK, BankRow, MatchedUnitBacked
  <2>2. QED BY <2>1, ApartSettled, PTL
<1>3. QED BY <1>1, <1>2
=============================================================================
