---------------------------- MODULE LedgerProofs ----------------------------
(***************************************************************************)
(* What holds of the payment ledger with bank reconciliation for every     *)
(* number of payments, charges, periods, bank movements and amounts.       *)
(*                                                                         *)
(* First the type invariant, write by write: the status sets stay closed   *)
(* to the provers, which need only the memberships of StatusValues.        *)
(***************************************************************************)
EXTENDS BankReconciliation, TLAPS

(* The status constants the handlers write are column values.              *)
LEMMA StatusValues ==
  /\ {"ABSENT", "PENDING", "CONFIRMED", "PARTIALLY_APPLIED", "APPLIED",
      "CANCELLED", "REVERSED"} \subseteq PaymentStatus
  /\ {"ABSENT", "PENDING", "PARTIALLY_PAID", "PAID", "CANCELLED"}
        \subseteq ChargeStatus
  /\ {"DRAFT", "GENERATED", "OPEN", "CLOSED", "CANCELLED"} \subseteq PeriodStatus
  /\ {"UNMATCHED", "SUGGESTED", "PARTIALLY_APPLIED", "APPLIED", "IGNORED",
      "REVERSED"} \subseteq BankStatus
BY DEF PaymentStatus, ChargeStatus, PeriodStatus, BankStatus

LEMMA DerivedStatusValues ==
  ASSUME NEW rem
  PROVE  /\ PaidStatus(rem) \in ChargeStatus
         /\ AppliedStatus(rem) \in PaymentStatus \cap BankStatus
BY StatusValues DEF PaidStatus, AppliedStatus

LEMMA InitTypeOK == Init => TypeOK
<1> SUFFICES ASSUME Init PROVE TypeOK
  OBVIOUS
<1>1. payment \in [Payment -> PaymentRow]
  BY StatusValues DEF Init, NoPaymentRow, PaymentRow
<1>2. charge \in [Charge -> ChargeRow]
  BY StatusValues DEF Init, NoChargeRow, ChargeRow, Movement
<1>3. app \in [Payment -> [Charge -> AppRow]]
  BY DEF Init, NoAppRow, AppRow
<1>4. period \in [Period -> PeriodStatus]
  BY StatusValues DEF Init
<1>5. bank \in [BankTx -> BankRow]
  <2>1. [status : {"UNMATCHED"}, amount : Amount, unit : {None}]
          \subseteq BankRow
    BY ConstantsAssumption, StatusValues DEF BankRow
  <2>2. QED BY <2>1 DEF Init
<1>6. QED BY <1>1, <1>2, <1>3, <1>4, <1>5 DEF TypeOK

-----------------------------------------------------------------------------
(* Types of the writes                                                     *)

LEMMA NewPaymentType ==
  ASSUME TypeOK, NEW p \in Payment, NEW amount \in Nat,
         NEW b \in BankTx \cup {None}, NEW status \in PaymentStatus,
         WriteNewPayment(p, amount, b, status)
  PROVE  payment' \in [Payment -> PaymentRow]
BY DEF WriteNewPayment, TypeOK, PaymentRow

LEMMA PaymentStatusType ==
  ASSUME TypeOK, NEW p \in Payment, NEW status \in PaymentStatus,
         WritePaymentStatus(p, status)
  PROVE  payment' \in [Payment -> PaymentRow]
BY DEF WritePaymentStatus, TypeOK, PaymentRow

LEMMA ApplyType ==
  ASSUME TypeOK, NEW p \in Payment, NEW apps, NEW left \in Nat, NEW rem,
         \A c \in DOMAIN apps : apps[c] \in Nat \ {0},
         WriteApply(p, apps, left, rem)
  PROVE  /\ payment' \in [Payment -> PaymentRow]
         /\ charge' \in [Charge -> ChargeRow]
         /\ app' \in [Payment -> [Charge -> AppRow]]
         /\ bank' \in [BankTx -> BankRow]
<1>1. payment' \in [Payment -> PaymentRow]
  BY DerivedStatusValues DEF WriteApply, TypeOK, PaymentRow
<1>2. charge' \in [Charge -> ChargeRow]
  BY DerivedStatusValues DEF WriteApply, TypeOK, ChargeRow
<1>3. app' \in [Payment -> [Charge -> AppRow]]
  BY DEF WriteApply, TypeOK, AppRow
<1>4. bank' \in [BankTx -> BankRow]
  BY ConstantsAssumption, DerivedStatusValues
  DEF WriteApply, TypeOK, BankRow
<1>5. QED BY <1>1, <1>2, <1>3, <1>4

LEMMA ReverseType ==
  ASSUME TypeOK, NEW p \in Payment, NEW c \in Charge, NEW left \in Nat,
         NEW amount, NEW status \in ChargeStatus,
         WriteReverse(p, c, left, amount, status)
  PROVE  /\ payment' \in [Payment -> PaymentRow]
         /\ charge' \in [Charge -> ChargeRow]
         /\ app' \in [Payment -> [Charge -> AppRow]]
<1>1. payment' \in [Payment -> PaymentRow]
  BY StatusValues DEF WriteReverse, TypeOK, PaymentRow
<1>2. charge' \in [Charge -> ChargeRow]
  BY DEF WriteReverse, TypeOK, ChargeRow
<1>3. app' \in [Payment -> [Charge -> AppRow]]
  <2> DEFINE row == [app[p] EXCEPT ![c].state = "reversed"]
  <2>1. row \in [Charge -> AppRow]
    BY DEF TypeOK, AppRow
  <2>2. app' = [app EXCEPT ![p] = row]
    BY DEF WriteReverse
  <2>3. QED BY <2>1, <2>2 DEF TypeOK
<1>4. QED BY <1>1, <1>2, <1>3

LEMMA ChargeWritesType ==
  ASSUME TypeOK, NEW c \in Charge, NEW amount \in Nat, NEW movement \in Movement,
         \/ WriteNewCharge(c, amount, movement)
         \/ WriteChargeAmount(c, amount, movement)
         \/ WriteChargeMovement(c, movement)
         \/ WriteChargeCancelled(c)
  PROVE  charge' \in [Charge -> ChargeRow]
<1>1. CASE WriteNewCharge(c, amount, movement)
  BY <1>1, StatusValues DEF WriteNewCharge, TypeOK, ChargeRow
<1>2. CASE WriteChargeAmount(c, amount, movement)
  BY <1>2 DEF WriteChargeAmount, TypeOK, ChargeRow
<1>3. CASE WriteChargeMovement(c, movement)
  BY <1>3 DEF WriteChargeMovement, TypeOK, ChargeRow
<1>4. CASE WriteChargeCancelled(c)
  BY <1>4, StatusValues DEF WriteChargeCancelled, TypeOK, ChargeRow
<1>5. QED BY <1>1, <1>2, <1>3, <1>4

LEMMA BankStatusType ==
  ASSUME TypeOK, NEW b \in BankTx, NEW status \in BankStatus,
         WriteBankStatus(b, status)
  PROVE  bank' \in [BankTx -> BankRow]
BY DEF WriteBankStatus, TypeOK, BankRow

LEMMA MatchType ==
  ASSUME TypeOK, NEW b \in BankTx, NEW p \in Payment, WriteMatch(b, p)
  PROVE  /\ payment' \in [Payment -> PaymentRow]
         /\ bank' \in [BankTx -> BankRow]
<1>1. payment' \in [Payment -> PaymentRow]
  BY NewPaymentType, StatusValues DEF WriteMatch, TypeOK, BankRow
<1>2. bank' \in [BankTx -> BankRow]
  BY ConstantsAssumption, StatusValues DEF WriteMatch, TypeOK, BankRow
<1>3. QED BY <1>1, <1>2

LEMMA ReverseBankType ==
  ASSUME TypeOK, NEW b \in BankTx, NEW payments, WriteReverseBank(b, payments)
  PROVE  /\ payment' \in [Payment -> PaymentRow]
         /\ bank' \in [BankTx -> BankRow]
<1>1. payment' \in [Payment -> PaymentRow]
  BY StatusValues DEF WriteReverseBank, TypeOK, PaymentRow
<1>2. bank' \in [BankTx -> BankRow]
  BY StatusValues DEF WriteReverseBank, TypeOK, BankRow
<1>3. QED BY <1>1, <1>2

-----------------------------------------------------------------------------
(* Type correctness                                                        *)

LEMMA PaymentNextType ==
  ASSUME TypeOK, PaymentNext
  PROVE  TypeOK'
<1>1. PICK p \in Payment :
        \/ \E amount \in Amount, b \in BankTx \cup {None} :
             CreatePayment(p, amount, b)
        \/ ConfirmPayment(p)
        \/ CancelPayment(p)
        \/ \E apps : Apply(p, apps)
        \/ \E c \in Charge : ReverseApplication(p, c)
  BY Zenon DEF PaymentNext, AutoApply
<1>2. ASSUME NEW amount \in Amount, NEW b \in BankTx \cup {None},
             CreatePayment(p, amount, b)
      PROVE  TypeOK'
  <2>1. payment' \in [Payment -> PaymentRow]
    BY <1>2, NewPaymentType, StatusValues, ConstantsAssumption
    DEF CreatePayment
  <2>2. QED BY <1>2, <2>1 DEF CreatePayment, TypeOK
<1>3. CASE ConfirmPayment(p)
  <2>1. payment' \in [Payment -> PaymentRow]
    BY <1>3, PaymentStatusType, StatusValues DEF ConfirmPayment
  <2>2. QED BY <1>3, <2>1 DEF ConfirmPayment, TypeOK
<1>4. CASE CancelPayment(p)
  <2>1. payment' \in [Payment -> PaymentRow]
    BY <1>4, PaymentStatusType, StatusValues DEF CancelPayment
  <2>2. QED BY <1>4, <2>1 DEF CancelPayment, TypeOK
<1>5. ASSUME NEW apps, Apply(p, apps)
      PROVE  TypeOK'
  <2>1. /\ LeftAfter(p, apps) \in Nat
        /\ \A c \in DOMAIN apps : apps[c] \in Nat \ {0}
    BY <1>5 DEF Apply, ApplyOK, ItemOK
  <2>2. WriteApply(p, apps, LeftAfter(p, apps), RemainingAfter(apps))
    BY <1>5 DEF Apply
  <2>3. period' = period
    BY <1>5 DEF Apply
  <2>4. QED BY <2>1, <2>2, <2>3, ApplyType DEF TypeOK
<1>6. ASSUME NEW c \in Charge, ReverseApplication(p, c)
      PROVE  TypeOK'
  <2> DEFINE rem == Remaining(c) + app[p][c].amount
  <2>1. payment[p].unapplied + app[p][c].amount \in Nat
    BY DEF TypeOK, PaymentRow, AppRow
  <2>2. RestoredStatus(c, rem) \in ChargeStatus
    BY StatusValues, DerivedStatusValues DEF RestoredStatus
  <2>3. WriteReverse(p, c, payment[p].unapplied + app[p][c].amount,
                     payment[p].amount, RestoredStatus(c, rem))
    BY <1>6 DEF ReverseApplication
  <2>4. UNCHANGED <<period, bank>>
    BY <1>6 DEF ReverseApplication
  <2>5. QED BY <2>1, <2>2, <2>3, <2>4, ReverseType DEF TypeOK
<1>7. QED BY <1>1, <1>2, <1>3, <1>4, <1>5, <1>6

LEMMA ChargeNextType ==
  ASSUME TypeOK, ChargeNext
  PROVE  TypeOK'
<1>1. PICK c \in Charge, amount \in Nat, movement \in Movement :
        \/ WriteNewCharge(c, amount, movement)
        \/ WriteChargeAmount(c, amount, movement)
        \/ WriteChargeMovement(c, movement)
        \/ WriteChargeCancelled(c)
  <2>1. PICK c \in Charge :
          \/ \E amount \in Amount, movement \in Movement :
               \/ WriteNewCharge(c, amount, movement)
               \/ WriteChargeAmount(c, amount, movement)
          \/ \E movement \in Movement : WriteChargeMovement(c, movement)
          \/ WriteChargeCancelled(c)
    BY DEF ChargeNext, CreateCharge, UpdateChargeAmount, UpdateChargeMovement,
           CancelCharge
  <2>2. Amount \subseteq Nat /\ 0 \in Nat /\ "DEBIT" \in Movement
    BY ConstantsAssumption DEF Movement
  <2>3. QED BY <2>1, <2>2, Zenon
<1>2. UNCHANGED <<payment, app, period, bank>>
  BY DEF ChargeNext, CreateCharge, UpdateChargeAmount, UpdateChargeMovement,
         CancelCharge
<1>3. charge' \in [Charge -> ChargeRow]
  BY <1>1, ChargeWritesType
<1>4. QED BY <1>2, <1>3 DEF TypeOK

LEMMA PeriodNextType ==
  ASSUME TypeOK, PeriodNext
  PROVE  TypeOK'
<1>1. UNCHANGED <<payment, charge, app, bank>>
  BY DEF PeriodNext, ClosePeriod, ReopenPeriod, RemovePeriod
<1>2. PICK b \in Period, status \in PeriodStatus : WritePeriod(b, status)
  BY StatusValues DEF PeriodNext, ClosePeriod, ReopenPeriod, RemovePeriod
<1>3. period' \in [Period -> PeriodStatus]
  BY <1>2 DEF WritePeriod, TypeOK
<1>4. QED BY <1>1, <1>3 DEF TypeOK

LEMMA BankNextType ==
  ASSUME TypeOK, BankNext
  PROVE  TypeOK'
<1>1. UNCHANGED <<charge, app, period>>
  BY DEF BankNext, SuggestMatch, Match, Ignore, ReverseBank
<1>2. PICK b \in BankTx : \/ SuggestMatch(b)
                          \/ \E p \in Payment : Match(b, p)
                          \/ Ignore(b)
                          \/ ReverseBank(b)
  BY DEF BankNext
<1>3. CASE SuggestMatch(b) \/ Ignore(b)
  <2>1. bank' \in [BankTx -> BankRow]
    BY <1>3, BankStatusType, StatusValues DEF SuggestMatch, Ignore
  <2>2. QED BY <1>1, <1>3, <2>1 DEF SuggestMatch, Ignore, TypeOK
<1>4. ASSUME NEW p \in Payment, Match(b, p) PROVE TypeOK'
  BY <1>1, <1>4, MatchType DEF Match, TypeOK
<1>5. CASE ReverseBank(b)
  BY <1>1, <1>5, ReverseBankType DEF ReverseBank, TypeOK
<1>6. QED BY <1>2, <1>3, <1>4, <1>5

LEMMA NextTypeOK == TypeOK /\ [BankLedgerNext]_vars => TypeOK'
<1>1. TypeOK /\ UNCHANGED vars => TypeOK'
  BY DEF TypeOK, vars
<1>2. QED
  BY <1>1, PaymentNextType, ChargeNextType, PeriodNextType, BankNextType
  DEF BankLedgerNext, Next

(* Every value a handler writes is one its column can hold: in particular  *)
(* no sequence of applications and reversals, of any amounts, drives what  *)
(* is left of a payment below zero.                                        *)
THEOREM TypeCorrect == BankLedgerSpec => []TypeOK
BY InitTypeOK, NextTypeOK, PTL DEF BankLedgerSpec

-----------------------------------------------------------------------------
(* Retired rows pay for nothing, pair by pair                              *)

UnusedPair(p, c) ==
  Active(p, c) =>
    /\ payment[p].status \notin {"ABSENT", "PENDING", "CANCELLED", "REVERSED"}
    /\ charge[c].status \notin {"ABSENT", "CANCELLED"}

LEMMA UnusedPairs ==
  RetiredRowsUnused <=> \A p \in Payment, c \in Charge : UnusedPair(p, c)
BY DEF RetiredRowsUnused, UnusedPair, PaidBy, Payers

LEMMA UnusedPairsAfter ==
  RetiredRowsUnused' <=> (\A p \in Payment, c \in Charge : UnusedPair(p, c)')
BY DEF RetiredRowsUnused, UnusedPair, PaidBy, Payers

LEMMA DerivedStatusLive ==
  ASSUME NEW rem
  PROVE  /\ PaidStatus(rem) \in {"PAID", "PARTIALLY_PAID"}
         /\ AppliedStatus(rem) \in {"APPLIED", "PARTIALLY_APPLIED"}
BY DEF PaidStatus, AppliedStatus

LEMMA PaymentNextUnused ==
  ASSUME TypeOK, RetiredRowsUnused, PaymentNext
  PROVE  RetiredRowsUnused'
<1>1. PICK p \in Payment :
        \/ \E amount \in Amount, b \in BankTx \cup {None} :
             CreatePayment(p, amount, b)
        \/ ConfirmPayment(p)
        \/ CancelPayment(p)
        \/ \E apps : Apply(p, apps)
        \/ \E c \in Charge : ReverseApplication(p, c)
  BY Zenon DEF PaymentNext, AutoApply
<1>2. SUFFICES ASSUME NEW q \in Payment, NEW d \in Charge, Active(q, d)'
               PROVE  /\ payment'[q].status \notin
                           {"ABSENT", "PENDING", "CANCELLED", "REVERSED"}
                      /\ charge'[d].status \notin {"ABSENT", "CANCELLED"}
  BY UnusedPairsAfter DEF UnusedPair
<1>3. UnusedPair(q, d)
  BY UnusedPairs
<1>4. CASE \E amount \in Amount, b \in BankTx \cup {None} :
             CreatePayment(p, amount, b)
  BY <1>2, <1>3, <1>4
  DEF CreatePayment, CreatePaymentOK, WriteNewPayment, UnusedPair, Active, TypeOK
<1>5. CASE ConfirmPayment(p)
  BY <1>2, <1>3, <1>5
  DEF ConfirmPayment, WritePaymentStatus, UnusedPair, Active, TypeOK
<1>6. CASE CancelPayment(p)
  BY <1>2, <1>3, <1>6
  DEF CancelPayment, CancelPaymentOK, WritePaymentStatus, PaidBy, UnusedPair,
      Active, TypeOK
<1>7. ASSUME NEW apps, Apply(p, apps)
      PROVE  /\ payment'[q].status \notin
                  {"ABSENT", "PENDING", "CANCELLED", "REVERSED"}
             /\ charge'[d].status \notin {"ABSENT", "CANCELLED"}
  <2>1. CASE q = p /\ d \in DOMAIN apps
    BY <1>7, <2>1, DerivedStatusLive DEF Apply, WriteApply, TypeOK, PaymentRow,
       ChargeRow
  <2>2. CASE ~(q = p /\ d \in DOMAIN apps)
    <3>1. Active(q, d)
      BY <1>2, <1>7, <2>2 DEF Apply, WriteApply, Active, TypeOK
    <3>2. payment'[q].status \notin
            {"ABSENT", "PENDING", "CANCELLED", "REVERSED"}
      BY <1>3, <1>7, <3>1, DerivedStatusLive
      DEF Apply, WriteApply, UnusedPair, TypeOK, PaymentRow
    <3>3. charge'[d].status \notin {"ABSENT", "CANCELLED"}
      BY <1>3, <1>7, <3>1, DerivedStatusLive
      DEF Apply, WriteApply, UnusedPair, TypeOK, ChargeRow
    <3>4. QED BY <3>2, <3>3
  <2>3. QED BY <2>1, <2>2
<1>8. ASSUME NEW c \in Charge, ReverseApplication(p, c)
      PROVE  /\ payment'[q].status \notin
                  {"ABSENT", "PENDING", "CANCELLED", "REVERSED"}
             /\ charge'[d].status \notin {"ABSENT", "CANCELLED"}
  <2> DEFINE status == RestoredStatus(c, Remaining(c) + app[p][c].amount)
  <2>1. status \in {"PENDING", "PAID", "PARTIALLY_PAID"}
    BY DerivedStatusLive DEF RestoredStatus
  <2>2. PICK left, amount : WriteReverse(p, c, left, amount, status)
    BY <1>8 DEF ReverseApplication
  <2> HIDE DEF status
  <2>3. Active(q, d)
    BY <1>2, <2>2 DEF WriteReverse, Active, TypeOK, AppRow
  <2>4. payment'[q].status \notin
          {"ABSENT", "PENDING", "CANCELLED", "REVERSED"}
    BY <1>3, <2>2, <2>3 DEF WriteReverse, UnusedPair, TypeOK, PaymentRow
  <2>5. charge'[d].status \notin {"ABSENT", "CANCELLED"}
    BY <1>3, <2>1, <2>2, <2>3 DEF WriteReverse, UnusedPair, TypeOK, ChargeRow
  <2>6. QED BY <2>4, <2>5
<1>9. QED BY <1>1, <1>4, <1>5, <1>6, <1>7, <1>8

LEMMA ChargeNextUnused ==
  ASSUME TypeOK, RetiredRowsUnused, ChargeNext
  PROVE  RetiredRowsUnused'
<1>1. UNCHANGED <<payment, app>>
  BY DEF ChargeNext, CreateCharge, UpdateChargeAmount, UpdateChargeMovement,
         CancelCharge
<1>2. SUFFICES ASSUME NEW q \in Payment, NEW d \in Charge, Active(q, d)
               PROVE  charge'[d].status \notin {"ABSENT", "CANCELLED"}
  BY <1>1, UnusedPairs, UnusedPairsAfter DEF UnusedPair, Active
<1>3. charge[d].status \notin {"ABSENT", "CANCELLED"} /\ Payers(d) # {}
  BY <1>2, UnusedPairs DEF UnusedPair, Payers
<1>4. PICK c \in Charge :
        \/ \E amount \in Amount, movement \in Movement :
             \/ CreateCharge(c, amount, movement)
             \/ UpdateChargeAmount(c, amount, movement)
        \/ \E movement \in Movement : UpdateChargeMovement(c, movement)
        \/ CancelCharge(c)
  BY Zenon DEF ChargeNext
<1>5. ASSUME NEW amount \in Amount, NEW movement \in Movement,
             CreateCharge(c, amount, movement)
      PROVE  charge'[d].status \notin {"ABSENT", "CANCELLED"}
  BY <1>3, <1>5 DEF CreateCharge, WriteNewCharge, TypeOK
<1>6. ASSUME NEW amount \in Amount, NEW movement \in Movement,
             UpdateChargeAmount(c, amount, movement)
      PROVE  charge'[d].status \notin {"ABSENT", "CANCELLED"}
  BY <1>3, <1>6 DEF UpdateChargeAmount, WriteChargeAmount, TypeOK, ChargeRow
<1>7. ASSUME NEW movement \in Movement, UpdateChargeMovement(c, movement)
      PROVE  charge'[d].status \notin {"ABSENT", "CANCELLED"}
  BY <1>3, <1>7 DEF UpdateChargeMovement, WriteChargeMovement, TypeOK, ChargeRow
<1>8. CASE CancelCharge(c)
  BY <1>3, <1>8
  DEF CancelCharge, CancelChargeOK, WriteChargeCancelled, TypeOK, ChargeRow
<1>9. QED BY <1>4, <1>5, <1>6, <1>7, <1>8

LEMMA BankNextUnused ==
  ASSUME TypeOK, RetiredRowsUnused, BankNext
  PROVE  RetiredRowsUnused'
<1>1. UNCHANGED <<charge, app>>
  BY DEF BankNext, SuggestMatch, Match, Ignore, ReverseBank
<1>2. SUFFICES ASSUME NEW q \in Payment, NEW d \in Charge, Active(q, d)
               PROVE  payment'[q].status \notin
                        {"ABSENT", "PENDING", "CANCELLED", "REVERSED"}
  BY <1>1, UnusedPairs, UnusedPairsAfter DEF UnusedPair, Active
<1>3. /\ payment[q].status \notin {"ABSENT", "PENDING", "CANCELLED", "REVERSED"}
      /\ PaidBy(q) # {}
  BY <1>2, UnusedPairs DEF UnusedPair, PaidBy
<1>4. PICK b \in BankTx : \/ SuggestMatch(b)
                          \/ \E p \in Payment : Match(b, p)
                          \/ Ignore(b)
                          \/ ReverseBank(b)
  BY DEF BankNext
<1>5. CASE SuggestMatch(b) \/ Ignore(b)
  BY <1>3, <1>5 DEF SuggestMatch, Ignore
<1>6. ASSUME NEW p \in Payment, Match(b, p)
      PROVE  payment'[q] = payment[q]
  BY <1>3, <1>6 DEF Match, WriteMatch, WriteNewPayment, TypeOK
<1>7. CASE ReverseBank(b)
  <2>1. q \notin LivePayments(b)
    BY <1>3, <1>7 DEF ReverseBank, ReverseBankOK
  <2>2. payment'[q] = payment[q]
    BY <1>7, <2>1 DEF ReverseBank, WriteReverseBank
  <2>3. QED BY <1>3, <2>2
<1>8. QED BY <1>3, <1>4, <1>5, <1>6, <1>7

LEMMA NextUnused ==
  TypeOK /\ RetiredRowsUnused /\ [BankLedgerNext]_vars => RetiredRowsUnused'
<1>1. ASSUME RetiredRowsUnused, UNCHANGED <<payment, charge, app>>
      PROVE  RetiredRowsUnused'
  BY <1>1, UnusedPairs, UnusedPairsAfter DEF UnusedPair, Active
<1>2. UNCHANGED vars \/ PeriodNext => UNCHANGED <<payment, charge, app>>
  BY DEF vars, PeriodNext, ClosePeriod, ReopenPeriod, RemovePeriod
<1>3. QED
  BY <1>1, <1>2, PaymentNextUnused, ChargeNextUnused, BankNextUnused
  DEF BankLedgerNext, Next

(* However many payments, charges and amounts there are, and in whatever   *)
(* order they are confirmed, applied, reversed and cancelled, no active    *)
(* application hangs from a payment that is pending, cancelled or          *)
(* reversed, nor from a cancelled charge.                                  *)
THEOREM UnusedWhenRetired == BankLedgerSpec => []RetiredRowsUnused
<1>1. Init => RetiredRowsUnused
  BY DEF Init, NoAppRow, RetiredRowsUnused, PaidBy, Payers, Active
<1>2. QED
  BY <1>1, TypeCorrect, NextUnused, PTL DEF BankLedgerSpec

-----------------------------------------------------------------------------
(* Closed periods and cancelled rows                                       *)

(* A charge that a step of the charge handlers changes was mutable and not *)
(* cancelled.                                                              *)
LEMMA ChargeNextTouches ==
  ASSUME TypeOK, ChargeNext, NEW d \in Charge,
         Closed(d) \/ charge[d].status = "CANCELLED"
  PROVE  charge'[d] = charge[d]
<1>1. PICK c \in Charge :
        /\ Mutable(c) /\ charge[c].status # "CANCELLED"
        /\ \/ \E amount \in Amount, movement \in Movement :
               \/ WriteNewCharge(c, amount, movement)
               \/ WriteChargeAmount(c, amount, movement)
           \/ \E movement \in Movement : WriteChargeMovement(c, movement)
           \/ WriteChargeCancelled(c)
  BY DEF ChargeNext, CreateCharge, CreateChargeOK, UpdateChargeAmount,
         UpdateAmountOK, UpdateChargeMovement, UpdateMovementOK, CancelCharge,
         CancelChargeOK
<1>2. c # d
  BY <1>1 DEF Mutable
<1>3. QED
  BY <1>1, <1>2 DEF WriteNewCharge, WriteChargeAmount, WriteChargeMovement,
                    WriteChargeCancelled, TypeOK

LEMMA PaymentNextKeepsClosed ==
  ASSUME TypeOK, PaymentNext
  PROVE  KeepsClosed
<1>1. PICK p \in Payment :
        \/ UNCHANGED <<charge, app>>
        \/ \E apps : Apply(p, apps)
        \/ \E c \in Charge : ReverseApplication(p, c)
  BY DEF PaymentNext, CreatePayment, ConfirmPayment, CancelPayment, AutoApply
<1>2. SUFFICES ASSUME NEW d \in Charge, Closed(d)
               PROVE  /\ charge'[d] = charge[d]
                      /\ \A q \in Payment : app'[q][d] = app[q][d]
  BY DEF KeepsClosed
<1>3. CASE UNCHANGED <<charge, app>>
  BY <1>3
<1>4. ASSUME NEW apps, Apply(p, apps)
      PROVE  /\ charge'[d] = charge[d]
             /\ \A q \in Payment : app'[q][d] = app[q][d]
  <2>1. d \notin DOMAIN apps
    BY <1>2, <1>4 DEF Apply, ApplyOK, ItemOK, Mutable
  <2>2. QED BY <1>4, <2>1 DEF Apply, WriteApply, TypeOK
<1>5. ASSUME NEW c \in Charge, ReverseApplication(p, c)
      PROVE  /\ charge'[d] = charge[d]
             /\ \A q \in Payment : app'[q][d] = app[q][d]
  <2>1. c # d
    BY <1>2, <1>5 DEF ReverseApplication, ReverseOK, Mutable
  <2>2. QED BY <1>5, <2>1 DEF ReverseApplication, WriteReverse, TypeOK
<1>6. QED BY <1>1, <1>3, <1>4, <1>5

LEMMA NextKeepsClosed ==
  TypeOK /\ [BankLedgerNext]_vars => [KeepsClosed]_vars
<1>1. ASSUME TypeOK, ChargeNext PROVE KeepsClosed
  BY <1>1, ChargeNextTouches
  DEF KeepsClosed, ChargeNext, CreateCharge, UpdateChargeAmount,
      UpdateChargeMovement, CancelCharge
<1>2. PeriodNext \/ BankNext => KeepsClosed
  BY DEF KeepsClosed, PeriodNext, ClosePeriod, ReopenPeriod, RemovePeriod,
         BankNext, SuggestMatch, Match, Ignore, ReverseBank
<1>3. QED
  BY <1>1, <1>2, PaymentNextKeepsClosed DEF BankLedgerNext, Next

(* While a billing period is CLOSED its charges and the applications to    *)
(* them stay as they are, whatever handler runs.                           *)
THEOREM ClosedFrozen == BankLedgerSpec => ClosedPeriodFrozen
BY TypeCorrect, NextKeepsClosed, PTL DEF BankLedgerSpec, ClosedPeriodFrozen

LEMMA PaymentNextKeepsCancelled ==
  ASSUME TypeOK, RetiredRowsUnused, PaymentNext
  PROVE  KeepsCancelled
<1>1. PICK p \in Payment :
        \/ \E amount \in Amount, b \in BankTx \cup {None} :
             CreatePayment(p, amount, b)
        \/ ConfirmPayment(p)
        \/ CancelPayment(p)
        \/ \E apps : Apply(p, apps)
        \/ \E c \in Charge : ReverseApplication(p, c)
  BY Zenon DEF PaymentNext, AutoApply
<1>2. CASE \E amount \in Amount, b \in BankTx \cup {None} :
             CreatePayment(p, amount, b)
  BY <1>2 DEF CreatePayment, CreatePaymentOK, WriteNewPayment, KeepsCancelled,
              TypeOK
<1>3. CASE ConfirmPayment(p)
  BY <1>3 DEF ConfirmPayment, ConfirmOK, WritePaymentStatus, KeepsCancelled,
              TypeOK
<1>4. CASE CancelPayment(p)
  BY <1>4 DEF CancelPayment, CancelPaymentOK, WritePaymentStatus,
              KeepsCancelled, TypeOK
<1>5. ASSUME NEW apps, Apply(p, apps) PROVE KeepsCancelled
  <2>1. /\ payment[p].status # "CANCELLED"
        /\ \A c \in DOMAIN apps : charge[c].status # "CANCELLED"
    BY <1>5 DEF Apply, ApplyOK, ItemOK
  <2>2. QED BY <1>5, <2>1 DEF Apply, WriteApply, KeepsCancelled, TypeOK
<1>6. ASSUME NEW c \in Charge, ReverseApplication(p, c) PROVE KeepsCancelled
  <2>1. payment[p].status # "CANCELLED" /\ charge[c].status # "CANCELLED"
    BY <1>6, UnusedPairs DEF ReverseApplication, ReverseOK, UnusedPair
  <2>2. QED BY <1>6, <2>1 DEF ReverseApplication, WriteReverse, KeepsCancelled,
                              TypeOK
<1>7. QED BY <1>1, <1>2, <1>3, <1>4, <1>5, <1>6

LEMMA BankNextKeepsCancelled ==
  ASSUME TypeOK, BankNext
  PROVE  KeepsCancelled
<1>1. charge' = charge
  BY DEF BankNext, SuggestMatch, Match, Ignore, ReverseBank
<1>2. SUFFICES ASSUME NEW q \in Payment, payment[q].status = "CANCELLED"
               PROVE  payment'[q] = payment[q]
  BY <1>1 DEF KeepsCancelled
<1>3. PICK b \in BankTx : \/ SuggestMatch(b)
                          \/ \E p \in Payment : Match(b, p)
                          \/ Ignore(b)
                          \/ ReverseBank(b)
  BY DEF BankNext
<1>4. CASE SuggestMatch(b) \/ Ignore(b)
  BY <1>4 DEF SuggestMatch, Ignore
<1>5. ASSUME NEW p \in Payment, Match(b, p) PROVE payment'[q] = payment[q]
  BY <1>2, <1>5 DEF Match, WriteMatch, WriteNewPayment, TypeOK
<1>6. CASE ReverseBank(b)
  BY <1>2, <1>6 DEF ReverseBank, WriteReverseBank, LivePayments
<1>7. QED BY <1>3, <1>4, <1>5, <1>6

LEMMA NextKeepsCancelled ==
  TypeOK /\ RetiredRowsUnused /\ [BankLedgerNext]_vars => [KeepsCancelled]_vars
<1>1. ASSUME TypeOK, ChargeNext PROVE KeepsCancelled
  BY <1>1, ChargeNextTouches
  DEF KeepsCancelled, ChargeNext, CreateCharge, UpdateChargeAmount,
      UpdateChargeMovement, CancelCharge
<1>2. PeriodNext => KeepsCancelled
  BY DEF KeepsCancelled, PeriodNext, ClosePeriod, ReopenPeriod, RemovePeriod
<1>3. QED
  BY <1>1, <1>2, PaymentNextKeepsCancelled, BankNextKeepsCancelled
  DEF BankLedgerNext, Next

(* A cancelled payment or charge is never revived or edited: reversing an  *)
(* application would set both rows' statuses again, but none is left on a  *)
(* cancelled row to reverse.                                               *)
THEOREM CancelledFinal == BankLedgerSpec => CancelledIsFinal
BY TypeCorrect, UnusedWhenRetired, NextKeepsCancelled, PTL
DEF BankLedgerSpec, CancelledIsFinal

-----------------------------------------------------------------------------
(* Bank movements and the payments that back them                          *)

(* A payment that was not inserted belongs to no bank movement, so an      *)
(* insertion takes no movement's backing away.                             *)
AbsentUnlinked ==
  \A p \in Payment : payment[p].status = "ABSENT" => payment[p].bankTx = None

Backs(p, b) == /\ payment[p].bankTx = b /\ payment[p].status # "REVERSED"
               /\ PaymentUnit[p] = bank[b].unit

(* A step keeps what backs a movement, sets its unit anew, or clears it.   *)
KeepsPayment(p) ==
  /\ payment'[p].bankTx = payment[p].bankTx
  /\ payment'[p].status = "REVERSED" => payment[p].status = "REVERSED"

KeepsBacking(b) ==
  \/ bank'[b].unit = None
  \/ \E p \in Payment : Backs(p, b)'
  \/ /\ bank'[b].unit = bank[b].unit
     /\ \A p \in Payment : payment[p].bankTx = b => KeepsPayment(p)

StaysAbsent(p) == payment'[p].status = "ABSENT" => payment'[p] = payment[p]

LEMMA PaymentNextBacks ==
  ASSUME TypeOK, AbsentUnlinked, PaymentNext
  PROVE  /\ \A b \in BankTx : KeepsBacking(b)
         /\ \A p \in Payment : StaysAbsent(p)
<1>1. PICK p \in Payment :
        \/ \E amount \in Amount, b \in BankTx \cup {None} :
             CreatePayment(p, amount, b)
        \/ ConfirmPayment(p)
        \/ CancelPayment(p)
        \/ \E apps : Apply(p, apps)
        \/ \E c \in Charge : ReverseApplication(p, c)
  BY Zenon DEF PaymentNext, AutoApply
<1>2. ASSUME NEW amount \in Amount, NEW b \in BankTx \cup {None},
             CreatePayment(p, amount, b)
      PROVE  /\ \A d \in BankTx : KeepsBacking(d)
             /\ \A q \in Payment : StaysAbsent(q)
  <2>1. /\ payment[p].status = "ABSENT" /\ payment[p].bankTx = None
        /\ bank' = bank
        /\ \A q \in Payment \ {p} : payment'[q] = payment[q]
        /\ payment'[p].status = "PENDING"
    BY <1>2
    DEF CreatePayment, CreatePaymentOK, WriteNewPayment, AbsentUnlinked, TypeOK
  <2>2. QED
    BY <2>1, ConstantsAssumption DEF KeepsBacking, KeepsPayment, StaysAbsent
<1>3. CASE ConfirmPayment(p) \/ CancelPayment(p)
  <2>1. /\ bank' = bank
        /\ \A q \in Payment \ {p} : payment'[q] = payment[q]
        /\ payment'[p].status \in {"CONFIRMED", "CANCELLED"}
        /\ payment'[p].bankTx = payment[p].bankTx
    BY <1>3
    DEF ConfirmPayment, CancelPayment, WritePaymentStatus, TypeOK, PaymentRow
  <2>2. QED BY <2>1 DEF KeepsBacking, KeepsPayment, StaysAbsent
<1>4. ASSUME NEW apps, Apply(p, apps)
      PROVE  /\ \A b \in BankTx : KeepsBacking(b)
             /\ \A q \in Payment : StaysAbsent(q)
  <2>1. /\ \A q \in Payment \ {p} : payment'[q] = payment[q]
        /\ payment'[p].status \in {"APPLIED", "PARTIALLY_APPLIED"}
        /\ payment'[p].bankTx = payment[p].bankTx
    BY <1>4, DerivedStatusLive DEF Apply, WriteApply, TypeOK, PaymentRow
  <2>2. ASSUME NEW b \in BankTx PROVE KeepsBacking(b)
    <3>1. CASE b = payment[p].bankTx
      <4>1. bank'[b].unit = PaymentUnit[p]
        BY <1>4, <3>1 DEF Apply, WriteApply, TypeOK, BankRow
      <4>2. QED BY <2>1, <3>1, <4>1 DEF KeepsBacking, Backs
    <3>2. CASE b # payment[p].bankTx
      <4>1. bank'[b] = bank[b]
        BY <1>4, <3>2 DEF Apply, WriteApply
      <4>2. QED BY <2>1, <3>2, <4>1 DEF KeepsBacking, KeepsPayment
    <3>3. QED BY <3>1, <3>2
  <2>3. QED BY <2>1, <2>2 DEF StaysAbsent
<1>5. ASSUME NEW c \in Charge, ReverseApplication(p, c)
      PROVE  /\ \A b \in BankTx : KeepsBacking(b)
             /\ \A q \in Payment : StaysAbsent(q)
  <2>1. PICK left, amount, status :
          WriteReverse(p, c, left, amount, status) /\ bank' = bank
    BY <1>5 DEF ReverseApplication
  <2>2. /\ \A q \in Payment \ {p} : payment'[q] = payment[q]
        /\ payment'[p].status \in {"CONFIRMED", "PARTIALLY_APPLIED"}
        /\ payment'[p].bankTx = payment[p].bankTx
    BY <2>1 DEF WriteReverse, TypeOK, PaymentRow
  <2>3. QED BY <2>1, <2>2 DEF KeepsBacking, KeepsPayment, StaysAbsent
<1>6. QED BY <1>1, <1>2, <1>3, <1>4, <1>5

LEMMA BankNextBacks ==
  ASSUME TypeOK, AbsentUnlinked, BankNext
  PROVE  /\ \A b \in BankTx : KeepsBacking(b)
         /\ \A p \in Payment : StaysAbsent(p)
<1>1. PICK b \in BankTx : \/ SuggestMatch(b)
                          \/ \E p \in Payment : Match(b, p)
                          \/ Ignore(b)
                          \/ ReverseBank(b)
  BY DEF BankNext
<1>2. CASE SuggestMatch(b) \/ Ignore(b)
  <2>1. payment' = payment /\ \A d \in BankTx : bank'[d].unit = bank[d].unit
    BY <1>2 DEF SuggestMatch, Ignore, WriteBankStatus, TypeOK, BankRow
  <2>2. QED BY <2>1 DEF KeepsBacking, KeepsPayment, StaysAbsent
<1>3. ASSUME NEW p \in Payment, Match(b, p)
      PROVE  /\ \A d \in BankTx : KeepsBacking(d)
             /\ \A q \in Payment : StaysAbsent(q)
  <2>1. /\ payment[p].bankTx = None
        /\ \A q \in Payment \ {p} : payment'[q] = payment[q]
        /\ payment'[p].status = "CONFIRMED" /\ payment'[p].bankTx = b
    BY <1>3
    DEF Match, WriteMatch, WriteNewPayment, AbsentUnlinked, TypeOK
  <2>2. /\ bank'[b].unit = PaymentUnit[p]
        /\ \A d \in BankTx \ {b} : bank'[d] = bank[d]
    BY <1>3 DEF Match, WriteMatch, TypeOK, BankRow
  <2>3. KeepsBacking(b)
    BY <2>1, <2>2 DEF KeepsBacking, Backs
  <2>4. \A d \in BankTx \ {b} : KeepsBacking(d)
    BY <2>1, <2>2, ConstantsAssumption DEF KeepsBacking, KeepsPayment
  <2>5. QED BY <2>1, <2>3, <2>4 DEF StaysAbsent
<1>4. CASE ReverseBank(b)
  <2>1. /\ bank'[b].unit = None
        /\ \A d \in BankTx \ {b} : bank'[d] = bank[d]
    BY <1>4 DEF ReverseBank, WriteReverseBank, TypeOK, BankRow
  <2>2. \A p \in Payment : payment[p].bankTx # b => payment'[p] = payment[p]
    BY <1>4 DEF ReverseBank, WriteReverseBank, LivePayments, Linked
  <2>3. \A p \in Payment : StaysAbsent(p)
    BY <1>4 DEF ReverseBank, WriteReverseBank, LivePayments, TypeOK, PaymentRow,
                StaysAbsent
  <2>4. QED BY <2>1, <2>2, <2>3 DEF KeepsBacking, KeepsPayment
<1>5. QED BY <1>1, <1>2, <1>3, <1>4

LEMMA BackedBy ==
  /\ MatchedUnitBacked <=>
       \A b \in BankTx : bank[b].unit # None => \E p \in Payment : Backs(p, b)
  /\ MatchedUnitBacked' <=>
       \A b \in BankTx : bank'[b].unit # None => \E p \in Payment : Backs(p, b)'
BY DEF MatchedUnitBacked, Linked, Backs

LEMMA BackingKept ==
  ASSUME AbsentUnlinked, MatchedUnitBacked,
         \A b \in BankTx : KeepsBacking(b), \A p \in Payment : StaysAbsent(p)
  PROVE  AbsentUnlinked' /\ MatchedUnitBacked'
<1>1. AbsentUnlinked'
  BY DEF AbsentUnlinked, StaysAbsent
<1>2. ASSUME NEW b \in BankTx, bank'[b].unit # None
      PROVE  \E p \in Payment : Backs(p, b)'
  <2>1. CASE \E p \in Payment : Backs(p, b)'
    BY <2>1
  <2>2. CASE /\ bank'[b].unit = bank[b].unit
             /\ \A p \in Payment : payment[p].bankTx = b => KeepsPayment(p)
    <3>1. PICK p \in Payment : Backs(p, b)
      BY <1>2, <2>2, BackedBy
    <3>2. Backs(p, b)'
      BY <2>2, <3>1 DEF Backs, KeepsPayment
    <3>3. QED BY <3>2
  <2>3. QED BY <1>2, <2>1, <2>2 DEF KeepsBacking
<1>3. QED BY <1>1, <1>2, BackedBy

LEMMA NextBacked ==
  TypeOK /\ AbsentUnlinked /\ MatchedUnitBacked /\ [BankLedgerNext]_vars
    => AbsentUnlinked' /\ MatchedUnitBacked'
<1> SUFFICES ASSUME TypeOK, AbsentUnlinked, MatchedUnitBacked,
                    [BankLedgerNext]_vars
             PROVE  /\ \A b \in BankTx : KeepsBacking(b)
                    /\ \A p \in Payment : StaysAbsent(p)
  BY BackingKept
<1>1. CASE UNCHANGED vars \/ ChargeNext \/ PeriodNext
  <2>1. UNCHANGED <<payment, bank>>
    BY <1>1
    DEF vars, ChargeNext, CreateCharge, UpdateChargeAmount,
        UpdateChargeMovement, CancelCharge, PeriodNext, ClosePeriod,
        ReopenPeriod, RemovePeriod
  <2>2. QED BY <2>1 DEF KeepsBacking, KeepsPayment, StaysAbsent
<1>2. QED
  BY <1>1, PaymentNextBacks, BankNextBacks DEF BankLedgerNext, Next

LEMMA InitBacked == Init => AbsentUnlinked /\ MatchedUnitBacked
BY DEF Init, NoPaymentRow, AbsentUnlinked, MatchedUnitBacked

(* Whatever is matched, applied, ignored, reversed and cancelled, and      *)
(* however many payments a movement has, a movement that carries a unit    *)
(* has a payment of that unit that was not reversed.                       *)
THEOREM UnitBacked == BankLedgerSpec => []MatchedUnitBacked
BY InitBacked, TypeCorrect, NextBacked, PTL DEF BankLedgerSpec
=============================================================================
