--------------------------- MODULE BalanceProofs ----------------------------
(***************************************************************************)
(* The balances, summaries and statements agree with one another, for      *)
(* every number of units, payments and charges and all amounts.            *)
(*                                                                         *)
(* An application is counted once from its payment and once from its       *)
(* charge.  BothWays says that a table of amounts has one total, by rows   *)
(* and by columns; the rest is to show that payments and charges of a unit *)
(* are the rows and columns of one table, which they are as long as no     *)
(* application crosses units (SameUnit).                                   *)
(***************************************************************************)
EXTENDS AccountStatement, MoneyProofs

-----------------------------------------------------------------------------
(* An application joins rows of one unit, as apply demands and nothing     *)
(* later undoes.                                                           *)
SameUnit ==
  \A p \in Payment, c \in Charge : Active(p, c) => ChargeUnit[c] = PaymentUnit[p]

LEMMA SameUnitStep ==
  ASSUME TypeOK, SameUnit, [BankLedgerNext]_vars
  PROVE  SameUnit'
<1>1. CASE QuietStep
  BY <1>1, QuietApp DEF SameUnit, Active
<1>2. ASSUME NEW p \in Payment, NEW apps, DOMAIN apps \subseteq Charge,
             Apply(p, apps)
      PROVE  SameUnit'
  <2>1. \A c \in DOMAIN apps : ChargeUnit[c] = PaymentUnit[p]
    BY <1>2 DEF Apply, ApplyOK, ItemOK
  <2>2. /\ \A c \in Charge \ DOMAIN apps : app'[p][c] = app[p][c]
        /\ \A q \in Payment \ {p}, c \in Charge : app'[q][c] = app[q][c]
    BY <1>2 DEF Apply, WriteApply, TypeOK
  <2>3. QED BY <2>1, <2>2 DEF SameUnit, Active
<1>3. ASSUME NEW p \in Payment, NEW c \in Charge, ReverseApplication(p, c)
      PROVE  SameUnit'
  <2>1. \A q \in Payment, d \in Charge : Active(q, d)' => Active(q, d)
    BY <1>3 DEF ReverseApplication, WriteReverse, TypeOK, AppRow, Active
  <2>2. QED BY <2>1 DEF SameUnit
<1>4. QED BY <1>1, <1>2, <1>3, StepKinds

LEMMA SameUnitCorrect == BankLedgerSpec => []SameUnit
<1>1. Init => SameUnit
  BY DEF Init, NoAppRow, SameUnit, Active
<1>2. TypeOK /\ SameUnit /\ [BankLedgerNext]_vars => SameUnit'
  BY SameUnitStep
<1>3. QED BY <1>1, <1>2, TypeCorrect, PTL DEF BankLedgerSpec

(* What the balances need of the ledger.                                   *)
Settled == TypeOK /\ MoneyInv /\ RetiredRowsUnused /\ SameUnit

LEMMA SettledCorrect == BankLedgerSpec => []Settled
BY TypeCorrect, MoneyCorrect, UnusedWhenRetired, SameUnitCorrect, PTL DEF Settled

-----------------------------------------------------------------------------
(* The unit's payments, with or without those that pay for nothing, have   *)
(* used what its charges have received.                                    *)
LEMMA UsedIsReceived ==
  ASSUME Settled, NEW u \in Unit, NEW P, P \subseteq Payment,
         \A p \in P : PaymentUnit[p] = u,
         \A p \in Payment \ P : PaymentUnit[p] = u => PaidBy(p) = {}
  PROVE  SumOf([p \in P |-> AppliedFrom(p)]) =
         SumOf([c \in {c \in Charge : ChargeUnit[c] = u} |-> AppliedTo(c)])
<1>1. PICK C : C = {c \in Charge : ChargeUnit[c] = u}
  OBVIOUS
<1>2. PICK rows : rows = [p \in P |-> [c \in PaidBy(p) |-> app[p][c].amount]]
  OBVIOUS
<1>3. PICK columns : columns = [c \in C |-> [p \in Payers(c) |-> app[p][c].amount]]
  OBVIOUS
<1>4. IsFiniteSet(P) /\ IsFiniteSet(C)
  BY <1>1, FiniteAssumption, FS_Subset
<1>5. /\ \A p \in P : Amounts(rows[p])
      /\ \A c \in C : Amounts(columns[c])
  BY <1>1, <1>2, <1>3, AppliedAmounts DEF Settled
<1>6. /\ \A p \in P : DOMAIN rows[p] = PaidBy(p)
      /\ \A c \in C : DOMAIN columns[c] = Payers(c)
  BY <1>2, <1>3
<1>7. /\ \A p \in P : PaidBy(p) \subseteq C
      /\ \A c \in C : Payers(c) \subseteq P
  BY <1>1 DEF Settled, SameUnit, PaidBy, Payers
<1>8. \A p \in P, c \in C :
        /\ c \in PaidBy(p) <=> p \in Payers(c)
        /\ c \in PaidBy(p) => rows[p][c] = columns[c][p]
  BY <1>1, <1>2, <1>3 DEF PaidBy, Payers
<1>9. DOMAIN rows = P /\ DOMAIN columns = C
  BY <1>2, <1>3
<1>10. PICK used : used = [p \in P |-> AppliedFrom(p)]
  OBVIOUS
<1>11. PICK received : received = [c \in C |-> AppliedTo(c)]
  OBVIOUS
<1>12. /\ DOMAIN used = P /\ \A p \in P : used[p] = SumOf(rows[p])
       /\ DOMAIN received = C /\ \A c \in C : received[c] = SumOf(columns[c])
  BY <1>2, <1>3, <1>10, <1>11 DEF AppliedFrom, AppliedTo
<1>13. SumOf(used) = SumOf(received)
  BY <1>4, <1>5, <1>6, <1>7, <1>8, <1>9, <1>12, BothWays
<1>14. QED BY <1>1, <1>10, <1>11, <1>13

(* The amounts of some payments are what they have left and have used.     *)
LEMMA AmountIsLeftAndUsed ==
  ASSUME Settled, NEW P, P \subseteq Payment
  PROVE  /\ Stated(payment, P) = SumOf([p \in P |-> payment[p].unapplied])
                                  + SumOf([p \in P |-> AppliedFrom(p)])
         /\ SumOf([p \in P |-> payment[p].unapplied]) \in Nat
         /\ SumOf([p \in P |-> AppliedFrom(p)]) \in Nat
<1>1. PICK f : f = [p \in P |-> payment[p].unapplied]
  OBVIOUS
<1>2. PICK g : g = [p \in P |-> AppliedFrom(p)]
  OBVIOUS
<1>3. PICK h : h = [p \in P |-> payment[p].amount]
  OBVIOUS
<1>4. \A p \in Payment : /\ payment[p].unapplied \in Nat /\ AppliedFrom(p) \in Nat
                         /\ payment[p].amount = payment[p].unapplied + AppliedFrom(p)
  BY AppliedTypes DEF Settled, TypeOK, PaymentRow, MoneyInv, MoneyConserved
<1>5. IsFiniteSet(P)
  BY FiniteAssumption, FS_Subset
<1>6. \A p \in P : f[p] \in Nat /\ g[p] \in Nat /\ h[p] = f[p] + g[p]
  BY <1>1, <1>2, <1>3, <1>4
<1>7. DOMAIN f = P /\ DOMAIN g = P /\ DOMAIN h = P
  BY <1>1, <1>2, <1>3
<1>8. SumOf(h) = SumOf(f) + SumOf(g)
  BY <1>5, <1>6, <1>7, SumPlus
<1>9. SumOf(f) \in Nat /\ SumOf(g) \in Nat
  BY <1>5, <1>6, <1>7, SumType DEF Amounts
<1>10. QED BY <1>1, <1>2, <1>3, <1>8, <1>9 DEF Stated

LEMMA ChargeSums ==
  ASSUME Settled, NEW C, C \subseteq Charge
  PROVE  /\ IsFiniteSet(C)
         /\ Stated(charge, C) \in Nat
         /\ SumOf([c \in C |-> AppliedTo(c)]) \in Nat
         /\ Pending(C) \in Nat
         /\ \A c \in C : /\ charge[c].amount \in Nat /\ AppliedTo(c) \in Nat
                         /\ Remaining(c) \in Nat
                         /\ charge[c].amount = AppliedTo(c) + Remaining(c)
<1>1. IsFiniteSet(C)
  BY FiniteAssumption, FS_Subset
<1>2. \A c \in C : /\ charge[c].amount \in Nat /\ AppliedTo(c) \in Nat
                   /\ AppliedTo(c) <= charge[c].amount
  BY AppliedTypes DEF Settled, TypeOK, ChargeRow, MoneyInv, NeverOverApplied
<1>3. \A c \in C : /\ Remaining(c) \in Nat
                   /\ charge[c].amount = AppliedTo(c) + Remaining(c)
  BY <1>2 DEF Remaining
<1>4. /\ Amounts([c \in C |-> charge[c].amount])
      /\ Amounts([c \in C |-> AppliedTo(c)])
      /\ Amounts([c \in C |-> Remaining(c)])
  BY <1>1, <1>2, <1>3 DEF Amounts
<1>5. QED BY <1>1, <1>2, <1>3, <1>4, SumType DEF Stated, Pending

LEMMA SettledBalances == Settled => BalancesAgree
<1>1. ASSUME Settled, NEW u \in Unit
      PROVE  ClosingBalance(u) = CurrentBalance(u)
  <2>1. PICK P : P = ValidPayments(u)
    OBVIOUS
  <2>2. /\ P \subseteq Payment
        /\ \A p \in P : PaymentUnit[p] = u
        /\ \A p \in Payment \ P : PaymentUnit[p] = u => PaidBy(p) = {}
    BY <1>1, <2>1
    DEF Settled, RetiredRowsUnused, ValidPayments, TypeOK, PaymentRow, PaymentStatus
  <2>3. PaymentTotal(u) = SumOf([p \in P |-> AppliedFrom(p)])
    BY <1>1, <2>1, <2>2, AmountIsLeftAndUsed DEF PaymentTotal
  <2>4. PaymentTotal(u) =
          SumOf([c \in {c \in Charge : ChargeUnit[c] = u} |-> AppliedTo(c)])
    BY <1>1, <2>2, <2>3, UsedIsReceived
  <2>5. QED BY <2>4 DEF ClosingBalance, CurrentBalance
<1>2. QED BY <1>1 DEF BalancesAgree

(* The two derivations of a unit's balance agree in every reachable state  *)
(* of the ledger, whatever is paid, matched, applied, reversed, edited and *)
(* cancelled.                                                              *)
THEOREM BalancesCorrect == BankLedgerSpec => []BalancesAgree
BY SettledBalances, SettledCorrect, PTL

(* The statement of a unit and its balance differ by the unspent money of  *)
(* the unit, for every unit; the units listed in debt and the dashboard's  *)
(* total over any set of ACTIVE units agree with the statements.           *)
THEOREM StatementsExplained == BankLedgerSpec => []StatementExplained
<1>1. ASSUME Settled, NEW u \in Unit
      PROVE  /\ StatementClosing(u) + Unspent(u) = CurrentBalance(u)
             /\ StatementClosing(u) \in Int /\ Unspent(u) \in Nat
  <2>1. PICK P : P = StatedPayments(u)
    OBVIOUS
  <2>2. /\ P \subseteq Payment
        /\ \A p \in P : PaymentUnit[p] = u
        /\ \A p \in Payment \ P : PaymentUnit[p] = u => PaidBy(p) = {}
    BY <1>1, <2>1 DEF Settled, RetiredRowsUnused, StatedPayments
  <2>3. PICK left, used, paid :
          /\ left = Unspent(u) /\ left = SumOf([p \in P |-> payment[p].unapplied])
          /\ used = SumOf([p \in P |-> AppliedFrom(p)])
          /\ paid = Stated(payment, P)
    BY <2>1 DEF Unspent
  <2>4. left \in Nat /\ used \in Nat /\ paid = left + used
    BY <1>1, <2>2, <2>3, AmountIsLeftAndUsed
  <2>5. used = SumOf([c \in {c \in Charge : ChargeUnit[c] = u} |-> AppliedTo(c)])
    BY <1>1, <2>2, <2>3, UsedIsReceived
  <2>6. \A movement \in Movement :
          StatedCharges(u, movement, None) =
            {c \in ChargesOf(u) : charge[c].movement = movement}
    BY DEF StatedCharges
  <2>7. PICK debits, credits :
          /\ debits = Posted(u, "DEBIT") /\ credits = Posted(u, "CREDIT")
    OBVIOUS
  <2>8. debits \in Nat /\ credits \in Nat
    <3>1. \A movement : {c \in ChargesOf(u) : charge[c].movement = movement} \subseteq Charge
      BY DEF ChargesOf
    <3>2. QED BY <1>1, <2>7, <3>1, ChargeSums DEF Posted
  <2>9. StatementClosing(u) = debits - credits - paid
    BY <2>1, <2>3, <2>6, <2>7 DEF StatementClosing, Statement, Posted, Movement
  <2>10. CurrentBalance(u) = debits - credits - used
    BY <2>5, <2>7 DEF CurrentBalance
  <2>11. QED BY <2>3, <2>4, <2>8, <2>9, <2>10
<1>2. ASSUME Settled PROVE StatementExplained
  <2>1. \A u \in Unit : StatementClosing(u) + Unspent(u) = CurrentBalance(u)
    BY <1>1, <1>2
  <2>2. \A u \in Unit : StatementClosing(u) > 0 => u \in UnitsWithDebt
    BY <1>1, <1>2 DEF UnitsWithDebt
  <2>3. ASSUME NEW active \in SUBSET Unit
        PROVE  OutstandingBalance(active) = 0 <=>
                 \A u \in active : StatementClosing(u) + Unspent(u) <= 0
    <3>1. PICK D : D = active \cap UnitsWithDebt
      OBVIOUS
    <3>2. PICK debts : debts = [u \in D |-> CurrentBalance(u)]
      OBVIOUS
    <3>3. \A u \in Unit : /\ CurrentBalance(u) \in Int
                         /\ CurrentBalance(u) = StatementClosing(u) + Unspent(u)
      BY <1>1, <1>2
    <3>4. /\ D \subseteq Unit /\ IsFiniteSet(D)
          /\ \A u \in active : u \in D <=> CurrentBalance(u) > 0
      BY <2>3, <3>1, UnitsAssumption, FS_Subset DEF UnitsWithDebt
    <3>5. DOMAIN debts = D /\ \A u \in D : debts[u] \in Nat /\ debts[u] > 0
      <4>1. ASSUME NEW u \in D PROVE CurrentBalance(u) \in Int /\ CurrentBalance(u) > 0
        BY <3>1, <3>3, <3>4 DEF UnitsWithDebt
      <4>2. QED BY <3>2, <4>1
    <3>6. SumOf(debts) = 0 <=> D = {}
      <4>1. SumOf(debts) = 0 <=> \A u \in D : debts[u] = 0
        BY <3>4, <3>5, SumNothing DEF Amounts
      <4>2. QED BY <3>5, <4>1
    <3>7. OutstandingBalance(active) = SumOf(debts)
      BY <3>1, <3>2 DEF OutstandingBalance
    <3>8. D = {} <=> \A u \in active : ~(CurrentBalance(u) > 0)
      BY <3>1, <3>4
    <3>9. \A u \in active : ~(CurrentBalance(u) > 0) <=> StatementClosing(u) + Unspent(u) <= 0
      BY <2>3, <3>3
    <3>10. QED BY <3>6, <3>7, <3>8, <3>9
  <2>4. QED BY <2>1, <2>2, <2>3 DEF StatementExplained
<1>3. QED BY <1>2, SettledCorrect, PTL

-----------------------------------------------------------------------------
(* What charges still lack is nothing for those that are PAID and for      *)
(* those worth nothing, and for no other.                                  *)
LEMMA PendingNothing ==
  ASSUME Settled, NEW C, C \subseteq Charge
  PROVE  /\ Pending(C) = 0 <=> \A c \in C : Remaining(c) = 0
         /\ Pending(C) > 0 <=> \E c \in C : Remaining(c) > 0
<1>1. PICK f : f = [c \in C |-> Remaining(c)]
  OBVIOUS
<1>2. Amounts(f)
  BY <1>1, ChargeSums DEF Amounts
<1>3. QED BY <1>1, <1>2, SumNothing DEF Pending

(* The past-due balance misses no debt, whatever dates charges have.       *)
THEOREM PastDueCorrect == BankLedgerSpec => []PastDueIsOwed
<1>1. ASSUME Settled, NEW u \in Unit, NEW now \in Days, NEW owed,
             owed = {c \in ChargesOf(u) : PastDue(c, now) /\ charge[c].movement = "DEBIT"}
      PROVE  /\ PastDueBalance(u, now) = Pending(owed)
             /\ PastDueBalance(u, now) > 0 <=> \E c \in owed : Remaining(c) > 0
  <2>1. owed \subseteq Charge
    BY <1>1 DEF ChargesOf
  <2>2. PICK open : open = {c \in owed : charge[c].status \in {"PENDING", "PARTIALLY_PAID"}}
    OBVIOUS
  <2>3. PastDueBalance(u, now) = Pending(open)
    <3>1. open = {c \in ChargesOf(u) :
                    /\ charge[c].movement = "DEBIT"
                    /\ charge[c].status \in {"PENDING", "PARTIALLY_PAID"}
                    /\ PastDue(c, now)}
      BY <1>1, <2>2
    <3>2. QED BY <3>1 DEF PastDueBalance
  <2>4. \A c \in owed \ open : Remaining(c) = 0
    BY <1>1, <2>1, <2>2
    DEF ChargesOf, Settled, MoneyInv, ChargeStatusDerived, TypeOK, ChargeRow, ChargeStatus
  <2>5. PICK f : f = [c \in owed |-> Remaining(c)]
    OBVIOUS
  <2>6. PICK g : g = [c \in open |-> Remaining(c)]
    OBVIOUS
  <2>7. PICK h : h = [c \in owed \ open |-> Remaining(c)]
    OBVIOUS
  <2>8. Amounts(f)
    BY <1>1, <2>1, <2>5, ChargeSums DEF Amounts
  <2>9. SumOf(f) = SumOf(g) + SumOf(h)
    <3>1. /\ DOMAIN g = DOMAIN f \ DOMAIN h /\ DOMAIN h \subseteq DOMAIN f
          /\ \A c \in DOMAIN g : g[c] = f[c]
          /\ \A c \in DOMAIN h : h[c] = f[c]
      BY <2>2, <2>5, <2>6, <2>7
    <3>2. QED BY <2>8, <3>1, SumSplit
  <2>10. SumOf(h) = 0
    <3>1. Amounts(h)
      BY <2>5, <2>7, <2>8, AmountsPart
    <3>2. QED BY <2>4, <2>7, <3>1, SumNothing
  <2>11. SumOf(g) \in Nat
    BY <2>2, <2>5, <2>6, <2>8, AmountsPart, SumType
  <2>12. Pending(open) = Pending(owed)
    BY <2>5, <2>6, <2>9, <2>10, <2>11 DEF Pending
  <2>13. QED BY <1>1, <2>1, <2>3, <2>12, PendingNothing
<1>2. ASSUME Settled PROVE PastDueIsOwed
  <2>1. ASSUME NEW now \in Days, NEW u \in Unit
        PROVE  LET owed == {c \in ChargesOf(u) : /\ PastDue(c, now)
                                                /\ charge[c].movement = "DEBIT"}
               IN  /\ PastDueBalance(u, now) = Pending(owed)
                   /\ PastDueBalance(u, now) > 0 <=> \E c \in owed : Remaining(c) > 0
    BY <1>1, <1>2
  <2>2. QED BY <2>1 DEF PastDueIsOwed, DelinquentUnits
<1>3. QED BY <1>2, SettledCorrect, PTL

(* A period's summary adds up, for every period and whichever units are    *)
(* ACTIVE when its statements are listed.                                  *)
THEOREM SummaryCorrect == BankLedgerSpec => []SummaryAddsUp
<1>1. ASSUME Settled, NEW b \in Period, NEW C, C = PeriodCharges(b)
      PROVE  TotalCollected(b) + TotalPending(b) = TotalCharged(b)
  <2>1. C \subseteq Charge
    BY <1>1 DEF PeriodCharges
  <2>2. PICK f : f = [c \in C |-> AppliedTo(c)]
    OBVIOUS
  <2>3. PICK g : g = [c \in C |-> Remaining(c)]
    OBVIOUS
  <2>4. PICK h : h = [c \in C |-> charge[c].amount]
    OBVIOUS
  <2>5. \A c \in C : f[c] \in Nat /\ g[c] \in Nat /\ h[c] = f[c] + g[c]
    BY <1>1, <2>1, <2>2, <2>3, <2>4, ChargeSums
  <2>6. DOMAIN f = C /\ DOMAIN g = C /\ DOMAIN h = C /\ IsFiniteSet(C)
    BY <1>1, <2>1, <2>2, <2>3, <2>4, ChargeSums
  <2>7. SumOf(h) = SumOf(f) + SumOf(g)
    BY <2>5, <2>6, SumPlus
  <2>8. QED BY <1>1, <2>2, <2>3, <2>4, <2>7
            DEF TotalCollected, TotalPending, TotalCharged, Pending, Stated
<1>2. ASSUME Settled, NEW b \in Period, NEW u \in Unit
      PROVE  LET of == {c \in PeriodCharges(b) : ChargeUnit[c] = u}
             IN  Statement(u, b).charges + Statement(u, b).credits = Stated(charge, of)
  <2>1. PICK of, debits, credits :
          /\ of = {c \in PeriodCharges(b) : ChargeUnit[c] = u}
          /\ debits = StatedCharges(u, "DEBIT", b) /\ credits = StatedCharges(u, "CREDIT", b)
    OBVIOUS
  <2>2. b # None
    BY ConstantsAssumption
  <2>3. /\ of \subseteq Charge
        /\ debits = {c \in of : charge[c].movement = "DEBIT"}
        /\ credits = {c \in of : charge[c].movement = "CREDIT"}
    BY <2>1, <2>2 DEF StatedCharges, ChargesOf, PeriodCharges
  <2>4. debits = of \ credits /\ credits \subseteq of
    BY <1>2, <2>3 DEF Settled, TypeOK, ChargeRow, Movement
  <2>5. PICK f : f = [c \in of |-> charge[c].amount]
    OBVIOUS
  <2>6. PICK g : g = [c \in debits |-> charge[c].amount]
    OBVIOUS
  <2>7. PICK h : h = [c \in credits |-> charge[c].amount]
    OBVIOUS
  <2>8. Amounts(f)
    BY <1>2, <2>3, <2>5, ChargeSums DEF Amounts
  <2>9. SumOf(f) = SumOf(g) + SumOf(h)
    <3>1. /\ DOMAIN g = DOMAIN f \ DOMAIN h /\ DOMAIN h \subseteq DOMAIN f
          /\ \A c \in DOMAIN g : g[c] = f[c]
          /\ \A c \in DOMAIN h : h[c] = f[c]
      BY <2>4, <2>5, <2>6, <2>7
    <3>2. QED BY <2>8, <3>1, SumSplit
  <2>10. QED BY <2>1, <2>5, <2>6, <2>7, <2>9 DEF Statement, Stated
<1>3. ASSUME Settled, NEW b \in Period, NEW active \in SUBSET Unit, NEW C, NEW D,
             C = {c \in PeriodCharges(b) : ChargeUnit[c] \in active},
             D = {c \in PeriodCharges(b) : ChargeUnit[c] \notin active}
      PROVE  SumOf([u \in active |-> Statement(u, b).charges + Statement(u, b).credits])
               + Stated(charge, D) = TotalCharged(b)
  <2>1. PICK rows :
          rows = [u \in active |->
                    [c \in {c \in C : ChargeUnit[c] = u} |-> charge[c].amount]]
    OBVIOUS
  <2>2. PICK columns : columns = [c \in C |-> [u \in {ChargeUnit[c]} |-> charge[c].amount]]
    OBVIOUS
  <2>3. PICK across :
          across = [u \in active |->
                      Statement(u, b).charges + Statement(u, b).credits]
    OBVIOUS
  <2>4. PICK down : down = [c \in C |-> charge[c].amount]
    OBVIOUS
  <2>5. /\ C \subseteq Charge /\ IsFiniteSet(C) /\ IsFiniteSet(active)
        /\ \A c \in C : charge[c].amount \in Nat /\ ChargeUnit[c] \in active
    BY <1>3, ChargeSums, UnitsAssumption, FS_Subset DEF PeriodCharges
  <2>6. \A u \in active : Amounts(rows[u]) /\ DOMAIN rows[u] \subseteq C
    BY <2>1, <2>5, FS_Subset DEF Amounts
  <2>7. \A c \in C : Amounts(columns[c]) /\ DOMAIN columns[c] \subseteq active
    BY <2>2, <2>5, FS_Singleton DEF Amounts
  <2>8. \A u \in active, c \in C :
          /\ c \in DOMAIN rows[u] <=> u \in DOMAIN columns[c]
          /\ c \in DOMAIN rows[u] => rows[u][c] = columns[c][u]
    BY <2>1, <2>2
  <2>9. DOMAIN across = active /\ \A u \in active : across[u] = SumOf(rows[u])
    <3>1. ASSUME NEW u \in active PROVE across[u] = SumOf(rows[u])
      <4>1. {c \in C : ChargeUnit[c] = u} = {c \in PeriodCharges(b) : ChargeUnit[c] = u}
        BY <1>3
      <4>2. u \in Unit
        BY <1>3
      <4>3. across[u] = Stated(charge, {c \in C : ChargeUnit[c] = u})
        BY <1>2, <1>3, <2>3, <4>1, <4>2
      <4>4. QED BY <2>1, <4>3 DEF Stated
    <3>2. QED BY <2>3, <3>1
  <2>10. DOMAIN down = C /\ \A c \in C : down[c] = SumOf(columns[c])
    <3>1. \A c \in C : /\ DOMAIN columns[c] = {ChargeUnit[c]}
                       /\ columns[c][ChargeUnit[c]] = charge[c].amount
      BY <2>2
    <3>2. \A c \in C : SumOf(columns[c]) = charge[c].amount
      BY <2>5, <3>1, SumOne
    <3>3. QED BY <2>4, <3>2
  <2>11. DOMAIN rows = active /\ DOMAIN columns = C
    BY <2>1, <2>2
  <2>12. SumOf(across) = SumOf(down)
    BY <2>5, <2>6, <2>7, <2>8, <2>9, <2>10, <2>11, BothWays
  <2>13. PICK all : all = [c \in PeriodCharges(b) |-> charge[c].amount]
    OBVIOUS
  <2>14. PICK rest : rest = [c \in D |-> charge[c].amount]
    OBVIOUS
  <2>15. Amounts(all)
    <3>1. PeriodCharges(b) \subseteq Charge
      BY DEF PeriodCharges
    <3>2. QED BY <1>3, <2>13, <3>1, ChargeSums DEF Amounts
  <2>16. SumOf(all) = SumOf(down) + SumOf(rest)
    <3>1. /\ DOMAIN down = DOMAIN all \ DOMAIN rest /\ DOMAIN rest \subseteq DOMAIN all
          /\ \A c \in DOMAIN down : down[c] = all[c]
          /\ \A c \in DOMAIN rest : rest[c] = all[c]
      BY <1>3, <2>4, <2>13, <2>14
    <3>2. QED BY <2>15, <3>1, SumSplit
  <2>17. QED BY <2>3, <2>12, <2>13, <2>14, <2>16 DEF TotalCharged, Stated
<1>4. ASSUME Settled, NEW b \in Period
      PROVE  TotalPending(b) = 0 <=>
               \A c \in PeriodCharges(b) : charge[c].status = "PAID" \/ charge[c].amount = 0
  <2>1. PeriodCharges(b) \subseteq Charge
    BY DEF PeriodCharges
  <2>2. ASSUME NEW c \in PeriodCharges(b)
        PROVE  Remaining(c) = 0 <=> charge[c].status = "PAID" \/ charge[c].amount = 0
    <3>1. /\ charge[c].amount \in Nat /\ AppliedTo(c) \in Nat /\ Remaining(c) \in Nat
          /\ charge[c].amount = AppliedTo(c) + Remaining(c)
      BY <1>4, <2>1, ChargeSums
    <3>2. charge[c].status = "PAID" <=> Payers(c) # {} /\ Remaining(c) = 0
      BY <1>4, <2>1 DEF Settled, MoneyInv, ChargeStatusDerived
    <3>3. Payers(c) = {} => AppliedTo(c) = 0
      BY SumEmpty DEF AppliedTo
    <3>4. QED BY <3>1, <3>2, <3>3
  <2>3. TotalPending(b) = 0 <=> \A c \in PeriodCharges(b) : Remaining(c) = 0
    BY <1>4, <2>1, PendingNothing DEF TotalPending
  <2>4. QED BY <2>2, <2>3
<1>5. ASSUME Settled PROVE SummaryAddsUp
  <2>1. ASSUME NEW b \in Period, NEW active \in SUBSET Unit, NEW rows,
               rows = PeriodStatements(b, active)
        PROVE  SumOf([u \in active |-> rows[u].charges + rows[u].credits])
                 + Stated(charge, {c \in PeriodCharges(b) : ChargeUnit[c] \notin active})
                   = TotalCharged(b)
    <3>1. \A u \in active : rows[u] = Statement(u, b)
      BY <2>1 DEF PeriodStatements
    <3>2. SumOf([u \in active |-> rows[u].charges + rows[u].credits])
            = SumOf([u \in active |-> Statement(u, b).charges + Statement(u, b).credits])
      BY <3>1, SumSame
    <3>3. QED BY <1>3, <1>5, <3>2
  <2>2. QED BY <1>1, <1>4, <1>5, <2>1 DEF SummaryAddsUp, Collection
<1>6. QED BY <1>5, SettledCorrect, PTL
=============================================================================
