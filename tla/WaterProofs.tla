---------------------------- MODULE WaterProofs -----------------------------
(***************************************************************************)
(* The water module, for every number of units, months, tariffs, meters    *)
(* and payments and all prices, levels, bills and adjustments: what a      *)
(* calculation leaves is priced by the period's tariff, adds up, and is    *)
(* what the units are charged.                                             *)
(*                                                                         *)
(* First the engine, then what each part of the module does to the columns *)
(* the others rely on, and last the inductive invariant, WaterInv.         *)
(***************************************************************************)
EXTENDS WaterBilling, MoneyProofs, WellFoundedInduction

-----------------------------------------------------------------------------
(* The engine: a price is an integer, and off by what its rounding allows. *)

(* tier is the row of the table a consumption falls into.                  *)
LEMMA ExactPrice ==
  ASSUME NEW input \in TariffInput, NEW k \in Int, Priced(k, input)
  PROVE  ExactAmount(k, input) \in Int
<1>1. PICK tier : tier = CHOOSE row \in RowsFor(k, input) : TRUE
  OBVIOUS
<1>2. tier \in RowsFor(k, input)
  BY <1>1 DEF Priced
<1>3. tier \in TierRow
  BY <1>2 DEF RowsFor, TariffInput
<1>4. LookupKey(k, input) \in Int
  <2>1. Max({k, input.minimum}) \in Int
    <3>1. PICK a : a = input.minimum
      OBVIOUS
    <3>2. a \in Int
      BY <3>1 DEF TariffInput
    <3>3. \E x \in {k, a} : \A y \in {k, a} : x >= y
      <4>1. CASE k >= a
        BY <3>2, <4>1
      <4>2. CASE ~(k >= a)
        BY <3>2, <4>2
      <4>3. QED BY <4>1, <4>2
    <3>4. Max({k, a}) \in {k, a}
      BY <3>3 DEF Max
    <3>5. QED BY <3>1, <3>2, <3>4
  <2>2. QED BY <2>1 DEF LookupKey, CubicMetre
<1>5. TierAmount(tier, LookupKey(k, input)) \in Int
  <2>1. PICK key : key = LookupKey(k, input)
    OBVIOUS
  <2>2. /\ tier.fixed \in Nat /\ tier.perM3 \in Nat /\ key \in Int
        /\ key * tier.perM3 \in Int
    BY <1>3, <1>4, <2>1 DEF TierRow
  <2>3. TierAmount(tier, key) \in Int
    BY <2>2 DEF TierAmount
  <2>4. QED BY <2>1, <2>3
<1>6. Subtotal(k, input) \in Int
  BY <1>1, <1>5 DEF Subtotal, TariffInput
<1>7. input.percent \in Nat /\ input.discount \in Nat
  BY DEF TariffInput
<1>8. QED BY <1>6, <1>7 DEF ExactAmount, Scale

LEMMA RoundedNear ==
  ASSUME NEW q \in Int, NEW n \in Int, NEW mode \in RoundingMode,
         NEW gap, gap = q * 10000 - n,
         \/ mode = "FLOOR" /\ -10000 < gap /\ gap <= 0
         \/ mode = "CEIL" /\ 0 <= gap /\ gap < 10000
         \/ /\ mode \in {"HALF_UP", "HALF_EVEN"}
            /\ -10000 <= 2 * gap /\ 2 * gap <= 10000
  PROVE  RoundingAllows(q, n, mode)
<1>1. PICK scale : scale = Scale
  OBVIOUS
<1>2. scale = 10000
  BY <1>1 DEF Scale
<1>3. gap = q * scale - n /\ gap \in Int /\ scale \in Int
  BY <1>2
<1>4. /\ mode = "FLOOR" => 1 - scale <= gap /\ gap <= 0
      /\ mode = "CEIL" => 0 <= gap /\ gap <= scale - 1
      /\ mode \in {"HALF_UP", "HALF_EVEN"} => -scale <= 2 * gap /\ 2 * gap <= scale
  BY <1>2, <1>3
<1>5. /\ mode = "FLOOR" => gap \in (1 - scale)..0
      /\ mode = "CEIL" => gap \in 0..(scale - 1)
  BY <1>3, <1>4
<1>6. mode \in {"HALF_UP", "HALF_EVEN"} => 2 * gap \in (-scale)..scale
  <2>1. 2 * gap \in Int /\ -scale \in Int
    BY <1>3
  <2>2. QED BY <1>3, <1>4, <2>1
<1>7. /\ mode = "FLOOR" => q * Scale - n \in (1 - Scale)..0
      /\ mode = "CEIL" => q * Scale - n \in 0..(Scale - 1)
      /\ mode \in {"HALF_UP", "HALF_EVEN"} => 2 * (q * Scale - n) \in (-Scale)..Scale
  BY <1>1, <1>3, <1>4, <1>5, <1>6
<1>8. QED BY <1>7 DEF RoundingAllows

LEMMA Rounded ==
  ASSUME NEW n \in Int, NEW mode \in RoundingMode
  PROVE  /\ RoundDiv(n, Scale, mode) \in Int
         /\ RoundingAllows(RoundDiv(n, Scale, mode), n, mode)
<1>1. PICK q, gap : q = RoundDiv(n, Scale, mode) /\ gap = q * 10000 - n
  OBVIOUS
<1>2. CASE mode = "HALF_UP"
  <2>1. q = HalfUp(n, 10000)
    BY <1>1, <1>2 DEF RoundDiv, Scale
  <2>2. q \in Int /\ -10000 <= 2 * gap /\ 2 * gap <= 10000
    BY <1>1, <2>1 DEF HalfUp
  <2>3. QED BY <1>1, <1>2, <2>2, RoundedNear
<1>3. CASE mode = "HALF_EVEN"
  <2>1. q = HalfEven(n, 10000)
    BY <1>1, <1>3 DEF RoundDiv, Scale
  <2>2. q \in Int /\ -10000 <= 2 * gap /\ 2 * gap <= 10000
    BY <1>1, <2>1 DEF HalfEven
  <2>3. QED BY <1>1, <1>3, <2>2, RoundedNear
<1>4. CASE mode = "FLOOR"
  <2>1. q = n \div 10000
    BY <1>1, <1>4 DEF RoundDiv, Scale
  <2>2. q \in Int /\ -10000 < gap /\ gap <= 0
    BY <1>1, <2>1
  <2>3. QED BY <1>1, <1>4, <2>2, RoundedNear
<1>5. CASE mode = "CEIL"
  <2>1. q = -((-n) \div 10000)
    BY <1>1, <1>5 DEF RoundDiv, Scale
  <2>2. q \in Int /\ 0 <= gap /\ gap < 10000
    BY <1>1, <2>1
  <2>3. QED BY <1>1, <1>5, <2>2, RoundedNear
<1>6. QED BY <1>2, <1>3, <1>4, <1>5 DEF RoundingMode

LEMMA WaterPrice ==
  ASSUME NEW input \in TariffInput, NEW k \in Int, Priced(k, input)
  PROVE  /\ WaterAmount(k, input) \in Int
         /\ RoundingAllows(WaterAmount(k, input), ExactAmount(k, input), input.rounding)
<1>1. input.rounding \in RoundingMode
  BY DEF TariffInput
<1>2. QED BY <1>1, ExactPrice, Rounded DEF WaterAmount

(* What is charged to each of d units recovers n to half a cent per unit.  *)
LEMMA HalfUpNear ==
  ASSUME NEW n \in Nat, NEW d \in Nat \ {0}
  PROVE  /\ HalfUp(n, d) \in Nat
         /\ 2 * (HalfUp(n, d) * d - n) <= d
         /\ 2 * (n - HalfUp(n, d) * d) <= d
<1>1. PICK q, e : q = (2 * n + d) \div e /\ e = 2 * d
  OBVIOUS
<1>2. q \in Int /\ e * q <= 2 * n + d /\ 2 * n + d < e * q + e
  BY <1>1
<1>3. e * q = 2 * (q * d) /\ q * d \in Int
  BY <1>1, <1>2
<1>4. q >= 0
  BY <1>1
<1>5. HalfUp(n, d) = q
  BY <1>1 DEF HalfUp
<1>6. QED BY <1>1, <1>2, <1>3, <1>4, <1>5
-----------------------------------------------------------------------------
(* Sums of amounts some of which are below zero.                           *)

Whole(f) == IsFiniteSet(DOMAIN f) /\ \A x \in DOMAIN f : f[x] \in Int

Above(f) == [x \in DOMAIN f |-> IF f[x] > 0 THEN f[x] ELSE 0]
Below(f) == [x \in DOMAIN f |-> IF f[x] < 0 THEN -f[x] ELSE 0]

LEMMA TotalParts ==
  ASSUME NEW f, Whole(f)
  PROVE  /\ Amounts(Above(f)) /\ Amounts(Below(f))
         /\ Total(f) = SumOf(Above(f)) - SumOf(Below(f))
         /\ Total(f) \in Int
<1>1. PICK above, below, minus :
        /\ above = Above(f) /\ below = Below(f)
        /\ minus = [x \in DOMAIN f |-> -f[x]]
  OBVIOUS
<1>2. /\ DOMAIN above = DOMAIN f /\ DOMAIN below = DOMAIN f /\ DOMAIN minus = DOMAIN f
      /\ \A x \in DOMAIN f :
           /\ above[x] = IF f[x] > 0 THEN f[x] ELSE 0
           /\ below[x] = IF f[x] < 0 THEN -f[x] ELSE 0
           /\ minus[x] = -f[x] /\ f[x] \in Int
  BY <1>1 DEF Above, Below, Whole
<1>3. Amounts(above) /\ Amounts(below)
  BY <1>2 DEF Amounts, Whole
<1>4. \A x \in DOMAIN f : 1..f[x] = 1..above[x] /\ 1..minus[x] = 1..below[x]
  BY <1>2
<1>5. Cents(f) = Cents(above) /\ Cents(minus) = Cents(below)
  BY <1>2, <1>4 DEF Cents
<1>6. SumOf(above) \in Nat /\ SumOf(below) \in Nat
  BY <1>3, SumType
<1>7. Total(f) = SumOf(above) - SumOf(below)
  BY <1>1, <1>5 DEF Total, SumOf
<1>8. QED BY <1>1, <1>3, <1>6, <1>7

LEMMA TotalSame ==
  ASSUME NEW f, NEW g, DOMAIN f = DOMAIN g, \A x \in DOMAIN f : f[x] = g[x]
  PROVE  Total(f) = Total(g)
<1>1. Cents(f) = Cents(g)
  BY DEF Cents
<1>2. PICK h, k : /\ h = [x \in DOMAIN f |-> -f[x]]
                  /\ k = [x \in DOMAIN g |-> -g[x]]
  OBVIOUS
<1>3. Cents(h) = Cents(k)
  BY <1>2 DEF Cents
<1>4. QED BY <1>1, <1>2, <1>3 DEF Total, SumOf

LEMMA TotalPlus ==
  ASSUME NEW f, NEW g, NEW h, Whole(f), Whole(g),
         DOMAIN g = DOMAIN f, DOMAIN h = DOMAIN f,
         \A x \in DOMAIN f : h[x] = f[x] + g[x]
  PROVE  Whole(h) /\ Total(h) = Total(f) + Total(g)
<1>1. Whole(h)
  BY DEF Whole
<1>2. PICK A, fa, fb, ga, gb, ha, hb :
        /\ A = DOMAIN f
        /\ fa = Above(f) /\ fb = Below(f)
        /\ ga = Above(g) /\ gb = Below(g)
        /\ ha = Above(h) /\ hb = Below(h)
  OBVIOUS
<1>3. /\ IsFiniteSet(A)
      /\ DOMAIN fa = A /\ DOMAIN fb = A /\ DOMAIN ga = A
      /\ DOMAIN gb = A /\ DOMAIN ha = A /\ DOMAIN hb = A
      /\ \A x \in A :
           /\ fa[x] = (IF f[x] > 0 THEN f[x] ELSE 0)
           /\ fb[x] = (IF f[x] < 0 THEN -f[x] ELSE 0)
           /\ ga[x] = (IF g[x] > 0 THEN g[x] ELSE 0)
           /\ gb[x] = (IF g[x] < 0 THEN -g[x] ELSE 0)
           /\ ha[x] = (IF h[x] > 0 THEN h[x] ELSE 0)
           /\ hb[x] = (IF h[x] < 0 THEN -h[x] ELSE 0)
  BY <1>2 DEF Above, Below, Whole
<1>4. \A x \in A : /\ f[x] \in Int /\ g[x] \in Int /\ h[x] = f[x] + g[x]
                   /\ fa[x] \in Nat /\ fb[x] \in Nat /\ ga[x] \in Nat
                   /\ gb[x] \in Nat /\ ha[x] \in Nat /\ hb[x] \in Nat
                   /\ fa[x] + ga[x] + hb[x] = fb[x] + gb[x] + ha[x]
  <2> SUFFICES ASSUME NEW x \in A
               PROVE  /\ f[x] \in Int /\ g[x] \in Int /\ h[x] = f[x] + g[x]
                      /\ fa[x] \in Nat /\ fb[x] \in Nat /\ ga[x] \in Nat
                      /\ gb[x] \in Nat /\ ha[x] \in Nat /\ hb[x] \in Nat
                      /\ fa[x] + ga[x] + hb[x] = fb[x] + gb[x] + ha[x]
    OBVIOUS
  <2>1. f[x] \in Int /\ g[x] \in Int /\ h[x] = f[x] + g[x]
    BY <1>2 DEF Whole
  <2>2. QED BY <1>3, <2>1
<1>5. PICK p, q, pa, qa :
        /\ p = [x \in A |-> fa[x] + ga[x]] /\ q = [x \in A |-> fb[x] + gb[x]]
        /\ pa = [x \in A |-> p[x] + hb[x]] /\ qa = [x \in A |-> q[x] + ha[x]]
  OBVIOUS
<1>6. /\ DOMAIN p = A /\ DOMAIN q = A /\ DOMAIN pa = A /\ DOMAIN qa = A
      /\ \A x \in A : /\ p[x] = fa[x] + ga[x] /\ q[x] = fb[x] + gb[x]
                      /\ p[x] \in Nat /\ q[x] \in Nat
                      /\ pa[x] = p[x] + hb[x] /\ qa[x] = q[x] + ha[x]
                      /\ pa[x] = qa[x]
  BY <1>4, <1>5
<1>7. SumOf(p) = SumOf(fa) + SumOf(ga) /\ SumOf(q) = SumOf(fb) + SumOf(gb)
  BY <1>3, <1>4, <1>6, SumPlus
<1>8. SumOf(pa) = SumOf(p) + SumOf(hb) /\ SumOf(qa) = SumOf(q) + SumOf(ha)
  BY <1>3, <1>4, <1>6, SumPlus
<1>9. SumOf(pa) = SumOf(qa)
  BY <1>6, SumSame
<1>10. /\ SumOf(fa) \in Nat /\ SumOf(fb) \in Nat /\ SumOf(ga) \in Nat
       /\ SumOf(gb) \in Nat /\ SumOf(ha) \in Nat /\ SumOf(hb) \in Nat
  BY <1>3, <1>4, SumType DEF Amounts
<1>11. /\ Total(f) = SumOf(fa) - SumOf(fb) /\ Total(g) = SumOf(ga) - SumOf(gb)
       /\ Total(h) = SumOf(ha) - SumOf(hb)
  BY <1>1, <1>2, TotalParts
<1>12. QED BY <1>1, <1>7, <1>8, <1>9, <1>10, <1>11

(* What every member is charged alike.                                     *)
LEMMA TotalEach ==
  ASSUME NEW A, IsFiniteSet(A), NEW k \in Nat, NEW f, DOMAIN f = A,
         \A x \in A : f[x] = k
  PROVE  Whole(f) /\ Total(f) = k * Cardinality(A)
<1>1. Whole(f) /\ Amounts(f)
  BY DEF Whole, Amounts
<1>2. Total(f) = SumOf(f)
  <2>1. PICK above, below : above = Above(f) /\ below = Below(f)
    OBVIOUS
  <2>2. /\ DOMAIN above = A /\ DOMAIN below = A
        /\ \A x \in A : above[x] = f[x] /\ below[x] = 0
    BY <2>1 DEF Above, Below
  <2>3. SumOf(above) = SumOf(f)
    BY <2>2, SumSame
  <2>4. SumOf(below) = 0
    BY <2>2, SumNothing DEF Amounts
  <2>5. Total(f) = SumOf(above) - SumOf(below) /\ SumOf(f) \in Nat
    BY <1>1, <2>1, TotalParts, SumType
  <2>6. QED BY <2>3, <2>4, <2>5
<1>3. Cents(f) = A \X (1..k)
  BY DEF Cents
<1>4. PICK T : T = 1..k
  OBVIOUS
<1>5. IsFiniteSet(T) /\ Cardinality(T) = k
  <2>1. /\ IsFiniteSet(1..k)
        /\ Cardinality(1..k) = IF 1 > k THEN 0 ELSE k - 1 + 1
    BY FS_Interval
  <2>2. QED BY <1>4, <2>1
<1>6. Cardinality(A \X T) = Cardinality(A) * Cardinality(T)
  BY <1>5, FS_Product
<1>7. Cardinality(A) \in Nat
  BY FS_CardinalityType
<1>8. SumOf(f) = Cardinality(A) * k
  BY <1>3, <1>4, <1>5, <1>6 DEF SumOf
<1>9. QED BY <1>1, <1>2, <1>7, <1>8
-----------------------------------------------------------------------------
(* Tariffs: what a period refers to exists and has prices.                 *)

LEMMA GreatestIndex ==
  ASSUME NEW n \in Nat, NEW S \in SUBSET (1..n), S # {}
  PROVE  Max(S) \in S
<1>1. PICK T : T = {n - i : i \in S}
  OBVIOUS
<1>2. T \subseteq Nat /\ T # {}
  <2>1. \A i \in S : n - i \in Nat
    OBVIOUS
  <2>2. QED BY <1>1, <2>1
<1>3. \E x \in T : \A y \in T : ~(<<y, x>> \in OpToRel(<, Nat))
  BY <1>2, NatLessThanWellFounded, WFMin
<1>4. PICK x \in T : \A y \in T : ~(y < x)
  BY <1>2, <1>3 DEF OpToRel
<1>5. PICK i \in S : x = n - i
  BY <1>1
<1>6. ASSUME NEW j \in S PROVE i >= j
  <2>1. n - j \in T
    BY <1>1
  <2>2. ~(n - j < n - i)
    BY <1>4, <1>5, <2>1
  <2>3. i \in Int /\ j \in Int
    OBVIOUS
  <2>4. QED BY <2>2, <2>3
<1>7. QED BY <1>6 DEF Max

LEMMA LatestFits ==
  ASSUME NEW rows, NEW order \in Seq(Tariff), Latest(rows, order) # None
  PROVE  /\ Latest(rows, order) \in Tariff
         /\ ForBilling(Latest(rows, order), rows)
<1>1. PICK usable : usable = {i \in DOMAIN order : ForBilling(order[i], rows)}
  OBVIOUS
<1>2. usable # {} /\ Latest(rows, order) = order[Max(usable)]
  BY <1>1 DEF Latest
<1>3. Len(order) \in Nat /\ usable \in SUBSET (1..Len(order))
  BY <1>1
<1>4. Max(usable) \in usable
  BY <1>2, <1>3, GreatestIndex
<1>5. QED BY <1>1, <1>2, <1>4

LEMMA TouchedType ==
  ASSUME NEW order \in Seq(Tariff), NEW t \in Tariff
  PROVE  Touched(order, t) \in Seq(Tariff)
<1>1. PICK rest : rest = Without(order, t)
  OBVIOUS
<1>2. rest \in Seq(Tariff)
  <2>1. CASE \E i \in DOMAIN order : order[i] = t
    <3>1. PICK i : i = CHOOSE j \in DOMAIN order : order[j] = t
      OBVIOUS
    <3>2. i \in 1..Len(order)
      BY <2>1, <3>1
    <3>3. /\ SubSeq(order, 1, i - 1) \in Seq(Tariff)
          /\ SubSeq(order, i + 1, Len(order)) \in Seq(Tariff)
      BY <3>2
    <3>4. QED BY <1>1, <2>1, <3>1, <3>3 DEF Without, RemoveAt
  <2>2. QED BY <1>1, <2>1 DEF Without
<1>3. QED BY <1>1, <1>2 DEF Touched

TariffsFit ==
  /\ \A t \in Tariff :
       IF Exists(t) THEN tariff[t].input \in TariffInput
       ELSE tariff[t].date = None /\ tariff[t].month = None
  /\ \A m \in Month : wperiod[m].tariff # None => Exists(wperiod[m].tariff)
  /\ loaded \in Seq(Tariff)

WaterBase == WaterTypeOK /\ TariffsFit

LEMMA EnsuredFits ==
  ASSUME WaterBase, NEW m \in Month
  PROVE  /\ EnsuredTariff(m) \in Tariff \cup {None}
         /\ EnsuredTariff(m) # None =>
              /\ EnsuredTariff(m) \in Tariff /\ Exists(EnsuredTariff(m))
              /\ tariff[EnsuredTariff(m)].input \in TariffInput
<1>1. PICK t : t = LatestForBilling
  OBVIOUS
<1>2. t # None => t \in Tariff /\ Exists(t)
  BY <1>1, LatestFits DEF LatestForBilling, ForBilling, Exists, WaterBase, TariffsFit
<1>3. wperiod[m].tariff \in Tariff \cup {None}
  BY DEF WaterBase, WaterTypeOK, WPeriodRow
<1>4. wperiod[m].tariff # None => Exists(wperiod[m].tariff)
  BY DEF WaterBase, TariffsFit
<1>5. EnsuredTariff(m) \in {t, wperiod[m].tariff}
      /\ (EnsuredTariff(m) = None \/ Exists(EnsuredTariff(m)))
      /\ EnsuredTariff(m) \in Tariff \cup {None}
  BY <1>1, <1>2, <1>3, <1>4 DEF EnsuredTariff
<1>6. QED BY <1>5 DEF WaterBase, TariffsFit

(* What the handlers of the period row alone do.                           *)
LEMMA PeriodStepFits ==
  ASSUME WaterBase, PeriodStep
  PROVE  /\ WaterBase'
         /\ \A m \in Month : PeriodMade(m) => PeriodMade(m)'
<1>1. UNCHANGED <<vars, tariff, loaded, meter, reading>>
  BY DEF PeriodStep, WPeriodNext, CreateWaterPeriod, UpdateWaterPeriod, CancelWaterPeriod,
         CloseWaterPeriod, ReopenWaterPeriod, SetPeriodStatus
<1>2. ASSUME NEW m \in Month, NEW row \in WPeriodRow, row.status # "ABSENT",
             wperiod' = [wperiod EXCEPT ![m] = row],
             row.tariff # None => Exists(row.tariff)
      PROVE  /\ WaterBase'
             /\ \A k \in Month : PeriodMade(k) => PeriodMade(k)'
  <2>1. wperiod' \in [Month -> WPeriodRow]
    BY <1>2 DEF WaterBase, WaterTypeOK
  <2>2. \A k \in Month : wperiod'[k] = IF k = m THEN row ELSE wperiod[k]
    BY <1>2 DEF WaterBase, WaterTypeOK
  <2>3. TypeOK' /\ (\A t \in Tariff : Exists(t)' <=> Exists(t))
    BY <1>1 DEF WaterBase, WaterTypeOK, TypeOK, vars, Exists
  <2>4. WaterTypeOK'
    BY <1>1, <2>1, <2>3 DEF WaterBase, WaterTypeOK
  <2>5. \A k \in Month : wperiod'[k].tariff # None
                            => tariff'[wperiod'[k].tariff].status # "ABSENT"
    BY <1>1, <1>2, <2>2 DEF WaterBase, TariffsFit, Exists
  <2>6. TariffsFit'
    BY <1>1, <2>5 DEF WaterBase, TariffsFit, Exists
  <2>7. QED BY <1>2, <2>2, <2>4, <2>6 DEF WaterBase, PeriodMade
<1>3. PICK m \in Month :
        \/ \E t \in Tariff \cup {None} : CreateWaterPeriod(m, t)
        \/ \E t \in Tariff : UpdateWaterPeriod(m, t)
        \/ CancelWaterPeriod(m) \/ CloseWaterPeriod(m) \/ ReopenWaterPeriod(m)
  BY DEF PeriodStep, WPeriodNext
<1>4. /\ wperiod[m] \in WPeriodRow
      /\ wperiod[m].tariff # None => Exists(wperiod[m].tariff)
  BY DEF WaterBase, WaterTypeOK, TariffsFit
<1>5. ASSUME NEW t \in Tariff \cup {None}, CreateWaterPeriod(m, t)
      PROVE  /\ WaterBase'
             /\ \A k \in Month : PeriodMade(k) => PeriodMade(k)'
  <2>1. PICK s : s = IF t = None THEN LatestForBilling ELSE t
    OBVIOUS
  <2>2. s # None => s \in Tariff /\ Exists(s)
    BY <1>5, <2>1, LatestFits
    DEF LatestForBilling, ForBilling, Exists, WaterBase, TariffsFit, CreateWaterPeriod
  <2>3. PICK row : row = [status |-> "DRAFT", tariff |-> s]
    OBVIOUS
  <2>4. row \in WPeriodRow /\ row.status # "ABSENT" /\ row.tariff = s
    BY <2>2, <2>3 DEF WPeriodRow, WPeriodStatus
  <2>5. wperiod' = [wperiod EXCEPT ![m] = row]
    BY <1>5, <2>1, <2>3 DEF CreateWaterPeriod
  <2>6. QED BY <1>2, <2>2, <2>4, <2>5
<1>6. ASSUME NEW t \in Tariff, UpdateWaterPeriod(m, t)
      PROVE  /\ WaterBase'
             /\ \A k \in Month : PeriodMade(k) => PeriodMade(k)'
  <2>1. PICK row : row = [wperiod[m] EXCEPT !.tariff = t]
    OBVIOUS
  <2>2. row \in WPeriodRow /\ row.status # "ABSENT" /\ row.tariff = t
    BY <1>4, <1>6, <2>1 DEF WPeriodRow, UpdateWaterPeriod
  <2>3. wperiod' = [wperiod EXCEPT ![m] = row] /\ Exists(t)
    BY <1>6, <2>1 DEF UpdateWaterPeriod
  <2>4. QED BY <1>2, <2>2, <2>3
<1>7. ASSUME NEW status \in WPeriodStatus \ {"ABSENT"}, SetPeriodStatus(m, status)
      PROVE  /\ WaterBase'
             /\ \A k \in Month : PeriodMade(k) => PeriodMade(k)'
  <2>1. PICK row : row = [wperiod[m] EXCEPT !.status = status]
    OBVIOUS
  <2>2. row \in WPeriodRow /\ row.status # "ABSENT" /\ row.tariff = wperiod[m].tariff
    BY <1>4, <2>1 DEF WPeriodRow
  <2>3. wperiod' = [wperiod EXCEPT ![m] = row]
    BY <1>7, <2>1 DEF SetPeriodStatus
  <2>4. QED BY <1>2, <1>4, <2>2, <2>3
<1>8. {"CANCELLED", "CLOSED", "CALCULATED"} \subseteq WPeriodStatus \ {"ABSENT"}
  BY DEF WPeriodStatus
<1>9. QED BY <1>3, <1>5, <1>6, <1>7, <1>8
          DEF CancelWaterPeriod, CloseWaterPeriod, ReopenWaterPeriod
LEMMA TariffStepFits ==
  ASSUME WaterBase, TariffStep
  PROVE  /\ WaterBase'
         /\ \A m \in Month : PeriodMade(m) => PeriodMade(m)'
<1>1. /\ UNCHANGED <<vars, meter, reading>> /\ TypeOK'
      /\ loaded \in Seq(Tariff)
  BY DEF TariffStep, WaterBase, WaterTypeOK, TariffsFit, TypeOK, vars
<1>2. /\ tariff \in [Tariff -> TariffRow] /\ wperiod \in [Month -> WPeriodRow]
      /\ \A t \in Tariff : IF Exists(t) THEN tariff[t].input \in TariffInput
                             ELSE tariff[t].date = None /\ tariff[t].month = None
      /\ \A m \in Month : wperiod[m].tariff # None
           => wperiod[m].tariff \in Tariff /\ Exists(wperiod[m].tariff)
  BY DEF WaterBase, WaterTypeOK, TariffsFit, WPeriodRow
<1>3. ASSUME NEW t \in Tariff, RemoveTariff(t)
      PROVE  /\ WaterBase'
             /\ \A m \in Month : PeriodMade(m) => PeriodMade(m)'
  <2>1. tariff' \in [Tariff -> TariffRow]
    BY <1>2, <1>3 DEF RemoveTariff, TariffRow, TariffStatus
  <2>2. \A s \in Tariff : /\ Exists(s)' <=> Exists(s)
                          /\ tariff'[s].input = tariff[s].input
                          /\ tariff'[s].date = tariff[s].date
                          /\ tariff'[s].month = tariff[s].month
    BY <1>2, <1>3 DEF RemoveTariff, Exists, TariffRow
  <2>3. loaded' \in Seq(Tariff) /\ UNCHANGED wperiod
    BY <1>1, <1>3, TouchedType DEF RemoveTariff
  <2>4. WaterTypeOK'
    BY <1>1, <2>1, <2>3 DEF WaterBase, WaterTypeOK
  <2>5. TariffsFit'
    BY <1>2, <2>2, <2>3 DEF TariffsFit, Exists
  <2>6. QED BY <2>3, <2>4, <2>5 DEF WaterBase, PeriodMade
<1>4. ASSUME NEW t \in Tariff, NEW d \in Date, NEW table \in LookupTables,
             LoadLookup(t, d, table)
      PROVE  /\ WaterBase'
             /\ \A m \in Month : PeriodMade(m) => PeriodMade(m)'
  <2>1. PICK input : input = LookupInput(t, table)
    OBVIOUS
  <2>2. input \in TariffInput
    <3>1. table \in TariffInput
      BY WaterAssumption DEF LookupTables
    <3>2. QED BY <1>2, <2>1, <3>1 DEF LookupInput, TariffInput
  <2>3. \A s \in Tariff :
          tariff'[s] = IF s = t THEN [status |-> "ACTIVE", date |-> d, month |-> d,
                                      input |-> input]
                       ELSE IF s \in Duplicates(t, d)
                       THEN [tariff[s] EXCEPT !.status = "ARCHIVED", !.date = None]
                       ELSE tariff[s]
    BY <1>4, <2>1 DEF LoadLookup
  <2>4. tariff' = [s \in Tariff |-> tariff'[s]]
    BY <1>4 DEF LoadLookup
  <2>5. ASSUME NEW s \in Tariff
        PROVE  /\ tariff'[s] \in TariffRow
               /\ Exists(s) => Exists(s)'
               /\ IF Exists(s)' THEN tariff'[s].input \in TariffInput
                  ELSE tariff'[s].date = None /\ tariff'[s].month = None
    <3>1. CASE s = t
      <4>1. PICK row : row = [status |-> "ACTIVE", date |-> d, month |-> d,
                              input |-> input]
        OBVIOUS
      <4>2. row \in TariffRow /\ row.status = "ACTIVE" /\ row.input = input
        BY <2>2, <4>1 DEF TariffRow, TariffStatus
      <4>3. tariff'[s] = row
        BY <2>3, <3>1, <4>1
      <4>4. QED BY <2>2, <4>2, <4>3 DEF Exists
    <3>2. CASE s # t /\ s \in Duplicates(t, d)
      <4>1. tariff[s] \in TariffRow
        BY <1>2
      <4>2. PICK row : row = [tariff[s] EXCEPT !.status = "ARCHIVED", !.date = None]
        OBVIOUS
      <4>3. row \in TariffRow /\ row.input = tariff[s].input /\ row.status = "ARCHIVED"
        BY <4>1, <4>2 DEF TariffRow, TariffStatus
      <4>4. Exists(s)
        BY <1>2, <3>2, WaterAssumption DEF Duplicates
      <4>5. QED BY <1>2, <2>3, <3>2, <4>2, <4>3, <4>4 DEF Exists
    <3>3. CASE s # t /\ s \notin Duplicates(t, d)
      BY <1>2, <2>3, <3>3 DEF Exists
    <3>4. QED BY <3>1, <3>2, <3>3
  <2>6. loaded' \in Seq(Tariff)
    BY <1>1, <1>4, TouchedType DEF LoadLookup
  <2>7. PICK latest : latest = Latest(tariff', loaded')
    OBVIOUS
  <2>8. latest # None => latest \in Tariff /\ Exists(latest)'
    BY <2>6, <2>7, LatestFits DEF ForBilling, Exists
  <2>9. ASSUME NEW m \in Month
        PROVE  /\ wperiod'[m] \in WPeriodRow
               /\ wperiod'[m].status = wperiod[m].status
               /\ wperiod'[m].tariff # None
                    => tariff'[wperiod'[m].tariff].status # "ABSENT"
    <3>1. PICK r : r = IF wperiod[m].status \in {"DRAFT", "OPEN", "CALCULATED"}
                       THEN latest
                       ELSE IF wperiod[m].tariff \in Duplicates(t, d) THEN t
                       ELSE wperiod[m].tariff
      OBVIOUS
    <3>2. wperiod'[m] = [wperiod[m] EXCEPT !.tariff = r]
      BY <1>4, <2>7, <3>1 DEF LoadLookup
    <3>3. r # None => r \in Tariff /\ tariff'[r].status # "ABSENT"
      <4>1. CASE r = latest
        BY <2>8, <4>1 DEF Exists
      <4>2. CASE r = t
        <5>1. tariff'[t].status = "ACTIVE"
          BY <1>4 DEF LoadLookup
        <5>2. QED BY <4>2, <5>1
      <4>3. CASE r = wperiod[m].tariff
        BY <1>2, <2>5, <4>3 DEF Exists
      <4>4. r \in {latest, t, wperiod[m].tariff}
        BY <3>1
      <4>5. QED BY <4>1, <4>2, <4>3, <4>4
    <3>4. wperiod[m] \in WPeriodRow /\ r \in Tariff \cup {None}
      BY <1>2, <3>3
    <3>5. wperiod'[m] \in WPeriodRow /\ wperiod'[m].status = wperiod[m].status
          /\ wperiod'[m].tariff = r
      BY <3>2, <3>4 DEF WPeriodRow
    <3>6. QED BY <3>3, <3>5
  <2>10. wperiod' = [m \in Month |-> wperiod'[m]]
    BY <1>4 DEF LoadLookup
  <2>11. tariff' \in [Tariff -> TariffRow] /\ wperiod' \in [Month -> WPeriodRow]
    BY <2>4, <2>5, <2>9, <2>10
  <2>12. WaterTypeOK'
    BY <1>1, <2>11 DEF WaterBase, WaterTypeOK
  <2>13. TariffsFit'
    BY <2>5, <2>6, <2>9 DEF TariffsFit, Exists
  <2>14. QED BY <2>9, <2>12, <2>13 DEF WaterBase, PeriodMade
<1>5. QED BY <1>3, <1>4 DEF TariffStep
-----------------------------------------------------------------------------
(* Charges: what the ledger does to a charge leaves what a reading wrote.  *)

LEMMA LedgerCharges ==
  ASSUME TypeOK, PaymentNext, NEW c \in Charge
  PROVE  /\ charge'[c].amount = charge[c].amount
         /\ charge'[c].movement = charge[c].movement
         /\ charge[c].status # "ABSENT" => charge'[c].status # "ABSENT"
<1>1. PICK p \in Payment :
        \/ \E amount, b : CreatePayment(p, amount, b)
        \/ ConfirmPayment(p)
        \/ CancelPayment(p)
        \/ \E apps : Apply(p, apps)
        \/ \E d \in Charge : ReverseApplication(p, d)
  BY Zenon DEF PaymentNext, AutoApply
<1>2. charge[c] \in ChargeRow
  BY DEF TypeOK
<1>3. ASSUME NEW status, status # "ABSENT",
             charge'[c] = charge[c] \/ charge'[c] = [charge[c] EXCEPT !.status = status]
      PROVE  /\ charge'[c].amount = charge[c].amount
             /\ charge'[c].movement = charge[c].movement
             /\ charge[c].status # "ABSENT" => charge'[c].status # "ABSENT"
  BY <1>2, <1>3 DEF ChargeRow
<1>4. CASE charge' = charge
  BY <1>4
<1>5. ASSUME NEW apps, Apply(p, apps)
      PROVE  \E status : /\ status # "ABSENT"
                         /\ \/ charge'[c] = charge[c]
                            \/ charge'[c] = [charge[c] EXCEPT !.status = status]
  <2>1. PICK rem : rem = RemainingAfter(apps)
    OBVIOUS
  <2>2. PICK status : status = PaidStatus(rem[c])
    OBVIOUS
  <2>3. status # "ABSENT"
    BY <2>2 DEF PaidStatus
  <2>4. \/ charge'[c] = charge[c]
        \/ charge'[c] = [charge[c] EXCEPT !.status = status]
    BY <1>5, <2>1, <2>2 DEF Apply, WriteApply
  <2>5. QED BY <2>3, <2>4
<1>6. ASSUME NEW d \in Charge, ReverseApplication(p, d)
      PROVE  \E status : /\ status # "ABSENT"
                         /\ \/ charge'[c] = charge[c]
                            \/ charge'[c] = [charge[c] EXCEPT !.status = status]
  <2>1. PICK status : status = RestoredStatus(d, Remaining(d) + app[p][d].amount)
    OBVIOUS
  <2>2. status # "ABSENT"
    BY <2>1 DEF RestoredStatus, PaidStatus
  <2>3. charge' = [charge EXCEPT ![d].status = status]
    BY <1>6, <2>1 DEF ReverseApplication, WriteReverse
  <2>4. \/ charge'[c] = charge[c]
        \/ charge'[c] = [charge[c] EXCEPT !.status = status]
    BY <2>3 DEF TypeOK
  <2>5. QED BY <2>2, <2>4
<1>7. QED
  <2>1. CASE \E amount, b : CreatePayment(p, amount, b)
    BY <1>4, <2>1 DEF CreatePayment
  <2>2. CASE ConfirmPayment(p) \/ CancelPayment(p)
    BY <1>4, <2>2 DEF ConfirmPayment, CancelPayment
  <2>3. CASE \E apps : Apply(p, apps)
    BY <1>3, <1>5, <2>3
  <2>4. CASE \E d \in Charge : ReverseApplication(p, d)
    BY <1>3, <1>6, <2>4
  <2>5. QED BY <1>1, <2>1, <2>2, <2>3, <2>4

LEMMA LedgerStepFits ==
  ASSUME WaterBase, LedgerStep
  PROVE  WaterBase' /\ UNCHANGED waterVars
<1>1. UNCHANGED waterVars
  BY DEF LedgerStep
<1>2. TypeOK'
  BY PaymentNextType DEF LedgerStep, WaterBase, WaterTypeOK
<1>3. QED BY <1>1, <1>2 DEF waterVars, WaterBase, WaterTypeOK, TariffsFit, Exists

-----------------------------------------------------------------------------
(* Readings, row by row.                                                   *)

LEMMA LevelNumbers ==
  /\ \A level \in Level : level \in Nat
  /\ \A r \in ReadingRow : /\ r.current \in Nat /\ r.previous \in Nat
                           /\ Consumption(r) \in Int
<1>1. \A level \in Level : level \in Nat
  BY WaterAssumption
<1>2. \A r \in ReadingRow : r.current \in Level /\ r.previous \in Level
  BY DEF ReadingRow
<1>3. QED BY <1>1, <1>2 DEF Consumption

LEMMA NewReadingType ==
  ASSUME NEW n \in Meter \cup {None}, NEW previous \in Level, NEW current \in Level,
         NEW status \in ReadingStatus
  PROVE  /\ NewReading(n, previous, current, status) \in ReadingRow
         /\ NewReading(n, previous, current, status).status = status
         /\ NewReading(n, previous, current, status).previous = previous
         /\ NewReading(n, previous, current, status).current = current
BY DEF NewReading, ReadingRow

(* What calculate makes of a row.                                          *)
LEMMA CalculatedRow ==
  ASSUME NEW input \in TariffInput, NEW r \in ReadingRow,
         NEW s, s = Calculated(r, input)
  PROVE  /\ s \in ReadingRow
         /\ r.status = "ABSENT" \/ ~Priced(Consumption(r), input) => s = r
         /\ r.status # "ABSENT" /\ Priced(Consumption(r), input) =>
              /\ s.status = "CALCULATED" /\ s.water = WaterAmount(Consumption(r), input)
              /\ s.previous = r.previous /\ s.current = r.current
              /\ s.macro = r.macro /\ s.adjust = r.adjust /\ s.fee = r.fee
              /\ s.final = s.water + s.macro + s.adjust + s.fee
<1>1. CASE r.status = "ABSENT" \/ ~Priced(Consumption(r), input)
  BY <1>1 DEF Calculated
<1>2. CASE r.status # "ABSENT" /\ Priced(Consumption(r), input)
  <2>1. PICK water : water = WaterAmount(Consumption(r), input)
    OBVIOUS
  <2>2. water \in Int
    BY <1>2, <2>1, WaterPrice, LevelNumbers
  <2>3. PICK final : final = water + r.macro + r.adjust + r.fee
    OBVIOUS
  <2>4. final \in Int
    BY <2>2, <2>3 DEF ReadingRow
  <2>5. s = [r EXCEPT !.status = "CALCULATED", !.water = water, !.final = final]
    BY <1>2, <2>1, <2>3 DEF Calculated
  <2>6. QED BY <1>2, <2>1, <2>2, <2>3, <2>4, <2>5 DEF ReadingRow, ReadingStatus
<1>3. QED BY <1>1, <1>2

LEMMA GeneratedRow ==
  ASSUME NEW r \in ReadingRow, NEW n \in Meter, NEW previous \in Level,
         r.status = "DRAFT" => Consumption(r) = 0,
         NEW s, s = Generated(r, n, previous)
  PROVE  /\ s \in ReadingRow
         /\ r.status = "CALCULATED" => s = r
         /\ r.status # "CALCULATED" => s.status \in {"DRAFT", "CAPTURED"}
                                       /\ s.previous = previous
         /\ s.status = "DRAFT" => Consumption(s) = 0
<1>1. CASE r.status = "ABSENT"
  <2>1. s = NewReading(n, previous, previous, "DRAFT")
    BY <1>1 DEF Generated
  <2>2. s \in ReadingRow /\ s.status = "DRAFT" /\ s.previous = previous
        /\ s.current = previous
    BY <2>1, NewReadingType DEF ReadingStatus
  <2>3. previous \in Int
    BY WaterAssumption
  <2>4. QED BY <1>1, <2>2, <2>3 DEF Consumption
<1>2. CASE Pending(r)
  <2>1. PICK current : current = IF r.current = r.previous THEN previous ELSE r.current
    OBVIOUS
  <2>2. s = [[r EXCEPT !.previous = previous, !.current = current] EXCEPT !.meter = n]
    BY <1>2, <2>1 DEF Generated, Resynced, Pending
  <2>3. current \in Level
    BY <2>1 DEF ReadingRow
  <2>4. /\ s \in ReadingRow /\ s.status = r.status /\ s.previous = previous
        /\ s.current = current
    BY <2>2, <2>3 DEF ReadingRow
  <2>5. r.current \in Int /\ r.previous \in Int /\ previous \in Int
    BY LevelNumbers
  <2>6. QED BY <1>2, <2>1, <2>4, <2>5 DEF Pending, Consumption
<1>3. CASE r.status = "CALCULATED"
  BY <1>3 DEF Generated, Pending
<1>4. QED BY <1>1, <1>2, <1>3 DEF ReadingRow, ReadingStatus, Pending

LEMMA ResyncedRow ==
  ASSUME NEW r \in ReadingRow, Pending(r), NEW previous \in Level,
         r.status = "DRAFT" => Consumption(r) = 0,
         NEW s, s = Resynced(r, previous)
  PROVE  /\ s \in ReadingRow /\ s.status = r.status /\ s.previous = previous
         /\ s.status = "DRAFT" => Consumption(s) = 0
<1>1. PICK current : current = IF r.current = r.previous THEN previous ELSE r.current
  OBVIOUS
<1>2. s = [r EXCEPT !.previous = previous, !.current = current]
  BY <1>1 DEF Resynced
<1>3. current \in Level
  BY <1>1 DEF ReadingRow
<1>4. /\ s \in ReadingRow /\ s.status = r.status /\ s.previous = previous
      /\ s.current = current
  BY <1>2, <1>3 DEF ReadingRow
<1>5. r.current \in Int /\ r.previous \in Int /\ previous \in Int
  BY LevelNumbers
<1>6. QED BY <1>1, <1>4, <1>5 DEF Consumption

LEMMA ImportedRow ==
  ASSUME NEW r \in ReadingRow, NEW row \in RowInput, NEW n \in Meter, NEW fee \in Fee,
         NEW s, s = Imported(r, row, n, fee)
  PROVE  s \in ReadingRow /\ s.status = "CAPTURED"
<1>1. /\ row.previous \in Level /\ row.current \in Level /\ row.macro \in Int
      /\ fee \in Nat
  BY WaterAssumption DEF RowInput
<1>2. PICK macro, previous, current :
        macro = row.macro /\ previous = row.previous /\ current = row.current
  OBVIOUS
<1>3. s = [r EXCEPT !.status = "CAPTURED", !.previous = previous,
                    !.current = current, !.meter = n,
                    !.macro = macro, !.fee = fee, !.water = 0, !.final = 0]
  BY <1>2 DEF Imported
<1>4. previous \in Level /\ current \in Level /\ macro \in Int
  BY <1>1, <1>2
<1>5. /\ s = [status |-> "CAPTURED", previous |-> previous, current |-> current,
              meter |-> n, macro |-> macro, adjust |-> r.adjust, fee |-> fee,
              water |-> 0, final |-> 0]
      /\ r.adjust \in Int
  BY <1>3 DEF ReadingRow
<1>6. QED BY <1>1, <1>4, <1>5 DEF ReadingRow, ReadingStatus

LEMMA InheritedType ==
  ASSUME WaterBase, NEW m \in Month, NEW u \in Unit, NEW n \in Meter
  PROVE  Inherited(m, u, n) \in Level
<1>1. meter[n].initial \in Level
  BY DEF WaterBase, WaterTypeOK, MeterRow
<1>2. m - 1 \in Month => reading[m - 1][u].current \in Level
  BY DEF WaterBase, WaterTypeOK, ReadingRow
<1>3. QED BY <1>1, <1>2 DEF Inherited
-----------------------------------------------------------------------------
(* The inductive invariant.  A reading belongs to a period that was made,  *)
(* and a calculated one is charged with its amount: this is what the next  *)
(* month, the report and another calculation rely on.                      *)

ReadingsMade ==
  \A m \in Month, u \in Unit : reading[m][u].status # "ABSENT" => PeriodMade(m)

Magnitude(final) == IF final < 0 THEN -final ELSE final
Direction(final) == IF final < 0 THEN "CREDIT" ELSE "DEBIT"

ChargedAs(row, final) ==
  /\ row.status # "ABSENT"
  /\ row.amount = Magnitude(final)
  /\ row.movement = Direction(final)

ChargedAsRead ==
  \A m \in Month, u \in Unit :
    reading[m][u].status = "CALCULATED"
      => ChargedAs(charge[WaterCharge[m][u]], reading[m][u].final)

WaterInv ==
  WaterBase /\ DraftUnconsumed /\ CalculatedAddsUp /\ ReadingsMade /\ ChargedAsRead

(* What a handler makes of a row before any calculation, and what a row    *)
(* handed to a calculation is.                                             *)
RowKept(before, r) ==
  \/ r = before
  \/ r.status = "CAPTURED"
  \/ r.status = "DRAFT" /\ Consumption(r) = 0

RowReady(before, r, input) == RowKept(before, r) \/ Priced(Consumption(r), input)

(* A step that leaves the charges alone.                                   *)
PlainStep(m, rows) ==
  /\ PeriodMade(m)
  /\ rows \in [Unit -> ReadingRow]
  /\ \A u \in Unit : RowKept(reading[m][u], rows[u])
  /\ reading' = [reading EXCEPT ![m] = rows]
  /\ UNCHANGED <<vars, tariff, loaded, meter>>
  /\ wperiod' \in [Month -> WPeriodRow]
  /\ \A k \in Month : /\ PeriodMade(k) => PeriodMade(k)'
                      /\ wperiod'[k].tariff # None => Exists(wperiod'[k].tariff)

(* A step that calculates.                                                 *)
CalculatingStep(m, rows, status, input) ==
  /\ PeriodMade(m) /\ CanCalculate(m) /\ input = tariff[EnsuredTariff(m)].input
  /\ rows \in [Unit -> ReadingRow]
  /\ status \in WPeriodStatus \ {"ABSENT"}
  /\ \A u \in Unit : RowReady(reading[m][u], rows[u], input)
  /\ WriteCalculated(m, rows, status)
  /\ UNCHANGED <<tariff, loaded, meter, payment, app, period, bank>>

LEMMA RowTypes ==
  ASSUME WaterBase, NEW m \in Month, NEW u \in Unit
  PROVE  /\ reading[m][u] \in ReadingRow
         /\ charge[WaterCharge[m][u]] \in ChargeRow
         /\ WaterCharge[m][u] \in Charge
BY WaterAssumption DEF WaterBase, WaterTypeOK, TypeOK

LEMMA PlainInv ==
  ASSUME WaterInv, NEW m \in Month, NEW rows, PlainStep(m, rows)
  PROVE  WaterInv'
<1>1. \A k \in Month, u \in Unit :
        /\ reading'[k][u] = IF k = m THEN rows[u] ELSE reading[k][u]
        /\ RowKept(reading[k][u], reading'[k][u])
  BY DEF PlainStep, RowKept, WaterInv, WaterBase, WaterTypeOK
<1>2. WaterTypeOK'
  <2>1. TypeOK'
    BY DEF PlainStep, WaterInv, WaterBase, WaterTypeOK, TypeOK, vars
  <2>2. reading' \in [Month -> [Unit -> ReadingRow]]
    BY DEF PlainStep, WaterInv, WaterBase, WaterTypeOK
  <2>3. QED BY <2>1, <2>2 DEF PlainStep, WaterInv, WaterBase, WaterTypeOK
<1>3. TariffsFit'
  <2>1. UNCHANGED <<tariff, loaded>>
        /\ \A k \in Month : wperiod'[k].tariff # None
                              => tariff[wperiod'[k].tariff].status # "ABSENT"
    BY DEF PlainStep, Exists
  <2>2. QED BY <2>1 DEF TariffsFit, Exists, WaterInv, WaterBase
<1>4. DraftUnconsumed'
  BY <1>1 DEF WaterInv, DraftUnconsumed, RowKept
<1>5. CalculatedAddsUp'
  BY <1>1 DEF WaterInv, CalculatedAddsUp, RowKept
<1>6. ReadingsMade'
  <2>1. \A k \in Month : PeriodMade(k) => PeriodMade(k)'
    BY DEF PlainStep
  <2>2. PeriodMade(m)
    BY DEF PlainStep
  <2>3. QED BY <1>1, <2>1, <2>2 DEF WaterInv, ReadingsMade
<1>7. ChargedAsRead'
  BY <1>1 DEF PlainStep, vars, WaterInv, ChargedAsRead, RowKept
<1>8. QED BY <1>2, <1>3, <1>4, <1>5, <1>6, <1>7 DEF WaterInv, WaterBase

(* A calculation writes the charges of the readings it prices, and no      *)
(* other.                                                                  *)
LEMMA CalculatedCharges ==
  ASSUME WaterBase, NEW m \in Month, NEW rows, NEW status, NEW input,
         CalculatingStep(m, rows, status, input),
         NEW k \in Month, NEW u \in Unit
  PROVE  charge'[WaterCharge[k][u]] =
           IF k = m /\ u \in Billed(rows, input)
           THEN ChargedFor(WaterCharge[m][u], Calculated(rows[u], input).final)
           ELSE charge[WaterCharge[k][u]]
<1>1. PICK c : c = WaterCharge[k][u] /\ c \in Charge
  BY RowTypes
<1>2. PICK billed : billed = Billed(rows, input)
  OBVIOUS
<1>3. charge'[c] =
        IF \E v \in billed : WaterCharge[m][v] = c
        THEN ChargedFor(c, Calculated(rows[CHOOSE v \in billed : WaterCharge[m][v] = c],
                                      input).final)
        ELSE charge[c]
  BY <1>1, <1>2 DEF CalculatingStep, WriteCalculated
<1>4. billed \subseteq Unit
  BY <1>2 DEF Billed, Present
<1>5. \A v \in billed : WaterCharge[m][v] = c <=> m = k /\ v = u
  BY <1>1, <1>4, WaterAssumption
<1>6. CASE k = m /\ u \in billed
  <2>1. PICK v : v = CHOOSE w \in billed : WaterCharge[m][w] = c
    OBVIOUS
  <2>2. v = u
    BY <1>1, <1>5, <1>6, <2>1
  <2>3. charge'[c] = ChargedFor(c, Calculated(rows[v], input).final)
    BY <1>1, <1>3, <1>6, <2>1
  <2>4. QED BY <1>1, <1>2, <1>6, <2>2, <2>3
<1>7. CASE ~(k = m /\ u \in billed)
  BY <1>1, <1>2, <1>3, <1>5, <1>7
<1>8. QED BY <1>6, <1>7

LEMMA ChargedForRow ==
  ASSUME NEW c \in Charge, charge[c] \in ChargeRow, NEW final \in Int,
         NEW row, row = ChargedFor(c, final)
  PROVE  row \in ChargeRow /\ ChargedAs(row, final)
<1>1. PICK status : status = IF charge[c].status = "ABSENT" THEN "PENDING"
                             ELSE charge[c].status
  OBVIOUS
<1>2. status \in ChargeStatus /\ status # "ABSENT"
  BY <1>1, StatusValues DEF ChargeRow
<1>3. Magnitude(final) \in Nat /\ Direction(final) \in Movement
  BY DEF Magnitude, Direction, Movement
<1>4. row = [status |-> status, amount |-> Magnitude(final), movement |-> Direction(final)]
  BY <1>1 DEF ChargedFor, Magnitude, Direction
<1>5. QED BY <1>2, <1>3, <1>4 DEF ChargeRow, ChargedAs

LEMMA CalculatingInv ==
  ASSUME WaterInv, NEW m \in Month, NEW rows, NEW status, NEW input,
         CalculatingStep(m, rows, status, input)
  PROVE  WaterInv'
<1>1. /\ WaterBase /\ input \in TariffInput
      /\ EnsuredTariff(m) \in Tariff /\ Exists(EnsuredTariff(m))
  BY EnsuredFits DEF WaterInv, CalculatingStep, CanCalculate
<1>2. PICK priced : priced = [u \in Unit |-> Calculated(rows[u], input)]
  OBVIOUS
<1>3. \A u \in Unit :
        LET r == rows[u]
            s == priced[u]
        IN  /\ r \in ReadingRow /\ s \in ReadingRow
            /\ r.status = "ABSENT" \/ ~Priced(Consumption(r), input) => s = r
            /\ r.status # "ABSENT" /\ Priced(Consumption(r), input) =>
                 /\ s.status = "CALCULATED"
                 /\ s.previous = r.previous /\ s.current = r.current
                 /\ s.final = s.water + s.macro + s.adjust + s.fee
  <2> SUFFICES ASSUME NEW u \in Unit, NEW r, r = rows[u], NEW s, s = priced[u]
               PROVE  /\ r \in ReadingRow /\ s \in ReadingRow
                      /\ r.status = "ABSENT" \/ ~Priced(Consumption(r), input) => s = r
                      /\ r.status # "ABSENT" /\ Priced(Consumption(r), input) =>
                           /\ s.status = "CALCULATED"
                           /\ s.previous = r.previous /\ s.current = r.current
                           /\ s.final = s.water + s.macro + s.adjust + s.fee
    OBVIOUS
  <2>1. r \in ReadingRow
    BY DEF CalculatingStep
  <2>2. s = Calculated(r, input)
    BY <1>2
  <2>3. QED BY <1>1, <2>1, <2>2, CalculatedRow
<1>4. \A k \in Month, u \in Unit :
        reading'[k][u] = IF k = m THEN priced[u] ELSE reading[k][u]
  <2>1. reading' = [reading EXCEPT ![m] = priced]
    BY <1>2 DEF CalculatingStep, WriteCalculated
  <2>2. QED BY <2>1 DEF WaterInv, WaterBase, WaterTypeOK
<1>5. charge' \in [Charge -> ChargeRow]
  <2>1. PICK billed : billed = Billed(rows, input)
    OBVIOUS
  <2>2. billed \subseteq Unit
    BY <2>1 DEF Billed, Present
  <2>3. /\ DOMAIN charge' = Charge
        /\ charge' = [c \in Charge |->
             IF \E u \in billed : WaterCharge[m][u] = c
             THEN ChargedFor(c, Calculated(rows[CHOOSE u \in billed : WaterCharge[m][u] = c],
                                           input).final)
             ELSE charge[c]]
    BY <2>1 DEF CalculatingStep, WriteCalculated
  <2>4. \A c \in Charge : charge[c] \in ChargeRow
    BY <1>1 DEF WaterBase, WaterTypeOK, TypeOK
  <2>5. ASSUME NEW c \in Charge PROVE charge'[c] \in ChargeRow
    <3>1. CASE \E u \in billed : WaterCharge[m][u] = c
      <4>1. PICK v : v = CHOOSE u \in billed : WaterCharge[m][u] = c
        OBVIOUS
      <4>2. v \in Unit
        BY <2>2, <3>1, <4>1
      <4>3. charge'[c] = ChargedFor(c, priced[v].final)
        BY <1>2, <2>3, <3>1, <4>1, <4>2
      <4>4. priced[v].final \in Int
        BY <1>3, <4>2 DEF ReadingRow
      <4>5. QED BY <2>4, <4>3, <4>4, ChargedForRow
    <3>2. CASE ~\E u \in billed : WaterCharge[m][u] = c
      BY <2>3, <2>4, <3>2
    <3>3. QED BY <3>1, <3>2
  <2>6. charge' = [c \in Charge |-> charge'[c]]
    BY <2>3
  <2>7. QED BY <2>5, <2>6
<1>6. PICK row \in WPeriodRow :
        /\ row.status # "ABSENT" /\ row.tariff = EnsuredTariff(m)
        /\ wperiod' = [wperiod EXCEPT ![m] = row]
  <2>1. PICK s : s = IF Billed(rows, input) = Present(rows) THEN "CALCULATED" ELSE status
    OBVIOUS
  <2>2. s \in WPeriodStatus \ {"ABSENT"}
    BY <2>1 DEF CalculatingStep, WPeriodStatus
  <2>3. PICK row : row = [status |-> s, tariff |-> EnsuredTariff(m)]
    OBVIOUS
  <2>4. row \in WPeriodRow /\ row.status = s /\ row.tariff = EnsuredTariff(m)
    BY <1>1, <2>2, <2>3 DEF WPeriodRow
  <2>5. wperiod' = [wperiod EXCEPT ![m] = row]
    BY <2>1, <2>3 DEF CalculatingStep, WriteCalculated
  <2>6. QED BY <2>2, <2>4, <2>5
<1>7. \A k \in Month : wperiod'[k] = IF k = m THEN row ELSE wperiod[k]
  BY <1>1, <1>6 DEF WaterBase, WaterTypeOK
<1>8. UNCHANGED <<tariff, loaded, meter, payment, app, period, bank>>
  BY DEF CalculatingStep
<1>9. WaterTypeOK'
  <2>1. reading' \in [Month -> [Unit -> ReadingRow]]
    <3>1. priced \in [Unit -> ReadingRow]
      BY <1>2, <1>3
    <3>2. reading' = [reading EXCEPT ![m] = priced]
      BY <1>2 DEF CalculatingStep, WriteCalculated
    <3>3. QED BY <1>1, <3>1, <3>2 DEF WaterBase, WaterTypeOK
  <2>2. wperiod' \in [Month -> WPeriodRow]
    BY <1>1, <1>6 DEF WaterBase, WaterTypeOK
  <2>3. TypeOK'
    BY <1>1, <1>5, <1>8 DEF WaterBase, WaterTypeOK, TypeOK
  <2>4. QED BY <1>1, <1>8, <2>1, <2>2, <2>3 DEF WaterBase, WaterTypeOK
<1>10. TariffsFit'
  <2>1. \A k \in Month : wperiod'[k].tariff # None
                           => tariff[wperiod'[k].tariff].status # "ABSENT"
    BY <1>1, <1>6, <1>7 DEF WaterBase, TariffsFit, Exists
  <2>2. QED BY <1>1, <1>8, <2>1 DEF WaterBase, TariffsFit, Exists
<1>11. ASSUME NEW u \in Unit
       PROVE  /\ priced[u].status = "DRAFT" => Consumption(priced[u]) = 0
              /\ priced[u].status = "CALCULATED" =>
                   /\ priced[u].final = priced[u].water + priced[u].macro
                                          + priced[u].adjust + priced[u].fee
                   /\ Consumption(priced[u]) >= 0
  <2>1. PICK r, s, before : r = rows[u] /\ s = priced[u] /\ before = reading[m][u]
    OBVIOUS
  <2>2. /\ r.status = "ABSENT" \/ ~Priced(Consumption(r), input) => s = r
        /\ r.status # "ABSENT" /\ Priced(Consumption(r), input) =>
             /\ s.status = "CALCULATED"
             /\ s.previous = r.previous /\ s.current = r.current
             /\ s.final = s.water + s.macro + s.adjust + s.fee
    BY <1>3, <2>1
  <2>3. RowReady(before, r, input)
    BY <2>1 DEF CalculatingStep
  <2>4. /\ before.status = "DRAFT" => Consumption(before) = 0
        /\ before.status = "CALCULATED" =>
             /\ before.final = before.water + before.macro + before.adjust + before.fee
             /\ Consumption(before) >= 0
    BY <2>1 DEF WaterInv, DraftUnconsumed, CalculatedAddsUp
  <2>5. CASE r.status = "ABSENT"
    BY <2>1, <2>2, <2>5
  <2>6. CASE r.status # "ABSENT" /\ Priced(Consumption(r), input)
    <3>1. Consumption(s) = Consumption(r) /\ Consumption(r) >= 0
      BY <2>2, <2>6 DEF Consumption, Priced
    <3>2. QED BY <2>1, <2>2, <2>6, <3>1
  <2>7. CASE ~Priced(Consumption(r), input)
    BY <2>1, <2>2, <2>3, <2>4, <2>7 DEF RowReady, RowKept
  <2>8. QED BY <2>5, <2>6, <2>7
<1>12. DraftUnconsumed'
  BY <1>4, <1>11 DEF WaterInv, DraftUnconsumed, Consumption
<1>13. CalculatedAddsUp'
  BY <1>4, <1>11 DEF WaterInv, CalculatedAddsUp, Consumption
<1>14. ReadingsMade'
  <2>1. \A k \in Month : wperiod[k].status # "ABSENT" \/ k = m
                           => wperiod'[k].status # "ABSENT"
    BY <1>6, <1>7
  <2>2. QED BY <1>4, <2>1 DEF WaterInv, ReadingsMade, PeriodMade
<1>15. ChargedAsRead'
  <2>1. ASSUME NEW k \in Month, NEW u \in Unit, reading'[k][u].status = "CALCULATED",
               NEW c, c = WaterCharge[k][u]
        PROVE  ChargedAs(charge'[c], reading'[k][u].final)
    <3>1. c \in Charge /\ charge[c] \in ChargeRow
      BY <1>1, <2>1, RowTypes
    <3>2. charge'[c] = IF k = m /\ u \in Billed(rows, input)
                       THEN ChargedFor(c, priced[u].final) ELSE charge[c]
      BY <1>1, <1>2, <2>1, CalculatedCharges
    <3>3. CASE k = m /\ u \in Billed(rows, input)
      <4>1. priced[u].final \in Int
        BY <1>3 DEF ReadingRow
      <4>2. ChargedAs(charge'[c], priced[u].final)
        BY <3>1, <3>2, <3>3, <4>1, ChargedForRow
      <4>3. QED BY <1>4, <3>3, <4>2
    <3>4. CASE ~(k = m /\ u \in Billed(rows, input))
      <4>1. reading'[k][u] = reading[k][u]
        <5>1. CASE k # m
          BY <1>4, <5>1
        <5>2. CASE k = m
          <6>1. PICK r, s, before : r = rows[u] /\ s = priced[u] /\ before = reading[m][u]
            OBVIOUS
          <6>2. r.status = "ABSENT" \/ ~Priced(Consumption(r), input)
            BY <3>4, <5>2, <6>1 DEF Billed, Present
          <6>3. s = r /\ s.status = "CALCULATED"
            BY <1>3, <1>4, <2>1, <5>2, <6>1, <6>2
          <6>4. RowReady(before, r, input)
            BY <6>1 DEF CalculatingStep
          <6>5. r = before
            BY <6>2, <6>3, <6>4 DEF RowReady, RowKept
          <6>6. QED BY <1>4, <5>2, <6>1, <6>3, <6>5
        <5>3. QED BY <5>1, <5>2
      <4>2. ChargedAs(charge[c], reading[k][u].final)
        BY <2>1, <4>1 DEF WaterInv, ChargedAsRead
      <4>3. QED BY <3>2, <3>4, <4>1, <4>2
    <3>5. QED BY <3>3, <3>4
  <2>2. QED BY <2>1 DEF ChargedAsRead, ChargedAs
<1>16. QED BY <1>9, <1>10, <1>12, <1>13, <1>14, <1>15 DEF WaterInv, WaterBase
-----------------------------------------------------------------------------
(* Which step each handler is.                                             *)

WaterSteps ==
  \E m \in Month, rows \in [Unit -> ReadingRow] :
    \/ PlainStep(m, rows)
    \/ \E status, input : CalculatingStep(m, rows, status, input)

(* What the water of some readings is priced at is a number, and so is     *)
(* what a proration charges each unit.                                     *)
LEMMA SumWaterType ==
  ASSUME NEW rows \in [Unit -> ReadingRow], NEW input \in TariffInput
  PROVE  /\ Whole([u \in Billed(rows, input) |-> WaterAmount(Consumption(rows[u]), input)])
         /\ SumWater(rows, input) \in Int
<1>1. PICK f : f = [u \in Billed(rows, input) |-> WaterAmount(Consumption(rows[u]), input)]
  OBVIOUS
<1>2. DOMAIN f = Billed(rows, input) /\ DOMAIN f \subseteq Unit
  BY <1>1 DEF Billed, Present
<1>3. ASSUME NEW u \in DOMAIN f PROVE f[u] \in Int
  <2>1. rows[u] \in ReadingRow /\ Priced(Consumption(rows[u]), input)
    BY <1>2, <1>3 DEF Billed
  <2>2. WaterAmount(Consumption(rows[u]), input) \in Int
    BY <2>1, LevelNumbers, WaterPrice
  <2>3. QED BY <1>1, <1>2, <1>3, <2>2
<1>4. Whole(f)
  BY <1>2, <1>3, WaterAssumption, FS_Subset DEF Whole
<1>5. QED BY <1>1, <1>4, TotalParts DEF SumWater

LEMMA ProratedType ==
  ASSUME WaterBase, NEW m \in Month, CanCalculate(m), NEW bill \in Bill, NEW fee \in Fee
  PROVE  /\ Uncovered(m, bill, fee) \in Int
         /\ Unit # {} => MacroPerUnit(Uncovered(m, bill, fee)) \in Nat
<1>1. PICK sum, n : /\ sum = SumWater(reading[m], tariff[EnsuredTariff(m)].input)
                    /\ n = Cardinality(Unit)
  OBVIOUS
<1>2. sum \in Int
  <2>1. tariff[EnsuredTariff(m)].input \in TariffInput
    BY EnsuredFits DEF CanCalculate
  <2>2. reading[m] \in [Unit -> ReadingRow]
    BY DEF WaterBase, WaterTypeOK
  <2>3. QED BY <1>1, <2>1, <2>2, SumWaterType
<1>3. bill \in Nat /\ fee \in Nat /\ n \in Nat
  BY <1>1, WaterAssumption, FS_CardinalityType
<1>4. fee * n \in Int
  BY <1>3
<1>5. Uncovered(m, bill, fee) \in Int
  BY <1>1, <1>2, <1>3, <1>4 DEF Uncovered
<1>6. Unit # {} => n # 0
  BY <1>1, WaterAssumption, FS_EmptySet
<1>7. ASSUME Unit # {} PROVE MacroPerUnit(Uncovered(m, bill, fee)) \in Nat
  <2>1. PICK left : left = Uncovered(m, bill, fee)
    OBVIOUS
  <2>2. left >= 0 => HalfUp(left, n) \in Nat
    BY <1>3, <1>5, <1>6, <1>7, <2>1, HalfUpNear
  <2>3. QED BY <1>1, <1>5, <2>1, <2>2 DEF MacroPerUnit
<1>8. QED BY <1>5, <1>7

LEMMA ProratedRow ==
  ASSUME NEW rows \in [Unit -> ReadingRow], NEW macro \in Int, NEW fee \in Nat,
         NEW u \in Unit, NEW s, s = Prorated(rows, macro, fee)[u]
  PROVE  /\ s \in ReadingRow /\ s.status = rows[u].status
         /\ Consumption(s) = Consumption(rows[u])
         /\ rows[u].status = "ABSENT" => s = rows[u]
         /\ rows[u].status # "ABSENT" =>
              /\ s.macro = macro /\ s.fee = fee /\ s.adjust = rows[u].adjust
<1>1. PICK r : r = rows[u] /\ r \in ReadingRow
  OBVIOUS
<1>2. CASE r.status = "ABSENT"
  BY <1>1, <1>2 DEF Prorated
<1>3. CASE r.status # "ABSENT"
  <2>1. s = [r EXCEPT !.macro = macro, !.fee = fee]
    BY <1>1, <1>3 DEF Prorated
  <2>2. s = [status |-> r.status, previous |-> r.previous, current |-> r.current,
             meter |-> r.meter, macro |-> macro, adjust |-> r.adjust,
             fee |-> fee, water |-> r.water, final |-> r.final]
    BY <1>1, <2>1 DEF ReadingRow
  <2>3. QED BY <1>1, <1>3, <2>2 DEF ReadingRow, Consumption
<1>4. QED BY <1>2, <1>3

(* A handler that ends in calculate.                                       *)
LEMMA CalculateKind ==
  ASSUME WaterBase, NEW m \in Month, Calculate(m), UNCHANGED <<tariffVars, ledgerVars>>
  PROVE  \E status, input : CalculatingStep(m, reading[m], status, input)
<1>1. reading[m] \in [Unit -> ReadingRow] /\ wperiod[m].status \in WPeriodStatus \ {"ABSENT"}
  BY DEF WaterBase, WaterTypeOK, WPeriodRow, Calculate, PeriodMade
<1>2. PICK input : input = tariff[EnsuredTariff(m)].input
  OBVIOUS
<1>3. \A u \in Unit : RowReady(reading[m][u], reading[m][u], input)
  BY DEF RowReady, RowKept
<1>4. CalculatingStep(m, reading[m], wperiod[m].status, input)
  BY <1>1, <1>2, <1>3 DEF Calculate, CalculatingStep, tariffVars, ledgerVars
<1>5. QED BY <1>4

LEMMA ProrationKind ==
  ASSUME WaterBase, NEW m \in Month, NEW bill \in Bill, NEW fee \in Fee,
         ApplyProration(m, bill, fee), UNCHANGED <<tariffVars, ledgerVars>>
  PROVE  WaterSteps
<1>1. /\ reading[m] \in [Unit -> ReadingRow] /\ PeriodMade(m) /\ CanCalculate(m)
      /\ wperiod[m].status \in WPeriodStatus \ {"ABSENT"}
  BY DEF WaterBase, WaterTypeOK, WPeriodRow, ApplyProration, PeriodMade
<1>2. /\ EnsuredTariff(m) \in Tariff /\ Exists(EnsuredTariff(m))
      /\ UNCHANGED <<tariff, loaded, payment, app, period, bank, meter>>
  BY <1>1, EnsuredFits DEF CanCalculate, ApplyProration, tariffVars, ledgerVars
<1>3. CASE ProrateOK(m)
  <2>1. PICK macro, input : /\ macro = MacroPerUnit(Uncovered(m, bill, fee))
                            /\ input = tariff[EnsuredTariff(m)].input
    OBVIOUS
  <2>2. Unit # {}
    BY <1>3 DEF ProrateOK, Present
  <2>3. macro \in Nat /\ fee \in Nat
    BY <1>1, <2>1, <2>2, ProratedType, WaterAssumption
  <2>4. PICK rows : rows = Prorated(reading[m], macro, fee)
    OBVIOUS
  <2>5. \A u \in Unit : /\ rows[u] \in ReadingRow
                        /\ RowReady(reading[m][u], rows[u], input)
    <3> SUFFICES ASSUME NEW u \in Unit
                 PROVE  rows[u] \in ReadingRow /\ RowReady(reading[m][u], rows[u], input)
      OBVIOUS
    <3>1. /\ rows[u] \in ReadingRow
          /\ Consumption(rows[u]) = Consumption(reading[m][u])
          /\ reading[m][u].status = "ABSENT" => rows[u] = reading[m][u]
      <4>1. macro \in Int /\ rows[u] = Prorated(reading[m], macro, fee)[u]
        BY <2>3, <2>4
      <4>2. QED BY <1>1, <2>3, <4>1, ProratedRow
    <3>2. reading[m][u].status # "ABSENT" => Priced(Consumption(reading[m][u]), input)
      BY <1>3, <2>1 DEF ProrateOK, Present, Billed
    <3>3. QED BY <3>1, <3>2 DEF RowReady, RowKept
  <2>6. rows \in [Unit -> ReadingRow]
    BY <2>4, <2>5 DEF Prorated
  <2>7. WriteCalculated(m, rows, wperiod[m].status)
    BY <1>3, <2>1, <2>4 DEF ApplyProration
  <2>8. CalculatingStep(m, rows, wperiod[m].status, input)
    BY <1>1, <1>2, <2>1, <2>5, <2>6, <2>7 DEF CalculatingStep
  <2>9. QED BY <2>6, <2>8 DEF WaterSteps
<1>4. CASE ~ProrateOK(m)
  <2>1. /\ wperiod' = [wperiod EXCEPT ![m].tariff = EnsuredTariff(m)]
        /\ UNCHANGED <<reading, charge>>
    BY <1>4 DEF ApplyProration
  <2>2. PICK row : row = [wperiod[m] EXCEPT !.tariff = EnsuredTariff(m)]
    OBVIOUS
  <2>3. /\ row \in WPeriodRow /\ row.status = wperiod[m].status
        /\ row.tariff = EnsuredTariff(m)
    BY <1>2, <2>2 DEF WaterBase, WaterTypeOK, WPeriodRow
  <2>4. wperiod' = [wperiod EXCEPT ![m] = row]
    BY <2>1, <2>2
  <2>5. /\ wperiod' \in [Month -> WPeriodRow]
        /\ \A k \in Month : wperiod'[k] = IF k = m THEN row ELSE wperiod[k]
    BY <2>3, <2>4 DEF WaterBase, WaterTypeOK
  <2>6. \A k \in Month : /\ PeriodMade(k) => PeriodMade(k)'
                         /\ wperiod'[k].tariff # None => Exists(wperiod'[k].tariff)
    BY <1>2, <2>3, <2>5 DEF PeriodMade, WaterBase, TariffsFit
  <2>7. reading' = [reading EXCEPT ![m] = reading[m]]
    BY <2>1 DEF WaterBase, WaterTypeOK
  <2>8. PlainStep(m, reading[m])
    BY <1>1, <1>2, <2>1, <2>5, <2>6, <2>7 DEF PlainStep, RowKept, vars
  <2>9. QED BY <1>1, <2>8 DEF WaterSteps
<1>5. QED BY <1>3, <1>4

LEMMA ImportKind ==
  ASSUME WaterBase, NEW m \in Month, NEW file \in Files, NEW fee \in Fee, NEW calculate,
         ImportReadings(m, file, fee, calculate), UNCHANGED <<tariffVars, ledgerVars>>
  PROVE  WaterSteps
<1>1. /\ reading[m] \in [Unit -> ReadingRow] /\ PeriodMade(m)
      /\ wperiod[m].status \in WPeriodStatus \ {"ABSENT"}
      /\ UNCHANGED <<tariff, loaded, payment, app, period, bank, meter>>
  BY DEF WaterBase, WaterTypeOK, WPeriodRow, ImportReadings, PeriodMade, tariffVars, ledgerVars
<1>2. DOMAIN file \subseteq Unit /\ \A u \in DOMAIN file : file[u] \in RowInput
  <2>1. PICK S \in (SUBSET Unit) \ {{}} : file \in [S -> RowInputs]
    BY DEF Files
  <2>2. QED BY <2>1, WaterAssumption
<1>3. PICK good : good = {u \in DOMAIN file : Importable(u, file[u])}
  OBVIOUS
<1>4. PICK n \in [good -> Meter] :
        EndImport(m, [u \in Unit |-> IF u \in good
                                     THEN Imported(reading[m][u], file[u], n[u], fee)
                                     ELSE reading[m][u]],
                  ImportStatus(m, good), calculate /\ good = DOMAIN file)
  BY <1>3 DEF ImportReadings
<1>5. PICK rows : rows = [u \in Unit |-> IF u \in good
                                         THEN Imported(reading[m][u], file[u], n[u], fee)
                                         ELSE reading[m][u]]
  OBVIOUS
<1>6. \A u \in Unit : rows[u] \in ReadingRow /\ RowKept(reading[m][u], rows[u])
  <2> SUFFICES ASSUME NEW u \in Unit
               PROVE  rows[u] \in ReadingRow /\ RowKept(reading[m][u], rows[u])
    OBVIOUS
  <2>1. CASE u \in good
    <3>1. PICK r, row, k : r = reading[m][u] /\ row = file[u] /\ k = n[u]
      OBVIOUS
    <3>2. r \in ReadingRow /\ row \in RowInput /\ k \in Meter
      BY <1>1, <1>2, <1>3, <2>1, <3>1
    <3>3. rows[u] = Imported(r, row, k, fee)
      BY <1>5, <2>1, <3>1
    <3>4. rows[u] \in ReadingRow /\ rows[u].status = "CAPTURED"
      BY <3>2, <3>3, ImportedRow
    <3>5. QED BY <3>4 DEF RowKept
  <2>2. CASE u \notin good
    BY <1>1, <1>5, <2>2 DEF RowKept
  <2>3. QED BY <2>1, <2>2
<1>7. rows \in [Unit -> ReadingRow]
  BY <1>5, <1>6
<1>8. PICK status : status = ImportStatus(m, good)
  OBVIOUS
<1>9. status \in WPeriodStatus \ {"ABSENT"}
  BY <1>1, <1>8 DEF ImportStatus, WPeriodStatus
<1>10. CASE calculate /\ good = DOMAIN file /\ CanCalculate(m)
  <2>1. PICK input : input = tariff[EnsuredTariff(m)].input
    OBVIOUS
  <2>2. WriteCalculated(m, rows, status)
    BY <1>4, <1>5, <1>8, <1>10 DEF EndImport
  <2>3. CalculatingStep(m, rows, status, input)
    BY <1>1, <1>6, <1>7, <1>9, <1>10, <2>1, <2>2 DEF CalculatingStep, RowReady
  <2>4. QED BY <1>7, <2>3 DEF WaterSteps
<1>11. CASE ~(calculate /\ good = DOMAIN file /\ CanCalculate(m))
  <2>1. /\ reading' = [reading EXCEPT ![m] = rows]
        /\ wperiod' = [wperiod EXCEPT ![m].status = status]
        /\ UNCHANGED charge
    BY <1>4, <1>5, <1>8, <1>11 DEF EndImport
  <2>2. PICK row : row = [wperiod[m] EXCEPT !.status = status]
    OBVIOUS
  <2>3. /\ row \in WPeriodRow /\ row.status = status
        /\ row.tariff = wperiod[m].tariff
    BY <1>9, <2>2 DEF WaterBase, WaterTypeOK, WPeriodRow
  <2>4. wperiod' = [wperiod EXCEPT ![m] = row]
    BY <2>1, <2>2
  <2>5. /\ wperiod' \in [Month -> WPeriodRow]
        /\ \A k \in Month : wperiod'[k] = IF k = m THEN row ELSE wperiod[k]
    BY <2>3, <2>4 DEF WaterBase, WaterTypeOK
  <2>6. \A k \in Month : /\ PeriodMade(k) => PeriodMade(k)'
                         /\ wperiod'[k].tariff # None => Exists(wperiod'[k].tariff)
    BY <1>9, <2>3, <2>5 DEF PeriodMade, WaterBase, TariffsFit
  <2>7. PlainStep(m, rows)
    BY <1>1, <1>6, <1>7, <2>1, <2>5, <2>6 DEF PlainStep, vars
  <2>8. QED BY <1>7, <2>7 DEF WaterSteps
<1>12. QED BY <1>10, <1>11

LEMMA BillingKinds ==
  ASSUME WaterBase, BillingNext, UNCHANGED <<tariffVars, ledgerVars>>
  PROVE  WaterSteps
<1>1. PICK m \in Month :
        \/ Calculate(m)
        \/ \E bill \in Bill, fee \in Fee : ApplyProration(m, bill, fee)
        \/ \E file \in Files, fee \in Fee, calculate \in BOOLEAN :
             ImportReadings(m, file, fee, calculate)
  BY DEF BillingNext
<1>2. CASE Calculate(m)
  <2>1. reading[m] \in [Unit -> ReadingRow]
    BY DEF WaterBase, WaterTypeOK
  <2>2. QED BY <1>2, <2>1, CalculateKind DEF WaterSteps
<1>3. CASE \E bill \in Bill, fee \in Fee : ApplyProration(m, bill, fee)
  BY <1>3, ProrationKind
<1>4. CASE \E file \in Files, fee \in Fee, calculate \in BOOLEAN :
             ImportReadings(m, file, fee, calculate)
  BY <1>4, ImportKind
<1>5. QED BY <1>1, <1>2, <1>3, <1>4

(* The handlers of one reading and of the list of readings.                *)
LEMMA GenerateKind ==
  ASSUME WaterInv, NEW m \in Month, GenerateReadings(m),
         UNCHANGED <<tariffVars, ledgerVars>>
  PROVE  \E rows : PlainStep(m, rows)
<1>1. PICK latest \in [Unit -> Meter \cup {None}] :
        /\ \A u \in Unit : IF ActiveMeters(u) = {} THEN latest[u] = None
                           ELSE latest[u] \in ActiveMeters(u)
        /\ reading' = [reading EXCEPT ![m] = [u \in Unit |->
             IF latest[u] = None THEN reading[m][u]
             ELSE Generated(reading[m][u], latest[u], Inherited(m, u, latest[u]))]]
  BY DEF GenerateReadings
<1>2. PICK rows : rows = [u \in Unit |->
             IF latest[u] = None THEN reading[m][u]
             ELSE Generated(reading[m][u], latest[u], Inherited(m, u, latest[u]))]
  OBVIOUS
<1>3. \A u \in Unit : rows[u] \in ReadingRow /\ RowKept(reading[m][u], rows[u])
  <2> SUFFICES ASSUME NEW u \in Unit
               PROVE  rows[u] \in ReadingRow /\ RowKept(reading[m][u], rows[u])
    OBVIOUS
  <2>1. reading[m][u] \in ReadingRow
    BY RowTypes DEF WaterInv
  <2>2. CASE latest[u] = None
    BY <1>2, <2>1, <2>2 DEF RowKept
  <2>3. CASE latest[u] # None
    <3>1. PICK n, previous : n = latest[u] /\ previous = Inherited(m, u, n)
      OBVIOUS
    <3>2. n \in Meter
      BY <2>3, <3>1
    <3>3. previous \in Level
      BY <3>1, <3>2, InheritedType DEF WaterInv
    <3>4. reading[m][u].status = "DRAFT" => Consumption(reading[m][u]) = 0
      BY DEF WaterInv, DraftUnconsumed
    <3>5. rows[u] = Generated(reading[m][u], n, previous)
      BY <1>2, <2>3, <3>1
    <3>6. /\ rows[u] \in ReadingRow
          /\ reading[m][u].status = "CALCULATED" => rows[u] = reading[m][u]
          /\ reading[m][u].status # "CALCULATED" => rows[u].status \in {"DRAFT", "CAPTURED"}
          /\ rows[u].status = "DRAFT" => Consumption(rows[u]) = 0
      BY <2>1, <3>2, <3>3, <3>4, <3>5, GeneratedRow
    <3>7. QED BY <3>6 DEF RowKept
  <2>4. QED BY <2>2, <2>3
<1>4. rows \in [Unit -> ReadingRow]
  BY <1>2, <1>3
<1>5. reading' = [reading EXCEPT ![m] = rows]
  BY <1>1, <1>2
<1>6. /\ PeriodMade(m) /\ UNCHANGED <<wperiod, meter, vars, tariff, loaded>>
  BY DEF GenerateReadings, tariffVars, ledgerVars, vars
<1>7. PlainStep(m, rows)
  BY <1>3, <1>4, <1>5, <1>6
  DEF PlainStep, WaterInv, WaterBase, WaterTypeOK, TariffsFit, PeriodMade
<1>8. QED BY <1>7

LEMMA SyncKind ==
  ASSUME WaterInv, NEW m \in Month, SyncReadings(m),
         UNCHANGED <<tariffVars, ledgerVars>>
  PROVE  \E rows : PlainStep(m, rows)
<1>1. PICK n \in [Unit -> Meter \cup {None}] :
        /\ \A u \in Unit : IF MetersOf(u, reading[m][u]) = {} THEN n[u] = None
                           ELSE n[u] \in MetersOf(u, reading[m][u])
        /\ reading' = [reading EXCEPT ![m] = [u \in Unit |->
             IF n[u] = None \/ ~Pending(reading[m][u]) THEN reading[m][u]
             ELSE Resynced(reading[m][u], Inherited(m, u, n[u]))]]
  BY DEF SyncReadings
<1>2. PICK rows : rows = [u \in Unit |->
             IF n[u] = None \/ ~Pending(reading[m][u]) THEN reading[m][u]
             ELSE Resynced(reading[m][u], Inherited(m, u, n[u]))]
  OBVIOUS
<1>3. \A u \in Unit : rows[u] \in ReadingRow /\ RowKept(reading[m][u], rows[u])
  <2> SUFFICES ASSUME NEW u \in Unit
               PROVE  rows[u] \in ReadingRow /\ RowKept(reading[m][u], rows[u])
    OBVIOUS
  <2>1. reading[m][u] \in ReadingRow
    BY RowTypes DEF WaterInv
  <2>2. CASE n[u] = None \/ ~Pending(reading[m][u])
    BY <1>2, <2>1, <2>2 DEF RowKept
  <2>3. CASE n[u] # None /\ Pending(reading[m][u])
    <3>1. PICK previous : previous = Inherited(m, u, n[u])
      OBVIOUS
    <3>2. n[u] \in Meter
      BY <2>3
    <3>3. previous \in Level
      BY <3>1, <3>2, InheritedType DEF WaterInv
    <3>4. reading[m][u].status = "DRAFT" => Consumption(reading[m][u]) = 0
      BY DEF WaterInv, DraftUnconsumed
    <3>5. rows[u] = Resynced(reading[m][u], previous)
      BY <1>2, <2>3, <3>1
    <3>6. /\ rows[u] \in ReadingRow /\ rows[u].status = reading[m][u].status
          /\ rows[u].status = "DRAFT" => Consumption(rows[u]) = 0
      BY <2>1, <2>3, <3>3, <3>4, <3>5, ResyncedRow
    <3>7. QED BY <2>3, <3>6 DEF RowKept, Pending
  <2>4. QED BY <2>2, <2>3
<1>4. rows \in [Unit -> ReadingRow]
  BY <1>2, <1>3
<1>5. reading' = [reading EXCEPT ![m] = rows]
  BY <1>1, <1>2
<1>6. /\ PeriodMade(m) /\ UNCHANGED <<wperiod, meter, vars, tariff, loaded>>
  BY DEF SyncReadings, tariffVars, ledgerVars, vars
<1>7. PlainStep(m, rows)
  BY <1>3, <1>4, <1>5, <1>6
  DEF PlainStep, WaterInv, WaterBase, WaterTypeOK, TariffsFit, PeriodMade
<1>8. QED BY <1>7

(* One reading becomes a captured one.                                     *)
LEMMA CaptureKind ==
  ASSUME WaterInv, NEW m \in Month, NEW u \in Unit, PeriodMade(m),
         NEW row \in ReadingRow, row.status = "CAPTURED",
         reading' = [reading EXCEPT ![m] = [reading[m] EXCEPT ![u] = row]],
         UNCHANGED <<wperiod, meter, vars, tariff, loaded>>
  PROVE  \E rows : PlainStep(m, rows)
<1>1. PICK rows : rows = [reading[m] EXCEPT ![u] = row]
  OBVIOUS
<1>2. reading[m] \in [Unit -> ReadingRow]
  BY DEF WaterInv, WaterBase, WaterTypeOK
<1>3. /\ rows \in [Unit -> ReadingRow]
      /\ \A v \in Unit : rows[v] = IF v = u THEN row ELSE reading[m][v]
  BY <1>1, <1>2
<1>4. \A v \in Unit : RowKept(reading[m][v], rows[v])
  BY <1>3 DEF RowKept
<1>5. PlainStep(m, rows)
  BY <1>1, <1>3, <1>4
  DEF PlainStep, WaterInv, WaterBase, WaterTypeOK, TariffsFit, PeriodMade
<1>6. QED BY <1>5

LEMMA UpdateKind ==
  ASSUME WaterInv, NEW m \in Month, NEW u \in Unit, NEW previous \in Level,
         NEW current \in Level, NEW mode, NEW macro \in Int, NEW adjust \in Int,
         UpdateReading(m, u, previous, current, mode, macro, adjust),
         UNCHANGED <<tariffVars, ledgerVars>>
  PROVE  \E rows : PlainStep(m, rows)
<1>1. PICK r : r = reading[m][u] /\ r \in ReadingRow
  BY RowTypes DEF WaterInv
<1>2. PICK row : row = [r EXCEPT !.previous = previous, !.current = current,
                                 !.macro = macro, !.adjust = adjust,
                                 !.status = "CAPTURED"]
  OBVIOUS
<1>3. /\ row = [status |-> "CAPTURED", previous |-> previous, current |-> current,
                meter |-> r.meter, macro |-> macro, adjust |-> adjust,
                fee |-> r.fee, water |-> r.water, final |-> r.final]
      /\ r.meter \in Meter \cup {None} /\ r.fee \in Nat /\ r.water \in Int /\ r.final \in Int
  BY <1>1, <1>2 DEF ReadingRow
<1>4. row \in ReadingRow /\ row.status = "CAPTURED"
  BY <1>3 DEF ReadingRow, ReadingStatus
<1>5. reading' = [reading EXCEPT ![m] = [reading[m] EXCEPT ![u] = row]]
  BY <1>1, <1>2 DEF UpdateReading, WaterInv, WaterBase, WaterTypeOK
<1>6. PeriodMade(m) /\ UNCHANGED <<wperiod, meter, vars, tariff, loaded>>
  BY DEF UpdateReading, tariffVars, ledgerVars, vars, WaterInv, ReadingsMade
<1>7. QED BY <1>4, <1>5, <1>6, CaptureKind

LEMMA BatchKind ==
  ASSUME WaterInv, NEW m \in Month, NEW u \in Unit, NEW previous \in Level,
         NEW current \in Level, BatchReading(m, u, previous, current),
         UNCHANGED <<tariffVars, ledgerVars>>
  PROVE  \E rows : PlainStep(m, rows)
<1>1. PICK r : r = reading[m][u] /\ r \in ReadingRow
  BY RowTypes DEF WaterInv
<1>2. PICK row : row = IF r.status = "ABSENT"
                       THEN NewReading(None, previous, current, "CAPTURED")
                       ELSE [r EXCEPT !.status = "CAPTURED", !.current = current,
                                      !.previous = previous]
  OBVIOUS
<1>3. row \in ReadingRow /\ row.status = "CAPTURED"
  <2>1. CASE r.status = "ABSENT"
    <3>1. None \in Meter \cup {None} /\ "CAPTURED" \in ReadingStatus
      BY DEF ReadingStatus
    <3>2. row = NewReading(None, previous, current, "CAPTURED")
      BY <1>2, <2>1
    <3>3. QED BY <3>1, <3>2, NewReadingType
  <2>2. CASE r.status # "ABSENT"
    <3>1. row = [r EXCEPT !.status = "CAPTURED", !.current = current,
                          !.previous = previous]
      BY <1>2, <2>2
    <3>2. row = [status |-> "CAPTURED", previous |-> previous, current |-> current,
                 meter |-> r.meter, macro |-> r.macro, adjust |-> r.adjust,
                 fee |-> r.fee, water |-> r.water, final |-> r.final]
      BY <1>1, <3>1 DEF ReadingRow
    <3>3. QED BY <1>1, <3>2 DEF ReadingRow, ReadingStatus
  <2>3. QED BY <2>1, <2>2
<1>4. reading' = [reading EXCEPT ![m] = [reading[m] EXCEPT ![u] = row]]
  BY <1>1, <1>2 DEF BatchReading, WaterInv, WaterBase, WaterTypeOK
<1>5. PeriodMade(m) /\ UNCHANGED <<wperiod, meter, vars, tariff, loaded>>
  BY DEF BatchReading, tariffVars, ledgerVars, vars
<1>6. QED BY <1>3, <1>4, <1>5, CaptureKind

-----------------------------------------------------------------------------
LEMMA WaterStepsInv == WaterInv /\ WaterSteps => WaterInv'
BY PlainInv, CalculatingInv DEF WaterSteps

LEMMA ReadingInv ==
  ASSUME WaterInv, ReadingStep
  PROVE  WaterInv'
<1>1. UNCHANGED <<tariffVars, ledgerVars>> /\ ReadingNext
  BY DEF ReadingStep
<1>2. CASE BillingNext
  BY <1>1, <1>2, BillingKinds, WaterStepsInv DEF WaterInv
<1>3. CASE \E m \in Month :
       \/ GenerateReadings(m)
       \/ SyncReadings(m)
       \/ \E u \in Unit, previous, current \in Level :
            \/ \E mode \in {"ACTUAL", "METER_REPLACEMENT"},
                 macro \in MacroPrice \cup {reading[m][u].macro},
                 adjust \in Adjustment \cup {reading[m][u].adjust} :
                 UpdateReading(m, u, previous, current, mode, macro, adjust)
            \/ BatchReading(m, u, previous, current)
  <2>1. PICK m \in Month :
       \/ GenerateReadings(m)
       \/ SyncReadings(m)
       \/ \E u \in Unit, previous, current \in Level :
            \/ \E mode \in {"ACTUAL", "METER_REPLACEMENT"},
                 macro \in MacroPrice \cup {reading[m][u].macro},
                 adjust \in Adjustment \cup {reading[m][u].adjust} :
                 UpdateReading(m, u, previous, current, mode, macro, adjust)
            \/ BatchReading(m, u, previous, current)
    BY <1>3
  <2>2. ASSUME \E rows : PlainStep(m, rows) PROVE WaterInv'
    BY <2>2, PlainInv
  <2>3. CASE GenerateReadings(m) \/ SyncReadings(m)
    BY <1>1, <2>2, <2>3, GenerateKind, SyncKind
  <2>4. ASSUME NEW u \in Unit, NEW previous \in Level, NEW current \in Level,
               \/ \E mode \in {"ACTUAL", "METER_REPLACEMENT"},
                    macro \in MacroPrice \cup {reading[m][u].macro},
                    adjust \in Adjustment \cup {reading[m][u].adjust} :
                    UpdateReading(m, u, previous, current, mode, macro, adjust)
               \/ BatchReading(m, u, previous, current)
        PROVE  WaterInv'
    <3>1. reading[m][u].macro \in Int /\ reading[m][u].adjust \in Int
      BY RowTypes DEF WaterInv, ReadingRow
    <3>2. MacroPrice \subseteq Int /\ Adjustment \subseteq Int
      BY WaterAssumption
    <3>3. CASE BatchReading(m, u, previous, current)
      BY <1>1, <2>2, <3>3, BatchKind
    <3>4. ASSUME NEW mode, NEW macro \in MacroPrice \cup {reading[m][u].macro},
                 NEW adjust \in Adjustment \cup {reading[m][u].adjust},
                 UpdateReading(m, u, previous, current, mode, macro, adjust)
          PROVE  WaterInv'
      <4>1. macro \in Int /\ adjust \in Int
        BY <3>1, <3>2
      <4>2. QED BY <1>1, <2>2, <3>4, <4>1, UpdateKind
    <3>5. QED BY <2>4, <3>3, <3>4
  <2>5. QED BY <2>1, <2>3, <2>4
<1>4. QED BY <1>1, <1>2, <1>3 DEF ReadingNext

LEMMA OutsideInv ==
  ASSUME WaterInv, PeriodStep \/ TariffStep \/ LedgerStep
  PROVE  WaterInv'
<1>1. CASE PeriodStep \/ TariffStep
  <2>1. WaterBase' /\ \A m \in Month : PeriodMade(m) => PeriodMade(m)'
    BY <1>1, PeriodStepFits, TariffStepFits DEF WaterInv
  <2>2. UNCHANGED <<reading, charge>>
    BY <1>1 DEF PeriodStep, TariffStep, vars
  <2>3. QED BY <2>1, <2>2
            DEF WaterInv, DraftUnconsumed, CalculatedAddsUp, ReadingsMade,
                ChargedAsRead, ChargedAs
<1>2. CASE LedgerStep
  <2>1. WaterBase' /\ UNCHANGED waterVars
    BY <1>2, LedgerStepFits DEF WaterInv
  <2>2. \A c \in Charge :
          /\ charge'[c].amount = charge[c].amount
          /\ charge'[c].movement = charge[c].movement
          /\ charge[c].status # "ABSENT" => charge'[c].status # "ABSENT"
    BY <1>2, LedgerCharges DEF LedgerStep, WaterInv, WaterBase, WaterTypeOK
  <2>3. UNCHANGED <<reading, wperiod>>
    BY <2>1 DEF waterVars
  <2>4. ChargedAsRead'
    <3>1. \A m \in Month, u \in Unit : WaterCharge[m][u] \in Charge
      BY WaterAssumption
    <3>2. QED BY <2>2, <2>3, <3>1 DEF WaterInv, ChargedAsRead, ChargedAs
  <2>5. QED BY <2>1, <2>3, <2>4
            DEF WaterInv, DraftUnconsumed, CalculatedAddsUp, ReadingsMade, PeriodMade
<1>3. QED BY <1>1, <1>2

LEMMA QuietInv ==
  ASSUME WaterInv, UNCHANGED wbVars
  PROVE  WaterInv'
<1>1. UNCHANGED <<vars, waterVars>>
  BY DEF wbVars
<1>2. TypeOK'
  BY <1>1 DEF WaterInv, WaterBase, WaterTypeOK, TypeOK, vars
<1>3. QED BY <1>1, <1>2
          DEF WaterInv, WaterBase, WaterTypeOK, TariffsFit, Exists, DraftUnconsumed,
              CalculatedAddsUp, ReadingsMade, PeriodMade, ChargedAsRead, ChargedAs,
              waterVars, vars

LEMMA NextWater ==
  WaterInv /\ ([ReadingsNext]_wbVars \/ [BilledNext]_wbVars) => WaterInv'
<1>1. ASSUME WaterInv, BillingStep PROVE WaterInv'
  BY <1>1, BillingKinds, WaterStepsInv DEF WaterInv, BillingStep
<1>2. QED BY <1>1, ReadingInv, OutsideInv, QuietInv DEF ReadingsNext, BilledNext

LEMMA LoadedSequence == SetToSeq(Tariff) \in Seq(Tariff)
<1>1. PICK n : n = Cardinality(Tariff)
  OBVIOUS
<1>2. n \in Nat /\ ExistsBijection(1..n, Tariff)
  BY <1>1, WaterAssumption, FS_CardinalityType
<1>3. \E f \in [1..n -> Tariff] : IsInjective(f)
  BY <1>2 DEF ExistsBijection, Bijection, Injection
<1>4. SetToSeq(Tariff) \in [1..n -> Tariff]
  BY <1>1, <1>3 DEF SetToSeq
<1>5. QED BY <1>2, <1>4

LEMMA InitWater == ReadingsInit \/ BilledInit => WaterInv
<1> SUFFICES ASSUME ReadingsInit \/ BilledInit PROVE WaterInv
  OBVIOUS
<1>1. WaterInit /\ InstalledMeters
  BY DEF ReadingsInit, BilledInit
<1>2. TypeOK
  BY <1>1, InitTypeOK DEF WaterInit
<1>3. /\ wperiod \in [Month -> WPeriodRow]
      /\ \A m \in Month : wperiod[m].tariff = None
  BY <1>1 DEF WaterInit, WPeriodRow, WPeriodStatus
<1>4. /\ reading \in [Month -> [Unit -> ReadingRow]]
      /\ \A m \in Month, u \in Unit : reading[m][u].status = "ABSENT"
  <2>1. NoReading \in ReadingRow /\ NoReading.status = "ABSENT"
    BY NewReadingType, WaterAssumption DEF NoReading, ReadingStatus
  <2>2. QED BY <1>1, <2>1 DEF WaterInit
<1>5. meter \in [Meter -> MeterRow]
  BY <1>1, WaterAssumption DEF InstalledMeters, MeterRow, MeterStatus
<1>6. /\ tariff \in [Tariff -> TariffRow] /\ loaded \in Seq(Tariff)
      /\ \A t \in Tariff : IF Exists(t) THEN tariff[t].input \in TariffInput
                           ELSE tariff[t].date = None /\ tariff[t].month = None
  <2>1. CASE LoadedTariffs
    BY <2>1, WaterAssumption, LoadedSequence DEF LoadedTariffs, TariffRow, TariffStatus, Exists
  <2>2. CASE TariffInit
    BY <2>2 DEF TariffInit, TariffRow, TariffStatus, Exists
  <2>3. QED BY <2>1, <2>2 DEF ReadingsInit, BilledInit
<1>7. QED BY <1>2, <1>3, <1>4, <1>5, <1>6
          DEF WaterInv, WaterBase, WaterTypeOK, TariffsFit, DraftUnconsumed,
              CalculatedAddsUp, ReadingsMade, ChargedAsRead

LEMMA WaterCorrect ==
  /\ ReadingSpec => []WaterInv
  /\ WaterSpec => []WaterInv
<1>1. ReadingSpec => []WaterInv
  BY InitWater, NextWater, PTL DEF ReadingSpec
<1>2. WaterSpec => []WaterInv
  BY InitWater, NextWater, PTL DEF WaterSpec
<1>3. QED BY <1>1, <1>2
-----------------------------------------------------------------------------
(* What follows from the invariant.                                        *)

LEMMA AllRows ==
  ASSUME WaterBase, NEW m \in Month, MissingUnits(m) = 0
  PROVE  Rows(m) = Unit
<1>1. PICK a, b : a = Cardinality(Unit) /\ b = Cardinality(Rows(m))
  OBVIOUS
<1>2. /\ Rows(m) \subseteq Unit /\ IsFiniteSet(Rows(m))
      /\ a \in Nat /\ b \in Nat /\ b <= a
      /\ a = b => Rows(m) = Unit
  <2>1. Rows(m) \subseteq Unit
    BY DEF Rows, Present
  <2>2. IsFiniteSet(Unit)
    BY WaterAssumption
  <2>3. /\ IsFiniteSet(Rows(m)) /\ Cardinality(Rows(m)) <= Cardinality(Unit)
        /\ Cardinality(Rows(m)) = Cardinality(Unit) => Rows(m) = Unit
    BY <2>1, <2>2, FS_Subset
  <2>4. a \in Nat /\ b \in Nat
    BY <1>1, <2>2, <2>3, FS_CardinalityType
  <2>5. QED BY <1>1, <2>1, <2>3, <2>4
<1>3. Max({0, a - b}) = 0
  BY <1>1 DEF MissingUnits
<1>4. \A x \in {0, a - b} : x <= a - b
  BY <1>2
<1>5. Max({0, a - b}) >= a - b
  <2>1. \E x \in {0, a - b} : \A y \in {0, a - b} : x >= y
    BY <1>2, <1>4
  <2>2. QED BY <2>1 DEF Max
<1>6. QED BY <1>2, <1>3, <1>5

LEMMA ReportCorrect == WaterInv => ReportIsCharged
<1> SUFFICES ASSUME WaterInv, NEW m \in Month, Complete(m)
             PROVE  /\ ReportTotal(m) =
                         Total([u \in Unit |-> SignedAmount(WaterCharge[m][u])])
                    /\ ReportTotal(m) = ReportWater(m) + ReportFees(m) + ReportMacro(m)
                         + Total([u \in Rows(m) |-> reading[m][u].adjust])
  BY DEF ReportIsCharged
<1>1. WaterBase /\ Rows(m) = Unit /\ IsFiniteSet(Unit)
  BY AllRows, WaterAssumption DEF WaterInv, Complete
<1>2. \A u \in Unit : reading[m][u].status = "CALCULATED"
  <2>1. PICK S : S = {u \in Rows(m) : reading[m][u].status = "CALCULATED"}
    OBVIOUS
  <2>2. S \subseteq Unit /\ Cardinality(S) = Cardinality(Unit)
    BY <1>1, <2>1 DEF Complete, CalculatedCount
  <2>3. S = Unit
    BY <1>1, <2>2, FS_Subset
  <2>4. QED BY <2>1, <2>3
<1>3. PICK total, water, fees, macro, adjust, signed :
        /\ total = [u \in Unit |-> reading[m][u].final]
        /\ water = [u \in Unit |-> reading[m][u].water]
        /\ fees = [u \in Unit |-> reading[m][u].fee]
        /\ macro = [u \in Unit |-> reading[m][u].macro]
        /\ adjust = [u \in Unit |-> reading[m][u].adjust]
        /\ signed = [u \in Unit |-> SignedAmount(WaterCharge[m][u])]
  OBVIOUS
<1>4. \A u \in Unit :
        /\ water[u] \in Int /\ fees[u] \in Int /\ macro[u] \in Int /\ adjust[u] \in Int
        /\ total[u] \in Int
        /\ total[u] = water[u] + fees[u] + macro[u] + adjust[u]
        /\ signed[u] = total[u]
  <2> SUFFICES ASSUME NEW u \in Unit
               PROVE  /\ water[u] \in Int /\ fees[u] \in Int
                      /\ macro[u] \in Int /\ adjust[u] \in Int
                      /\ total[u] \in Int
                      /\ total[u] = water[u] + fees[u] + macro[u] + adjust[u]
                      /\ signed[u] = total[u]
    OBVIOUS
  <2>1. PICK r, c : r = reading[m][u] /\ c = WaterCharge[m][u]
    OBVIOUS
  <2>2. r \in ReadingRow
    BY <1>1, <2>1, RowTypes
  <2>3. r.status = "CALCULATED" /\ r.final = r.water + r.macro + r.adjust + r.fee
    BY <1>2, <2>1 DEF WaterInv, CalculatedAddsUp
  <2>4. ChargedAs(charge[c], r.final)
    BY <2>1, <2>3 DEF WaterInv, ChargedAsRead
  <2>5. SignedAmount(c) = r.final
    <3>1. r.final \in Int
      BY <2>2 DEF ReadingRow
    <3>2. QED BY <2>4, <3>1 DEF ChargedAs, Magnitude, Direction, SignedAmount
  <2>6. /\ r.water \in Int /\ r.macro \in Int /\ r.adjust \in Int /\ r.fee \in Int
        /\ r.final \in Int
    BY <2>2 DEF ReadingRow
  <2>7. QED BY <1>3, <2>1, <2>3, <2>5, <2>6
<1>5. PICK some, more : /\ some = [u \in Unit |-> water[u] + fees[u]]
                        /\ more = [u \in Unit |-> some[u] + macro[u]]
  OBVIOUS
<1>6. /\ DOMAIN total = Unit /\ DOMAIN water = Unit /\ DOMAIN fees = Unit
      /\ DOMAIN macro = Unit /\ DOMAIN adjust = Unit /\ DOMAIN signed = Unit
      /\ DOMAIN some = Unit /\ DOMAIN more = Unit
  BY <1>3, <1>5
<1>7. Whole(water) /\ Whole(fees) /\ Whole(macro) /\ Whole(adjust)
  BY <1>1, <1>4, <1>6 DEF Whole
<1>8. \A u \in Unit : /\ some[u] = water[u] + fees[u] /\ more[u] = some[u] + macro[u]
                      /\ total[u] = more[u] + adjust[u]
  BY <1>4, <1>5
<1>9. Whole(some) /\ Total(some) = Total(water) + Total(fees)
  BY <1>6, <1>7, <1>8, TotalPlus
<1>10. Whole(more) /\ Total(more) = Total(some) + Total(macro)
  BY <1>6, <1>7, <1>8, <1>9, TotalPlus
<1>11. Total(total) = Total(more) + Total(adjust)
  BY <1>6, <1>7, <1>8, <1>10, TotalPlus
<1>12. Total(total) = Total(signed)
  BY <1>4, <1>6, TotalSame
<1>13. /\ ReportTotal(m) = Total(total) /\ ReportWater(m) = Total(water)
       /\ ReportFees(m) = Total(fees) /\ ReportMacro(m) = Total(macro)
       /\ Total([u \in Rows(m) |-> reading[m][u].adjust]) = Total(adjust)
  BY <1>1, <1>3 DEF ReportTotal, ReportWater, ReportFees, ReportMacro
<1>14. Total([u \in Unit |-> SignedAmount(WaterCharge[m][u])]) = Total(signed)
  BY <1>3
<1>15. QED BY <1>9, <1>10, <1>11, <1>12, <1>13, <1>14

-----------------------------------------------------------------------------
(* Steps.                                                                  *)

(* What the two handlers that inherit do to a row of their month.          *)
LEMMA InheritingRows ==
  ASSUME WaterInv, NEW m \in Month, GenerateReadings(m) \/ SyncReadings(m),
         NEW u \in Unit
  PROVE  /\ reading[m][u].status = "CALCULATED" => reading'[m][u] = reading[m][u]
         /\ ActiveMeters(u) # {} /\ Pending(reading[m][u])' =>
              \E n \in Meter : reading'[m][u].previous = Inherited(m, u, n)
         /\ \A k \in Month \ {m} : reading'[k] = reading[k]
<1>1. PICK r, s : r = reading[m][u] /\ s = reading'[m][u] /\ r \in ReadingRow
  BY RowTypes DEF WaterInv
<1>2. ActiveMeters(u) \subseteq Meter
  BY DEF ActiveMeters
<1>3. r.status = "DRAFT" => Consumption(r) = 0
  BY <1>1 DEF WaterInv, DraftUnconsumed
<1>4. CASE GenerateReadings(m)
  <2>1. PICK latest \in [Unit -> Meter \cup {None}] :
          /\ \A v \in Unit : IF ActiveMeters(v) = {} THEN latest[v] = None
                             ELSE latest[v] \in ActiveMeters(v)
          /\ reading' = [reading EXCEPT ![m] = [v \in Unit |->
               IF latest[v] = None THEN reading[m][v]
               ELSE Generated(reading[m][v], latest[v], Inherited(m, v, latest[v]))]]
    BY <1>4 DEF GenerateReadings
  <2>2. /\ s = IF latest[u] = None THEN r
               ELSE Generated(r, latest[u], Inherited(m, u, latest[u]))
        /\ \A k \in Month \ {m} : reading'[k] = reading[k]
    BY <1>1, <2>1 DEF WaterInv, WaterBase, WaterTypeOK
  <2>3. CASE latest[u] = None
    <3>1. ActiveMeters(u) = {}
      BY <1>2, <2>1, <2>3, WaterAssumption
    <3>2. QED BY <1>1, <2>2, <2>3, <3>1
  <2>4. CASE latest[u] # None
    <3>1. PICK n, previous : n = latest[u] /\ previous = Inherited(m, u, n)
      OBVIOUS
    <3>2. n \in Meter
      BY <2>4, <3>1
    <3>3. previous \in Level
      BY <3>1, <3>2, InheritedType DEF WaterInv
    <3>4. s = Generated(r, n, previous)
      BY <2>2, <2>4, <3>1
    <3>5. /\ r.status = "CALCULATED" => s = r
          /\ r.status # "CALCULATED" => s.previous = previous
      BY <1>1, <1>3, <3>2, <3>3, <3>4, GeneratedRow
    <3>6. (reading'[m][u].status \in {"DRAFT", "CAPTURED"})
            => reading'[m][u].previous = Inherited(m, u, n)
      BY <1>1, <3>1, <3>5
    <3>7. QED BY <1>1, <2>2, <3>2, <3>5, <3>6 DEF Pending
  <2>5. QED BY <2>3, <2>4
<1>5. CASE SyncReadings(m)
  <2>1. PICK n \in [Unit -> Meter \cup {None}] :
          /\ \A v \in Unit : IF MetersOf(v, reading[m][v]) = {} THEN n[v] = None
                             ELSE n[v] \in MetersOf(v, reading[m][v])
          /\ reading' = [reading EXCEPT ![m] = [v \in Unit |->
               IF n[v] = None \/ ~Pending(reading[m][v]) THEN reading[m][v]
               ELSE Resynced(reading[m][v], Inherited(m, v, n[v]))]]
    BY <1>5 DEF SyncReadings
  <2>2. /\ s = IF n[u] = None \/ ~Pending(r) THEN r
               ELSE Resynced(r, Inherited(m, u, n[u]))
        /\ \A k \in Month \ {m} : reading'[k] = reading[k]
    BY <1>1, <2>1 DEF WaterInv, WaterBase, WaterTypeOK
  <2>3. ActiveMeters(u) # {} => n[u] \in Meter
    <3>1. MetersOf(u, r) \subseteq Meter
      BY <1>1, <1>2 DEF MetersOf, ReadingRow
    <3>2. ActiveMeters(u) # {} => MetersOf(u, r) # {}
      BY DEF MetersOf
    <3>3. QED BY <1>1, <2>1, <3>1, <3>2
  <2>4. r.status = "CALCULATED" => s = r
    BY <2>2 DEF Pending
  <2>5. ASSUME ActiveMeters(u) # {}, s.status \in {"DRAFT", "CAPTURED"}
        PROVE  n[u] \in Meter /\ s.previous = Inherited(m, u, n[u])
    <3>1. n[u] \in Meter /\ n[u] # None
      BY <2>3, <2>5, WaterAssumption
    <3>2. PICK previous : previous = Inherited(m, u, n[u])
      OBVIOUS
    <3>3. previous \in Level
      BY <3>1, <3>2, InheritedType DEF WaterInv
    <3>4. Pending(r)
      BY <2>2, <2>5 DEF Pending
    <3>5. s = Resynced(r, previous)
      BY <2>2, <3>1, <3>2, <3>4
    <3>6. s.previous = previous
      BY <1>1, <1>3, <3>3, <3>4, <3>5, ResyncedRow
    <3>7. QED BY <3>1, <3>2, <3>6
  <2>6. QED BY <1>1, <2>2, <2>4, <2>5 DEF Pending
<1>6. QED BY <1>4, <1>5

LEMMA ChainStep == WaterInv => ChainsMonths
<1> SUFFICES ASSUME WaterInv, NEW m \in Month, NEW u \in Unit,
                    m - 1 \in Month, reading[m - 1][u].status # "ABSENT",
                    ActiveMeters(u) # {}, Pending(reading[m][u])',
                    GenerateReadings(m) \/ SyncReadings(m)
             PROVE  reading'[m][u].previous = reading[m - 1][u].current
  BY DEF ChainsMonths
<1>1. PICK n \in Meter : reading'[m][u].previous = Inherited(m, u, n)
  BY InheritingRows
<1>2. PeriodMade(m - 1)
  BY DEF WaterInv, ReadingsMade
<1>3. QED BY <1>1, <1>2 DEF Inherited

LEMMA KeepStep == WaterInv => KeepsCalculated
<1> SUFFICES ASSUME WaterInv, NEW m \in Month, NEW u \in Unit,
                    reading[m][u].status = "CALCULATED", NEW k \in Month,
                    GenerateReadings(k) \/ SyncReadings(k)
             PROVE  reading'[m][u] = reading[m][u]
  BY DEF KeepsCalculated
<1>1. CASE k = m
  BY <1>1, InheritingRows
<1>2. CASE k # m
  BY <1>2, InheritingRows
<1>3. QED BY <1>1, <1>2

(* A run over readings that are up to date writes what is there.           *)
LEMMA RecalculatedRow ==
  ASSUME WaterInv, NEW m \in Month, NEW u \in Unit, NEW input \in TariffInput,
         reading[m][u].status # "ABSENT" =>
           /\ reading[m][u].status = "CALCULATED"
           /\ Priced(Consumption(reading[m][u]), input)
           /\ reading[m][u].water = WaterAmount(Consumption(reading[m][u]), input)
  PROVE  Calculated(reading[m][u], input) = reading[m][u]
<1>1. PICK r, s : r = reading[m][u] /\ s = Calculated(r, input) /\ r \in ReadingRow
  BY RowTypes DEF WaterInv
<1>2. CASE r.status = "ABSENT"
  BY <1>1, <1>2 DEF Calculated
<1>3. CASE r.status # "ABSENT"
  <2>1. r.final = r.water + r.macro + r.adjust + r.fee
    BY <1>1, <1>3 DEF WaterInv, CalculatedAddsUp
  <2>2. s = [r EXCEPT !.status = "CALCULATED", !.water = r.water, !.final = r.final]
    <3>1. PICK water : water = WaterAmount(Consumption(r), input)
      OBVIOUS
    <3>2. water = r.water /\ Priced(Consumption(r), input)
      BY <1>1, <1>3, <3>1
    <3>3. s = [r EXCEPT !.status = "CALCULATED", !.water = water,
                        !.final = water + r.macro + r.adjust + r.fee]
      BY <1>1, <1>3, <3>1, <3>2 DEF Calculated
    <3>4. QED BY <2>1, <3>2, <3>3
  <2>3. r.status = "CALCULATED"
    BY <1>1, <1>3
  <2>4. s = r
    <3>1. r = [status |-> "CALCULATED", previous |-> r.previous, current |-> r.current,
               meter |-> r.meter, macro |-> r.macro, adjust |-> r.adjust,
               fee |-> r.fee, water |-> r.water, final |-> r.final]
      BY <1>1, <2>3 DEF ReadingRow
    <3>2. s = [status |-> "CALCULATED", previous |-> r.previous, current |-> r.current,
               meter |-> r.meter, macro |-> r.macro, adjust |-> r.adjust,
               fee |-> r.fee, water |-> r.water, final |-> r.final]
      BY <1>1, <2>2 DEF ReadingRow
    <3>3. QED BY <3>1, <3>2
  <2>5. QED BY <1>1, <2>4
<1>4. QED BY <1>2, <1>3

LEMMA SameCharge ==
  ASSUME NEW c \in Charge, charge[c] \in ChargeRow, NEW final \in Int,
         ChargedAs(charge[c], final)
  PROVE  ChargedFor(c, final) = charge[c]
<1>1. PICK row : row = charge[c] /\ row \in ChargeRow
  OBVIOUS
<1>2. /\ row.status # "ABSENT" /\ row.amount = Magnitude(final)
      /\ row.movement = Direction(final)
  BY <1>1 DEF ChargedAs
<1>3. ChargedFor(c, final) =
        [status |-> row.status, amount |-> row.amount, movement |-> row.movement]
  BY <1>1, <1>2 DEF ChargedFor, Magnitude, Direction
<1>4. row = [status |-> row.status, amount |-> row.amount, movement |-> row.movement]
  BY <1>1 DEF ChargeRow
<1>5. QED BY <1>1, <1>3, <1>4

LEMMA RecalculationStep == WaterInv => RecalculatesSame
<1> SUFFICES ASSUME WaterInv, NEW m \in Month, PeriodMade(m), CanCalculate(m),
                    UpToDate(m), Calculate(m)
             PROVE  UNCHANGED <<reading, charge>>
  BY DEF RecalculatesSame
<1>1. PICK input : input = tariff[EnsuredTariff(m)].input /\ input \in TariffInput
  BY EnsuredFits DEF WaterInv, CanCalculate
<1>2. WaterBase /\ reading[m] \in [Unit -> ReadingRow]
  BY DEF WaterInv, WaterBase, WaterTypeOK
<1>3. \A u \in Unit :
        reading[m][u].status # "ABSENT" =>
           /\ reading[m][u].status = "CALCULATED"
           /\ Priced(Consumption(reading[m][u]), input)
           /\ reading[m][u].water = WaterAmount(Consumption(reading[m][u]), input)
  BY <1>1 DEF UpToDate, Rows, Present
<1>4. \A u \in Unit : Calculated(reading[m][u], input) = reading[m][u]
  BY <1>1, <1>3, RecalculatedRow
<1>5. WriteCalculated(m, reading[m], wperiod[m].status)
  BY DEF Calculate
<1>6. reading' = reading
  <2>1. reading' = [reading EXCEPT ![m] = [u \in Unit |-> Calculated(reading[m][u], input)]]
    BY <1>1, <1>5 DEF WriteCalculated
  <2>2. [u \in Unit |-> Calculated(reading[m][u], input)] = reading[m]
    BY <1>2, <1>4
  <2>3. QED BY <1>2, <2>1, <2>2 DEF WaterBase, WaterTypeOK
<1>7. charge' = charge
  <2>1. PICK billed : billed = Billed(reading[m], input)
    OBVIOUS
  <2>2. charge' = [c \in Charge |->
           IF \E u \in billed : WaterCharge[m][u] = c
           THEN ChargedFor(c, Calculated(reading[m][CHOOSE u \in billed : WaterCharge[m][u] = c],
                                         input).final)
           ELSE charge[c]]
    BY <1>1, <1>5, <2>1 DEF WriteCalculated
  <2>3. charge \in [Charge -> ChargeRow]
    BY <1>2 DEF WaterBase, WaterTypeOK, TypeOK
  <2>4. ASSUME NEW c \in Charge PROVE charge'[c] = charge[c]
    <3>1. CASE \E u \in billed : WaterCharge[m][u] = c
      <4>1. PICK v : v = CHOOSE u \in billed : WaterCharge[m][u] = c
        OBVIOUS
      <4>2. v \in billed /\ WaterCharge[m][v] = c
        BY <3>1, <4>1
      <4>3. v \in Unit /\ reading[m][v].status # "ABSENT"
        BY <2>1, <4>2 DEF Billed, Present
      <4>4. reading[m][v] \in ReadingRow /\ reading[m][v].status = "CALCULATED"
        BY <1>2, <1>3, <4>3
      <4>5. ChargedAs(charge[c], reading[m][v].final) /\ reading[m][v].final \in Int
        BY <4>2, <4>3, <4>4 DEF WaterInv, ChargedAsRead, ReadingRow
      <4>6. charge'[c] = ChargedFor(c, reading[m][v].final)
        BY <1>4, <2>2, <3>1, <4>1, <4>3
      <4>7. QED BY <2>3, <4>5, <4>6, SameCharge
    <3>2. CASE ~\E u \in billed : WaterCharge[m][u] = c
      BY <2>2, <3>2
    <3>3. QED BY <3>1, <3>2
  <2>5. QED BY <2>2, <2>3, <2>4
<1>8. QED BY <1>6, <1>7

(* Prices.  A reading becomes CALCULATED, or is calculated anew, only in a *)
(* step that calculates, with the tariff it then writes into the period.   *)
LEMMA PricedRows ==
  ASSUME WaterInv, WaterSteps, NEW k \in Month, NEW u \in Unit,
         reading'[k][u].status = "CALCULATED", reading'[k][u] # reading[k][u],
         NEW input, input = tariff'[wperiod'[k].tariff].input
  PROVE  RoundingAllows(reading'[k][u].water,
                        ExactAmount(Consumption(reading'[k][u]), input), input.rounding)
<1>1. PICK m \in Month, rows \in [Unit -> ReadingRow] :
        \/ PlainStep(m, rows)
        \/ \E status, in : CalculatingStep(m, rows, status, in)
  BY DEF WaterSteps
<1>2. reading \in [Month -> [Unit -> ReadingRow]]
  BY DEF WaterInv, WaterBase, WaterTypeOK
<1>3. CASE PlainStep(m, rows)
  <2>1. reading'[k][u] = IF k = m THEN rows[u] ELSE reading[k][u]
    BY <1>2, <1>3 DEF PlainStep
  <2>2. RowKept(reading[k][u], reading'[k][u])
    BY <1>3, <2>1 DEF PlainStep, RowKept
  <2>3. QED BY <2>2 DEF RowKept
<1>4. CASE \E status, in : CalculatingStep(m, rows, status, in)
  <2>1. PICK status, in : CalculatingStep(m, rows, status, in)
    BY <1>4
  <2>2. in \in TariffInput /\ in = tariff[EnsuredTariff(m)].input
    BY <2>1, EnsuredFits DEF WaterInv, CalculatingStep, CanCalculate
  <2>3. /\ reading' = [reading EXCEPT ![m] = [v \in Unit |-> Calculated(rows[v], in)]]
        /\ wperiod'[m].tariff = EnsuredTariff(m) /\ tariff' = tariff
    BY <2>1 DEF CalculatingStep, WriteCalculated, WaterInv, WaterBase, WaterTypeOK
  <2>4. k = m
    BY <1>2, <2>3
  <2>5. input = in
    BY <2>2, <2>3, <2>4
  <2>6. PICK r, s : r = rows[u] /\ s = Calculated(r, in) /\ r \in ReadingRow
    OBVIOUS
  <2>7. reading'[k][u] = s
    BY <1>2, <2>3, <2>4, <2>6
  <2>8. RowReady(reading[m][u], r, in)
    BY <2>1, <2>6 DEF CalculatingStep
  <2>9. /\ r.status = "ABSENT" \/ ~Priced(Consumption(r), in) => s = r
        /\ r.status # "ABSENT" /\ Priced(Consumption(r), in) =>
             /\ s.water = WaterAmount(Consumption(r), in)
             /\ s.previous = r.previous /\ s.current = r.current
    BY <2>2, <2>6, CalculatedRow
  <2>10. r.status # "ABSENT" /\ Priced(Consumption(r), in)
    BY <2>4, <2>7, <2>8, <2>9 DEF RowReady, RowKept
  <2>11. PICK n : n = Consumption(r) /\ n \in Int
    BY <2>6, LevelNumbers
  <2>12. RoundingAllows(WaterAmount(n, in), ExactAmount(n, in), in.rounding)
    BY <2>2, <2>10, <2>11, WaterPrice
  <2>13. Consumption(s) = n /\ s.water = WaterAmount(n, in)
    BY <2>9, <2>10, <2>11 DEF Consumption
  <2>14. QED BY <2>5, <2>7, <2>12, <2>13
<1>5. QED BY <1>1, <1>3, <1>4

LEMMA PriceStep ==
  WaterInv /\ ([ReadingsNext]_wbVars \/ [BilledNext]_wbVars) => PricesByTariff
<1> SUFFICES ASSUME WaterInv, [ReadingsNext]_wbVars \/ [BilledNext]_wbVars,
                    NEW m \in Month, NEW u \in Unit,
                    reading'[m][u].status = "CALCULATED",
                    reading'[m][u] # reading[m][u],
                    NEW input, input = tariff'[wperiod'[m].tariff].input
             PROVE  RoundingAllows(reading'[m][u].water,
                                   ExactAmount(Consumption(reading'[m][u]), input),
                                   input.rounding)
  BY DEF PricesByTariff, Consumption
<1>1. CASE WaterSteps
  BY <1>1, PricedRows
<1>2. CASE BillingNext /\ UNCHANGED <<tariffVars, ledgerVars>>
  BY <1>1, <1>2, BillingKinds DEF WaterInv
<1>3. CASE UNCHANGED reading
  BY <1>3
<1>4. ASSUME \E k \in Month : \E rows : PlainStep(k, rows) PROVE WaterSteps
  <2>1. PICK k \in Month : \E rows : PlainStep(k, rows)
    BY <1>4
  <2>2. PICK rows : PlainStep(k, rows)
    BY <2>1
  <2>3. rows \in [Unit -> ReadingRow]
    BY <2>2 DEF PlainStep
  <2>4. QED BY <2>2, <2>3 DEF WaterSteps
<1>5. CASE ReadingStep
  <2>1. ReadingNext /\ UNCHANGED <<tariffVars, ledgerVars>>
    BY <1>5 DEF ReadingStep
  <2>2. CASE BillingNext
    BY <1>2, <2>1, <2>2
  <2>3. CASE ~BillingNext
    <3>1. PICK k \in Month :
         \/ GenerateReadings(k)
         \/ SyncReadings(k)
         \/ \E v \in Unit, previous, current \in Level :
              \/ \E mode \in {"ACTUAL", "METER_REPLACEMENT"},
                   macro \in MacroPrice \cup {reading[k][v].macro},
                   adjust \in Adjustment \cup {reading[k][v].adjust} :
                   UpdateReading(k, v, previous, current, mode, macro, adjust)
              \/ BatchReading(k, v, previous, current)
      BY <2>1, <2>3 DEF ReadingNext
    <3>2. CASE GenerateReadings(k) \/ SyncReadings(k)
      BY <1>1, <1>4, <2>1, <3>2, GenerateKind, SyncKind
    <3>3. ASSUME NEW v \in Unit, NEW previous \in Level, NEW current \in Level,
                 BatchReading(k, v, previous, current)
          PROVE  WaterSteps
      BY <1>4, <2>1, <3>3, BatchKind
    <3>4. ASSUME NEW v \in Unit, NEW previous \in Level, NEW current \in Level,
                 NEW mode, NEW macro \in MacroPrice \cup {reading[k][v].macro},
                 NEW adjust \in Adjustment \cup {reading[k][v].adjust},
                 UpdateReading(k, v, previous, current, mode, macro, adjust)
          PROVE  WaterSteps
      <4>1. reading[k][v].macro \in Int /\ reading[k][v].adjust \in Int
        BY RowTypes DEF WaterInv, ReadingRow
      <4>2. macro \in Int /\ adjust \in Int
        BY <4>1, WaterAssumption
      <4>3. QED BY <1>4, <2>1, <3>4, <4>2, UpdateKind
    <3>5. QED BY <1>1, <3>1, <3>2, <3>3, <3>4
  <2>4. QED BY <2>2, <2>3
<1>6. CASE PeriodStep \/ TariffStep \/ LedgerStep \/ UNCHANGED wbVars
  BY <1>3, <1>6 DEF PeriodStep, TariffStep, LedgerStep, waterVars, wbVars
<1>7. CASE BillingStep
  BY <1>2, <1>7 DEF BillingStep
<1>8. QED BY <1>5, <1>6, <1>7 DEF ReadingsNext, BilledNext

-----------------------------------------------------------------------------
(* Proration                                                               *)

LEMMA RecoversStep == WaterInv => Recovers
<1> SUFFICES ASSUME WaterInv, NEW m \in Month, NEW bill \in Bill, NEW fee \in Fee,
                    MissingUnits(m) = 0, CanCalculate(m), ProrateOK(m),
                    Uncovered(m, bill, fee) >= 0, ApplyProration(m, bill, fee),
                    NEW charged,
                    charged = ReportWater(m)' + ReportFees(m)' + ReportMacro(m)'
             PROVE  /\ ~(2 * (charged - bill) > Cardinality(Unit))
                    /\ ~(2 * (bill - charged) > Cardinality(Unit))
  BY DEF Recovers
<1>1. /\ WaterBase /\ Rows(m) = Unit /\ IsFiniteSet(Unit)
      /\ reading \in [Month -> [Unit -> ReadingRow]]
  BY AllRows, WaterAssumption DEF WaterInv, WaterBase, WaterTypeOK
<1>2. PICK input : input = tariff[EnsuredTariff(m)].input /\ input \in TariffInput
  BY <1>1, EnsuredFits DEF CanCalculate
<1>3. PICK left, n, macro, sum :
        /\ left = Uncovered(m, bill, fee) /\ n = Cardinality(Unit)
        /\ macro = MacroPerUnit(left) /\ sum = SumWater(reading[m], input)
  OBVIOUS
<1>4. /\ left \in Int /\ left >= 0 /\ macro \in Nat /\ fee \in Nat /\ bill \in Nat
      /\ n \in Nat \ {0} /\ sum \in Int
  <2>1. Unit # {}
    BY DEF ProrateOK, Present
  <2>2. n \in Nat /\ n # 0
    BY <1>1, <1>3, <2>1, FS_CardinalityType, FS_EmptySet
  <2>3. left \in Int /\ macro \in Nat
    BY <1>1, <1>3, <2>1, ProratedType
  <2>4. reading[m] \in [Unit -> ReadingRow]
    BY <1>1
  <2>5. sum \in Int
    BY <1>2, <1>3, <2>4, SumWaterType
  <2>6. QED BY <1>3, <2>2, <2>3, <2>5, WaterAssumption
<1>5. /\ left = bill - sum - fee * n
      /\ 2 * (macro * n - left) <= n /\ 2 * (left - macro * n) <= n
  <2>1. left = bill - sum - fee * n
    BY <1>2, <1>3 DEF Uncovered
  <2>2. macro = HalfUp(left, n)
    BY <1>3, <1>4 DEF MacroPerUnit
  <2>3. left \in Nat
    BY <1>4
  <2>4. QED BY <1>4, <2>1, <2>2, <2>3, HalfUpNear
<1>6. PICK rows : rows = Prorated(reading[m], macro, fee)
  OBVIOUS
<1>7. reading' = [reading EXCEPT ![m] = [u \in Unit |-> Calculated(rows[u], input)]]
  BY <1>2, <1>3, <1>6 DEF ApplyProration, WriteCalculated
<1>8. \A u \in Unit :
        /\ reading'[m][u].status = "CALCULATED"
        /\ reading'[m][u].water = WaterAmount(Consumption(reading[m][u]), input)
        /\ reading'[m][u].macro = macro /\ reading'[m][u].fee = fee
        /\ Priced(Consumption(reading[m][u]), input)
        /\ reading[m][u].status # "ABSENT"
  <2> SUFFICES ASSUME NEW u \in Unit
               PROVE  /\ reading'[m][u].status = "CALCULATED"
                      /\ reading'[m][u].water = WaterAmount(Consumption(reading[m][u]), input)
                      /\ reading'[m][u].macro = macro /\ reading'[m][u].fee = fee
                      /\ Priced(Consumption(reading[m][u]), input)
                      /\ reading[m][u].status # "ABSENT"
    OBVIOUS
  <2>1. reading[m][u].status # "ABSENT" /\ Priced(Consumption(reading[m][u]), input)
    BY <1>1, <1>2 DEF Rows, Present, ProrateOK, Billed
  <2>2. PICK r, s : r = rows[u] /\ s = Calculated(r, input)
    OBVIOUS
  <2>3. reading[m] \in [Unit -> ReadingRow] /\ macro \in Int
        /\ r = Prorated(reading[m], macro, fee)[u]
    BY <1>1, <1>4, <1>6, <2>2
  <2>4. /\ r \in ReadingRow /\ r.status = reading[m][u].status
        /\ Consumption(r) = Consumption(reading[m][u])
        /\ r.macro = macro /\ r.fee = fee
    BY <1>4, <2>1, <2>3, ProratedRow
  <2>5. /\ s.status = "CALCULATED" /\ s.water = WaterAmount(Consumption(r), input)
        /\ s.macro = r.macro /\ s.fee = r.fee
    BY <1>2, <2>1, <2>2, <2>4, CalculatedRow
  <2>6. reading'[m][u] = s
    BY <1>1, <1>7, <2>2
  <2>7. QED BY <2>1, <2>4, <2>5, <2>6
<1>9. PICK water, fees, macros :
        /\ water = [u \in Unit |-> reading'[m][u].water]
        /\ fees = [u \in Unit |-> reading'[m][u].fee]
        /\ macros = [u \in Unit |-> reading'[m][u].macro]
  OBVIOUS
<1>10. /\ ReportWater(m)' = Total(water) /\ ReportFees(m)' = Total(fees)
       /\ ReportMacro(m)' = Total(macros)
  <2>1. Rows(m)' = Unit
    BY <1>8 DEF Rows, Present
  <2>2. QED BY <1>9, <2>1 DEF ReportWater, ReportFees, ReportMacro
<1>11. Total(water) = sum
  <2>1. PICK priced : priced = [u \in Billed(reading[m], input) |->
                                  WaterAmount(Consumption(reading[m][u]), input)]
    OBVIOUS
  <2>2. Billed(reading[m], input) = Unit
    BY <1>8 DEF Billed, Present
  <2>3. DOMAIN priced = Unit /\ DOMAIN water = Unit
        /\ \A u \in Unit : water[u] = priced[u]
    BY <1>8, <1>9, <2>1, <2>2
  <2>4. Total(water) = Total(priced)
    BY <2>3, TotalSame
  <2>5. QED BY <1>3, <2>1, <2>4 DEF SumWater
<1>12. Total(fees) = fee * n
  <2>1. DOMAIN fees = Unit /\ \A u \in Unit : fees[u] = fee
    BY <1>8, <1>9
  <2>2. QED BY <1>1, <1>3, <1>4, <2>1, TotalEach
<1>13. Total(macros) = macro * n
  <2>1. DOMAIN macros = Unit /\ \A u \in Unit : macros[u] = macro
    BY <1>8, <1>9
  <2>2. QED BY <1>1, <1>3, <1>4, <2>1, TotalEach
<1>14. PICK a, b \in Int : a = macro * n /\ b = fee * n
  BY <1>4
<1>15. charged = sum + b + a
  BY <1>10, <1>11, <1>12, <1>13, <1>14
<1>16. charged - bill = a - left /\ bill - charged = left - a /\ a - left \in Int
  BY <1>4, <1>5, <1>14, <1>15
<1>17. 2 * (charged - bill) <= n /\ 2 * (bill - charged) <= n
  BY <1>5, <1>14, <1>16
<1>18. charged \in Int
  BY <1>4, <1>14, <1>15
<1>19. QED BY <1>3, <1>4, <1>16, <1>17, <1>18

-----------------------------------------------------------------------------
(* The theorems, of the readings over the months (ReadingSpec) and of the  *)
(* module with its ledger (WaterSpec) alike.                               *)

(* Every column keeps its type through any chain of loads, readings,       *)
(* calculations, payments and reversals; a charge's amount is never        *)
(* negative, as WriteCalculated turns what is below zero into a CREDIT.    *)
THEOREM WaterTypeCorrect == ReadingSpec \/ WaterSpec => []WaterTypeOK
<1>1. WaterInv => WaterTypeOK
  BY DEF WaterInv, WaterBase
<1>2. QED BY <1>1, WaterCorrect, PTL

(* A generated reading that nobody has taken shows no consumption.         *)
THEOREM DraftsUnconsumed == ReadingSpec \/ WaterSpec => []DraftUnconsumed
<1>1. WaterInv => DraftUnconsumed
  BY DEF WaterInv
<1>2. QED BY <1>1, WaterCorrect, PTL

(* The amount of a CALCULATED reading is the sum of its parts, whichever   *)
(* of proration, import and edit wrote them last.                          *)
THEOREM PartsAddUp == ReadingSpec \/ WaterSpec => []CalculatedAddsUp
<1>1. WaterInv => CalculatedAddsUp
  BY DEF WaterInv
<1>2. QED BY <1>1, WaterCorrect, PTL

(* For every number of units, months and tariffs, a complete report shows  *)
(* the sum of the charges and of its own columns (getReport).              *)
THEOREM ReportIsTrue == ReadingSpec \/ WaterSpec => []ReportIsCharged
BY ReportCorrect, WaterCorrect, PTL

(* After generation or synchronisation every pending reading starts where  *)
(* the month before ended.                                                 *)
THEOREM ReadingsChained == ReadingSpec \/ WaterSpec => MonthsChained
BY ChainStep, WaterCorrect, PTL DEF MonthsChained

(* Neither generation nor synchronisation touches a calculated reading.    *)
THEOREM CalculatedKept == ReadingSpec \/ WaterSpec => CalculatedNotResynced
BY KeepStep, WaterCorrect, PTL DEF CalculatedNotResynced

(* Running calculate again over readings that are up to date changes no    *)
(* reading and no charge, whatever payments the charges hold.              *)
THEOREM CalculateIdempotent == ReadingSpec \/ WaterSpec => RecalculationIdempotent
BY RecalculationStep, WaterCorrect, PTL DEF RecalculationIdempotent

(* Whatever handler prices a reading, the amount is the price of its row   *)
(* in the tariff the period then refers to, for every tariff, consumption  *)
(* and rounding.                                                           *)
THEOREM PricedByTariff == ReadingSpec \/ WaterSpec => PricedByPeriodTariff
<1>1. ReadingSpec => PricedByPeriodTariff
  BY PriceStep, WaterCorrect, PTL DEF ReadingSpec, PricedByPeriodTariff
<1>2. WaterSpec => PricedByPeriodTariff
  BY PriceStep, WaterCorrect, PTL DEF WaterSpec, PricedByPeriodTariff
<1>3. QED BY <1>1, <1>2

(* A proration recovers the bill to half a cent per unit, for every number *)
(* of units, bill and fee.                                                 *)
THEOREM BillRecovered == ReadingSpec \/ WaterSpec => ProrationRecovers
BY RecoversStep, WaterCorrect, PTL DEF ProrationRecovers
=============================================================================
