-------------------------- MODULE WaterCalculator ---------------------------
(***************************************************************************)
(* The engine that prices a water reading: the floor of the consumption in *)
(* cubic metres names a row of the tariff's table, and the row's price,    *)
(* the base charge and the discounts make the amount.                      *)
(*                                                                         *)
(* Consumptions are hundredths of a cubic metre and money is cents, as the *)
(* callers round both to two places.  A row's price per cubic metre is in  *)
(* hundredths of a cent (the column has four decimals) and a percentage is *)
(* a whole number, so an unrounded amount is a number of                   *)
(* 1/Scale cents and every rounding is a rounding of a fraction.           *)
(***************************************************************************)
EXTENDS Integers, FiniteSetsExt

CubicMetre == 100
Scale      == 10000

RoundingMode    == {"HALF_UP", "HALF_EVEN", "FLOOR", "CEIL"}
CalculationType == {"FIXED_TOTAL", "PER_M3", "BASE_PLUS_PER_M3", "LOOKUP_BY_M3"}

TierRow == [m3 : Nat, fixed : Nat, perM3 : Nat, type : CalculationType]
TariffInput == [base : Nat, minimum : Nat, discount : Nat, percent : Nat,
                rounding : RoundingMode, tiers : SUBSET TierRow]

(* decimal.js rounds halves away from zero under ROUND_HALF_UP.            *)
HalfUp(n, d) == IF n >= 0 THEN (2 * n + d) \div (2 * d)
                ELSE -((d - 2 * n) \div (2 * d))

HalfEven(n, d) ==
  LET q == n \div d
      r == 2 * (n % d)
  IN  IF r > d \/ (r = d /\ q % 2 = 1) THEN q + 1 ELSE q

RoundDivTruncates(n, d, mode) == n \div d

RoundDiv(n, d, mode) ==
  CASE mode = "HALF_UP"   -> HalfUp(n, d)
    [] mode = "HALF_EVEN" -> HalfEven(n, d)
    [] mode = "FLOOR"     -> n \div d
    [] mode = "CEIL"      -> -((-n) \div d)

-----------------------------------------------------------------------------
LookupKey(consumption, tariff) ==
  Max({consumption, tariff.minimum}) \div CubicMetre

RowKey(row) == row.m3 \div CubicMetre

RowsFor(consumption, tariff) ==
  {row \in tariff.tiers : RowKey(row) = LookupKey(consumption, tariff)}

(* Everything else throws: negative consumption, an empty table, two rows  *)
(* with one key, a key beyond the table.                                   *)
Priced(consumption, tariff) ==
  /\ consumption >= 0
  /\ \A row, other \in tariff.tiers : RowKey(row) = RowKey(other) => row = other
  /\ RowsFor(consumption, tariff) # {}

TierAmount(row, key) ==
  (IF row.type = "PER_M3" THEN 0 ELSE row.fixed * 100)
    + (IF row.type \in {"PER_M3", "BASE_PLUS_PER_M3"} THEN key * row.perM3 ELSE 0)

Subtotal(consumption, tariff) ==
  LET row == CHOOSE r \in RowsFor(consumption, tariff) : TRUE
  IN  tariff.base * 100 + TierAmount(row, LookupKey(consumption, tariff))

ExactAmount(consumption, tariff) ==
  Subtotal(consumption, tariff) * (100 - tariff.percent)
    - tariff.discount * Scale

WaterAmount(consumption, tariff) ==
  RoundDiv(ExactAmount(consumption, tariff), Scale, tariff.rounding)
=============================================================================
