--------------------------- MODULE WaterReadings ----------------------------
(***************************************************************************)
(* The readings of a water period and what turns them into charges: they   *)
(* are generated from the month before, imported, edited, prorated and     *)
(* calculated with the period's tariff into the unit charges of the        *)
(* payment ledger, one charge per reading.                                 *)
(*                                                                         *)
(* A handler loops over the readings and catches what fails in one; the    *)
(* loop is one step here.  Manual adjustment and reserve fund are only     *)
(* ever added up and are one field.  The calculation mode a row keeps is   *)
(* only the default of the next request's, which may be any.  No handler   *)
(* cancels a reading.  Every unit is active.                               *)
(***************************************************************************)
EXTENDS Payments

CONSTANTS
  Tariff, Date, Inputs, Month,
  Meter, Serial, Level, Initial,
  Fee,           \* service fees a request may carry
  MacroPrice,    \* macro differences of a request, which may be negative
  Adjustment,    \* manual adjustments, which may be negative
  Bill,          \* totals of the utility's bill
  RowInputs,     \* rows a file of readings may hold
  WaterCharge    \* the charge of each month's reading of each unit

VARIABLES tariff, loaded, wperiod, meter,
  reading        \* water_reading rows, one per period and unit

INSTANCE WaterTariffs
INSTANCE WaterMeters

RowInput == [previous : Level, current : Level, macro : MacroPrice,
             mode : {"ACTUAL", "METER_REPLACEMENT"}]

(* The DTOs accept only unsigned readings, fees and bills; a reading has   *)
(* one charge (its foreign key in unit_charge is unique).                  *)
ASSUME WaterAssumption ==
  /\ IsFiniteSet(Unit) /\ IsFiniteSet(Tariff) /\ None \notin Meter \cup Date
  /\ Inputs \subseteq TariffInput
  /\ Month \subseteq Int
  /\ Level \subseteq Nat /\ 0 \in Level /\ Initial \subseteq Level
  /\ Fee \subseteq Nat /\ Bill \subseteq Nat
  /\ MacroPrice \subseteq Int /\ Adjustment \subseteq Int
  /\ RowInputs \subseteq RowInput
  /\ WaterCharge \in [Month -> [Unit -> Charge]]
  /\ \A m, k \in Month : \A u, v \in Unit :
       WaterCharge[m][u] = WaterCharge[k][v] => m = k /\ u = v

tariffVars == <<tariff, loaded>>
ledgerVars == <<payment, app, period, bank>>
waterVars  == <<tariff, loaded, wperiod, meter, reading>>

ReadingStatus == {"ABSENT", "DRAFT", "CAPTURED", "CALCULATED"}

ReadingRow == [status : ReadingStatus, previous : Level, current : Level,
               meter : Meter \cup {None}, macro : Int, adjust : Int, fee : Nat, water : Int, final : Int]

NewReading(n, previous, current, status) ==
  [status |-> status, previous |-> previous, current |-> current,
   meter |-> n, macro |-> 0, adjust |-> 0, fee |-> 0, water |-> 0, final |-> 0]

NoReading == NewReading(None, 0, 0, "ABSENT")

Present(rows)  == {u \in Unit : rows[u].status # "ABSENT"}
PeriodMade(m)  == wperiod[m].status # "ABSENT"
Consumption(r) == r.current - r.previous

(* A sum of amounts some of which may be below zero.                       *)
Total(amounts) ==
  SumOf(amounts) - SumOf([x \in DOMAIN amounts |-> -amounts[x]])

-----------------------------------------------------------------------------
(* The reading a unit starts the month from: where the previous month's    *)
(* reading ended, whatever that period's status, else the meter's own.     *)
InheritedFromMeter(m, u, n) == meter[n].initial

Inherited(m, u, n) ==
  IF /\ m - 1 \in Month
     /\ PeriodMade(m - 1)
     /\ reading[m - 1][u].status # "ABSENT"
  THEN reading[m - 1][u].current
  ELSE meter[n].initial

PendingOrCalculated(r) == r.status # "ABSENT"

Pending(r) == r.status \in {"DRAFT", "CAPTURED"}

(* A reading nobody has taken yet (current = previous) moves as a whole.   *)
ResyncedPreviousOnly(r, previous) == [r EXCEPT !.previous = previous]

Resynced(r, previous) ==
  [r EXCEPT !.previous = previous,
            !.current = IF r.current = r.previous THEN previous ELSE r.current]

Generated(r, n, previous) ==
  IF r.status = "ABSENT" THEN NewReading(n, previous, previous, "DRAFT")
  ELSE IF Pending(r) THEN [Resynced(r, previous) EXCEPT !.meter = n]
  ELSE r

(* A unit without an active meter is an error of its own.                  *)
GenerateReadings(m) ==
  /\ PeriodMade(m)
  /\ \E latest \in [Unit -> Meter \cup {None}] :
       /\ \A u \in Unit : IF ActiveMeters(u) = {} THEN latest[u] = None
                          ELSE latest[u] \in ActiveMeters(u)
       /\ reading' = [reading EXCEPT ![m] = [u \in Unit |->
            IF latest[u] = None THEN reading[m][u]
            ELSE Generated(reading[m][u], latest[u], Inherited(m, u, latest[u]))]]
  /\ UNCHANGED <<wperiod, meter, charge>>

(* syncInheritedPreviousReadings, when the readings are listed with        *)
(* inheritFromPrevious.                                                    *)
MetersOf(u, r) == IF r.meter # None THEN {r.meter} ELSE ActiveMeters(u)

SyncReadings(m) ==
  /\ PeriodMade(m)
  /\ \E n \in [Unit -> Meter \cup {None}] :
       /\ \A u \in Unit : IF MetersOf(u, reading[m][u]) = {} THEN n[u] = None
                          ELSE n[u] \in MetersOf(u, reading[m][u])
       /\ reading' = [reading EXCEPT ![m] = [u \in Unit |->
            IF n[u] = None \/ ~Pending(reading[m][u]) THEN reading[m][u]
            ELSE Resynced(reading[m][u], Inherited(m, u, n[u]))]]
  /\ UNCHANGED <<wperiod, meter, charge>>

-----------------------------------------------------------------------------
(* calculate, over rows: the period's readings at that point of a handler. *)

Calculated(r, input) ==
  IF r.status = "ABSENT" \/ ~Priced(Consumption(r), input) THEN r
  ELSE LET water == WaterAmount(Consumption(r), input)
       IN  [r EXCEPT !.status = "CALCULATED", !.water = water,
                     !.final = water + r.macro + r.adjust + r.fee]

Billed(rows, input) ==
  {u \in Present(rows) : Priced(Consumption(rows[u]), input)}

SignedAmount(c) ==
  IF charge[c].movement = "CREDIT" THEN -charge[c].amount ELSE charge[c].amount

(* The upsert by reading: an existing charge keeps its status.             *)
ChargedForAlwaysNew(c, final) ==
  [status |-> "PENDING", amount |-> IF final < 0 THEN -final ELSE final,
   movement |-> IF final < 0 THEN "CREDIT" ELSE "DEBIT"]

ChargedForOnce(c, final) ==
  IF charge[c].status # "ABSENT" THEN charge[c]
  ELSE [status |-> "PENDING", amount |-> IF final < 0 THEN -final ELSE final,
        movement |-> IF final < 0 THEN "CREDIT" ELSE "DEBIT"]

ChargedForSigned(c, final) ==
  [status |-> IF charge[c].status = "ABSENT" THEN "PENDING" ELSE charge[c].status,
   amount |-> final, movement |-> IF final < 0 THEN "CREDIT" ELSE "DEBIT"]

ChargedFor(c, final) ==
  [status |-> IF charge[c].status = "ABSENT" THEN "PENDING" ELSE charge[c].status,
   amount |-> IF final < 0 THEN -final ELSE final,
   movement |-> IF final < 0 THEN "CREDIT" ELSE "DEBIT"]

CanCalculate(m) ==
  LET t == EnsuredTariff(m) IN t # None /\ tariff[t].input.tiers # {}

WriteCalculated(m, rows, status) ==
  LET t      == EnsuredTariff(m)
      input  == tariff[t].input
      billed == Billed(rows, input)
      final(u) == Calculated(rows[u], input).final
  IN  /\ reading' = [reading EXCEPT ![m] =
           [u \in Unit |-> Calculated(rows[u], input)]]
      /\ charge' = [c \in Charge |->
           IF \E u \in billed : WaterCharge[m][u] = c
           THEN ChargedFor(c, final(CHOOSE u \in billed : WaterCharge[m][u] = c))
           ELSE charge[c]]
      /\ wperiod' = [wperiod EXCEPT ![m] =
           [status |-> IF billed = Present(rows) THEN "CALCULATED" ELSE status,
            tariff |-> t]]

Calculate(m) ==
  /\ PeriodMade(m) /\ CanCalculate(m)
  /\ WriteCalculated(m, reading[m], wperiod[m].status)
  /\ UNCHANGED meter

-----------------------------------------------------------------------------
(* applyCeaProration                                                       *)
SumWater(rows, input) ==
  Total([u \in Billed(rows, input) |-> WaterAmount(Consumption(rows[u]), input)])

MacroPerUnit(uncovered) ==
  IF uncovered < 0 THEN 0 ELSE HalfUp(uncovered, Cardinality(Unit))

UncoveredForgetsFees(m, bill, fee) ==
  bill - SumWater(reading[m], tariff[EnsuredTariff(m)].input)

Uncovered(m, bill, fee) ==
  bill - SumWater(reading[m], tariff[EnsuredTariff(m)].input)
       - fee * Cardinality(Unit)

Prorated(rows, macro, fee) ==
  [u \in Unit |-> IF rows[u].status = "ABSENT" THEN rows[u]
                  ELSE [rows[u] EXCEPT !.macro = macro, !.fee = fee]]

(* The tariff is switched before the readings are looked at, and stays so  *)
(* when one of them cannot be priced.                                      *)
ProrateOKAnyReading(m) == Present(reading[m]) # {}

ProrateOK(m) ==
  LET priced == Billed(reading[m], tariff[EnsuredTariff(m)].input)
  IN  Present(reading[m]) # {} /\ priced = Present(reading[m])

ApplyProration(m, bill, fee) ==
  /\ wperiod[m].status \notin {"ABSENT", "CLOSED", "CANCELLED"}
  /\ CanCalculate(m)
  /\ IF ProrateOK(m)
     THEN WriteCalculated(m, Prorated(reading[m],
                                      MacroPerUnit(Uncovered(m, bill, fee)), fee),
                          wperiod[m].status)
     ELSE /\ wperiod' = [wperiod EXCEPT ![m].tariff = EnsuredTariff(m)]
          /\ UNCHANGED <<reading, charge>>
  /\ UNCHANGED meter

-----------------------------------------------------------------------------
(* importReadingsFromJson.  A row fails without an active meter or with a  *)
(* current reading below the previous one; a second row of a unit          *)
(* overwrites the first.                                                   *)
InOrder(previous, current, mode) ==
  current >= previous \/ mode = "METER_REPLACEMENT"

Importable(u, row) ==
  ActiveMeters(u) # {} /\ InOrder(row.previous, row.current, row.mode)

Imported(r, row, n, fee) ==
  [r EXCEPT !.status = "CAPTURED", !.previous = row.previous,
            !.current = row.current, !.meter = n,
            !.macro = row.macro, !.fee = fee, !.water = 0, !.final = 0]

ImportStatus(m, good) ==
  IF good # {} /\ wperiod[m].status \in {"DRAFT", "CALCULATED"}
  THEN "OPEN" ELSE wperiod[m].status

(* A file without an error is calculated unless the request says no; when  *)
(* that fails for want of a tariff, the rows stay.                         *)
EndImport(m, rows, status, calculate) ==
  IF calculate /\ CanCalculate(m)
  THEN WriteCalculated(m, rows, status)
  ELSE /\ reading' = [reading EXCEPT ![m] = rows]
       /\ wperiod' = [wperiod EXCEPT ![m].status = status]
       /\ UNCHANGED charge

ImportReadings(m, file, fee, calculate) ==
  LET good == {u \in DOMAIN file : Importable(u, file[u])}
  IN  /\ wperiod[m].status \notin {"ABSENT", "CLOSED", "CANCELLED"}
      /\ \E n \in [good -> Meter] :
           /\ \A u \in good : n[u] \in ActiveMeters(u)
           /\ EndImport(m, [u \in Unit |->
                              IF u \in good
                              THEN Imported(reading[m][u], file[u], n[u], fee)
                              ELSE reading[m][u]],
                        ImportStatus(m, good),
                        calculate /\ good = DOMAIN file)
      /\ UNCHANGED meter

(* water-readings.service.ts                                               *)
UpdateReading(m, u, previous, current, mode, macro, adjust) ==
  /\ reading[m][u].status # "ABSENT"
  /\ wperiod[m].status # "CLOSED"
  /\ InOrder(previous, current, mode)
  /\ reading' = [reading EXCEPT ![m][u] =
       [reading[m][u] EXCEPT !.previous = previous, !.current = current,
                             !.macro = macro, !.adjust = adjust,
                             !.status = "CAPTURED"]]
  /\ UNCHANGED <<wperiod, meter, charge>>

(* A row of an import batch of readings (imports.service.ts) looks neither *)
(* at the period's status nor at the order of the two readings.            *)
BatchReading(m, u, previous, current) ==
  /\ PeriodMade(m)
  /\ reading' = [reading EXCEPT ![m][u] =
       IF reading[m][u].status = "ABSENT"
       THEN NewReading(None, previous, current, "CAPTURED")
       ELSE [reading[m][u] EXCEPT !.status = "CAPTURED", !.current = current,
                                  !.previous = previous]]
  /\ UNCHANGED <<wperiod, meter, charge>>

Files == UNION {[S -> RowInputs] : S \in (SUBSET Unit) \ {{}}}

BillingNext ==
  \E m \in Month :
    \/ Calculate(m)
    \/ \E bill \in Bill, fee \in Fee : ApplyProration(m, bill, fee)
    \/ \E file \in Files, fee \in Fee, calculate \in BOOLEAN :
         ImportReadings(m, file, fee, calculate)

ReadingNext ==
  \/ BillingNext
  \/ \E m \in Month :
       \/ GenerateReadings(m)
       \/ SyncReadings(m)
       \/ \E u \in Unit, previous, current \in Level :
            \/ \E mode \in {"ACTUAL", "METER_REPLACEMENT"},
                 macro \in MacroPrice \cup {reading[m][u].macro},
                 adjust \in Adjustment \cup {reading[m][u].adjust} :
                 UpdateReading(m, u, previous, current, mode, macro, adjust)
            \/ BatchReading(m, u, previous, current)
=============================================================================
