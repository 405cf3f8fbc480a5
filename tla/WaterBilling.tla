---------------------------- MODULE WaterBilling ----------------------------
(***************************************************************************)
(* The water module put together, and with the ledger its charges live in. *)
(*                                                                         *)
(* ReadingSpec follows the readings over the months under a tariff loaded  *)
(* before; WaterSpec follows tariffs, loaded from tables and removed, and  *)
(* charges, which are paid and reversed, but not edited by hand, which     *)
(* would make one differ from its reading on purpose; its readings come    *)
(* from files.  Meters are as WaterMeters has left them.                   *)
(***************************************************************************)
EXTENDS WaterReadings

wbVars == <<vars, waterVars>>

(* Tariffs loaded one after the other.                                     *)
LoadedTariffs ==
  /\ tariff \in [Tariff -> [status : {"ACTIVE"}, date : Date, month : Date,
                            input : Inputs]]
  /\ \A s, t \in Tariff : tariff[s].date = tariff[t].date => s = t
  /\ \A t \in Tariff : tariff[t].month = tariff[t].date
  /\ loaded = SetToSeq(Tariff)

(* Meters in and out of service; a unit may have several of them, or none. *)
InstalledMeters ==
  meter \in [Meter -> [status : {"ACTIVE", "INACTIVE"}, unit : Unit,
                       serial : Serial, initial : Initial]]

WaterInit ==
  /\ Init
  /\ wperiod = [m \in Month |-> [status |-> "ABSENT", tariff |-> None]]
  /\ reading = [m \in Month |-> [u \in Unit |-> NoReading]]

ReadingStep == ReadingNext /\ UNCHANGED <<tariffVars, ledgerVars>>
BillingStep == BillingNext /\ UNCHANGED <<tariffVars, ledgerVars>>
PeriodStep  == WPeriodNext /\ UNCHANGED <<vars, meter, reading>>
TariffStep  ==
  /\ \E t \in Tariff :
       RemoveTariff(t) \/ \E d \in Date, table \in LookupTables : LoadLookup(t, d, table)
  /\ UNCHANGED <<vars, meter, reading>>
LedgerStep  ==
  /\ PaymentNext
  /\ UNCHANGED waterVars

ReadingsInit == WaterInit /\ LoadedTariffs /\ InstalledMeters
ReadingsNext == ReadingStep \/ PeriodStep
ReadingSpec  == ReadingsInit /\ [][ReadingsNext]_wbVars

BilledInit ==
  /\ WaterInit /\ TariffInit /\ InstalledMeters
  /\ \A u \in Unit : ActiveMeters(u) # {}
BilledNext == BillingStep \/ PeriodStep \/ TariffStep \/ LedgerStep
WaterSpec  == BilledInit /\ [][BilledNext]_wbVars

(* The columns of the tables; an amount is never negative, as a reading    *)
(* whose discounts exceed its price becomes a CREDIT charge.               *)
WaterTypeOK ==
  /\ TypeOK
  /\ tariff \in [Tariff -> TariffRow]
  /\ wperiod \in [Month -> WPeriodRow]
  /\ meter \in [Meter -> MeterRow]
  /\ reading \in [Month -> [Unit -> ReadingRow]]

-----------------------------------------------------------------------------
(* getReport                                                               *)
Rows(m)            == Present(reading[m])
CalculatedCount(m) == Cardinality({u \in Rows(m) : reading[m][u].status = "CALCULATED"})
MissingUnits(m)    == Max({0, Cardinality(Unit) - Cardinality(Rows(m))})
ReportTotal(m)  == Total([u \in Rows(m) |-> reading[m][u].final])
ReportWater(m)  == Total([u \in Rows(m) |-> reading[m][u].water])
ReportFees(m)   == Total([u \in Rows(m) |-> reading[m][u].fee])
ReportMacro(m)  == Total([u \in Rows(m) |-> reading[m][u].macro])

Complete(m) == MissingUnits(m) = 0 /\ CalculatedCount(m) = Cardinality(Unit)

(* A report in which every unit is calculated shows what the units owe:    *)
(* its total is the sum of the charges, whatever payments they hold, and   *)
(* the sum of its own columns.  A tariff that changes and a calculation    *)
(* that fails for some units leave no trace.                               *)
ReportIsCharged ==
  \A m \in Month :
    Complete(m) =>
      /\ ReportTotal(m) =
           Total([u \in Unit |-> SignedAmount(WaterCharge[m][u])])
      /\ ReportTotal(m) = ReportWater(m) + ReportFees(m) + ReportMacro(m)
           + Total([u \in Rows(m) |-> reading[m][u].adjust])

(* A CALCULATED reading's amount is the sum of its parts although          *)
(* proration rewrites two of them before calculate rewrites the amount:    *)
(* it refuses the whole period when one reading could not be priced.       *)
CalculatedAddsUp ==
  \A m \in Month, u \in Unit :
    LET r == reading[m][u]
    IN  r.status = "CALCULATED" =>
          /\ r.final = r.water + r.macro + r.adjust + r.fee
          /\ Consumption(r) >= 0

(* A generated reading that nobody has taken shows no consumption,         *)
(* whatever is corrected in the month before and synchronised.             *)
DraftUnconsumed ==
  \A m \in Month, u \in Unit :
    reading[m][u].status = "DRAFT" => Consumption(reading[m][u]) = 0

(* After the readings of a month are generated or listed with inheritance, *)
(* every pending one starts where the unit's reading of the month before   *)
(* ended, even when a meter was replaced in between; only a unit without   *)
(* any meter is left behind.                                               *)
ChainsMonths ==
  \A m \in Month, u \in Unit :
    (/\ m - 1 \in Month
     /\ reading[m - 1][u].status # "ABSENT"
     /\ ActiveMeters(u) # {}
     /\ Pending(reading[m][u])'
     /\ reading'[m][u].previous # reading[m - 1][u].current)
      => ~(GenerateReadings(m) \/ SyncReadings(m))

MonthsChained == [][ChainsMonths]_wbVars

(* However the month before is corrected, neither generation nor           *)
(* synchronisation, of any month, changes a reading that is already        *)
(* calculated.  Edits, imports, proration and calculation may.             *)
KeepsCalculated ==
  \A m \in Month, u \in Unit :
    (reading[m][u].status = "CALCULATED" /\ reading'[m][u] # reading[m][u])
      => ~\E k \in Month : GenerateReadings(k) \/ SyncReadings(k)

CalculatedNotResynced == [][KeepsCalculated]_wbVars

(* "re-running is idempotent and never duplicates" (calculate): once the   *)
(* readings hold what the tariff in force gives, another run changes no    *)
(* reading and no charge, paid or not.                                     *)
UpToDate(m) ==
  \A u \in Rows(m) :
    LET r     == reading[m][u]
        input == tariff[EnsuredTariff(m)].input
    IN  /\ r.status = "CALCULATED"
        /\ Priced(Consumption(r), input)
        /\ r.water = WaterAmount(Consumption(r), input)

RecalculatesSame ==
  \A m \in Month :
    (<<reading, charge>>' # <<reading, charge>> /\ PeriodMade(m) /\ CanCalculate(m))
      => ~(UpToDate(m) /\ Calculate(m))

RecalculationIdempotent == [][RecalculatesSame]_wbVars

(* When the bill exceeds what the units' own consumptions and the fees     *)
(* cover, a proration that changes the readings recovers it: what all      *)
(* units are charged differs from it by at most half a cent per unit.      *)
Recovers ==
  \A m \in Month, bill \in Bill, fee \in Fee :
    LET charged == ReportWater(m)' + ReportFees(m)' + ReportMacro(m)'
    IN  (/\ reading'[m] # reading[m]
         /\ \/ 2 * (charged - bill) > Cardinality(Unit)
            \/ 2 * (bill - charged) > Cardinality(Unit))
          => ~(/\ MissingUnits(m) = 0 /\ CanCalculate(m) /\ ProrateOK(m)
               /\ Uncovered(m, bill, fee) >= 0
               /\ ApplyProration(m, bill, fee))

ProrationRecovers == [][Recovers]_wbVars

(* Whatever handler calculates a reading, its amount is the price of its   *)
(* row in the tariff the period then refers to, less the discounts, off by *)
(* less than its rounding allows.                                          *)
RoundingAllows(water, exact, mode) ==
  LET gap == water * Scale - exact
  IN  /\ mode = "FLOOR" => gap \in (1 - Scale)..0
      /\ mode = "CEIL" => gap \in 0..(Scale - 1)
      /\ mode \in {"HALF_UP", "HALF_EVEN"} => 2 * gap \in (-Scale)..Scale

PricesByTariff ==
  \A m \in Month, u \in Unit :
    LET r     == reading'[m][u]
        input == tariff'[wperiod'[m].tariff].input
        exact == ExactAmount(Consumption(r), input)
    IN  (r.status = "CALCULATED" /\ r # reading[m][u]) =>
          RoundingAllows(r.water, exact, input.rounding)

PricedByPeriodTariff == [][PricesByTariff]_wbVars

-----------------------------------------------------------------------------
(* "No se deben sobrescribir tarifas históricas utilizadas en periodos     *)
(* anteriores": a closed period's readings are priced as the tariff it     *)
(* refers to says.                                                         *)
ClosedPeriodKeepsTariff ==
  \A m \in Month :
    wperiod[m].status = "CLOSED" =>
      \A u \in Unit :
        LET r == reading[m][u]
        IN  r.status = "CALCULATED" =>
              r.water = WaterAmount(Consumption(r), tariff[wperiod[m].tariff].input)
=============================================================================
