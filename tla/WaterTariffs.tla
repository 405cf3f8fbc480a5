---------------------------- MODULE WaterTariffs ----------------------------
(***************************************************************************)
(* The water tariffs of a residential complex and the monthly water        *)
(* periods that refer to them.  A period is named by its calendar month:   *)
(* the table has one per complex, year and month.                          *)
(*                                                                         *)
(* Which tariff was written last decides what is billed (updatedAt), so    *)
(* the tables' update times are kept as the order of the writes.  A tariff *)
(* is a candidate for a month by its start date or by its name; here both  *)
(* are its field month.                                                    *)
(***************************************************************************)
EXTENDS WaterCalculator, SequencesExt

CONSTANTS
  Tariff,    \* identifiers of water_tariff rows
  Date,      \* months a tariff may be for (rateTariffDate, MM-YYYY)
  Inputs,    \* prices a tariff may be given
  Month,     \* consecutive calendar months, as numbers
  None

VARIABLES
  tariff,    \* water_tariff rows with their tiers
  loaded,    \* the tariffs in the order of their last write, oldest first
  wperiod    \* water_billing_period rows

TariffStatus  == {"ABSENT", "ACTIVE", "ARCHIVED"}
WPeriodStatus == {"ABSENT", "DRAFT", "OPEN", "CALCULATED", "CLOSED", "CANCELLED"}

TariffRow  == [status : TariffStatus, date : Date \cup {None},
               month : Date \cup {None}, input : TariffInput \cup {None}]
WPeriodRow == [status : WPeriodStatus, tariff : Tariff \cup {None}]

TariffInit ==
  /\ tariff = [t \in Tariff |-> [status |-> "ABSENT", date |-> None,
                                 month |-> None, input |-> None]]
  /\ loaded = <<>>
  /\ wperiod = [m \in Month |-> [status |-> "ABSENT", tariff |-> None]]

-----------------------------------------------------------------------------
Exists(t)    == tariff[t].status # "ABSENT"
DateTaken(d) == \E t \in Tariff : tariff[t].date = d

Without(order, t) ==
  IF \E i \in DOMAIN order : order[i] = t
  THEN RemoveAt(order, CHOOSE i \in DOMAIN order : order[i] = t)
  ELSE order

Touched(order, t) == Append(Without(order, t), t)

ForBilling(t, rows) ==
  /\ rows[t].status = "ACTIVE"
  /\ rows[t].date # None
  /\ rows[t].input.tiers # {}

(* findLatestForBilling (its limit of 20 rows is beyond the model)         *)
Latest(rows, order) ==
  LET usable == {i \in DOMAIN order : ForBilling(order[i], rows)}
  IN  IF usable = {} THEN None ELSE order[Max(usable)]

LatestForBilling == Latest(tariff, loaded)

-----------------------------------------------------------------------------
(* water-tariffs.service.ts                                                *)

CreateTariff(t, d, month, input) ==
  /\ ~Exists(t)
  /\ d # None => ~DateTaken(d)
  /\ input.tiers # {}
  /\ tariff' = [tariff EXCEPT ![t] = [status |-> "ACTIVE", date |-> d,
                                      month |-> month, input |-> input]]
  /\ loaded' = Touched(loaded, t)
  /\ UNCHANGED wperiod

(* Any column may keep its value; an occupied date meets the unique index. *)
(* INACTIVE is to every reader what ARCHIVED is, and is left out.          *)
UpdateTariff(t, status, d, month, input) ==
  /\ Exists(t)
  /\ d # tariff[t].date => d # None /\ ~DateTaken(d)
  /\ tariff' = [tariff EXCEPT ![t].status = status, ![t].date = d,
                              ![t].month = month, ![t].input = input]
  /\ loaded' = Touched(loaded, t)
  /\ UNCHANGED wperiod

RemoveTariff(t) ==
  /\ Exists(t)
  /\ tariff' = [tariff EXCEPT ![t].status = "ARCHIVED"]
  /\ loaded' = Touched(loaded, t)
  /\ UNCHANGED wperiod

(* findLookupTariffForPeriod: the row with this date, else the best one    *)
(* for this month, active first and then by the size of its table.         *)
Better(s, t) ==
  \/ tariff[s].status = "ACTIVE" /\ tariff[t].status # "ACTIVE"
  \/ /\ tariff[s].status = "ACTIVE" <=> tariff[t].status = "ACTIVE"
     /\ Cardinality(tariff[s].input.tiers) > Cardinality(tariff[t].input.tiers)

Canonical(t, d) ==
  IF DateTaken(d) THEN tariff[t].date = d
  ELSE LET candidates == {s \in Tariff : Exists(s) /\ tariff[s].month = d}
       IN  IF candidates = {} THEN ~Exists(t)
           ELSE t \in candidates /\ \A s \in candidates : ~Better(s, t)

DuplicatesByDate(t, d) == {s \in Tariff \ {t} : tariff[s].date = d}

Duplicates(t, d) ==
  {s \in Tariff \ {t} : tariff[s].date = d \/ tariff[s].month = d}

(* What the JSON maps to: prices per row and the columns' defaults.        *)
LookupTables ==
  {input \in Inputs :
     /\ input.tiers # {}
     /\ input.base = 0 /\ input.minimum = 0
     /\ input.discount = 0 /\ input.percent = 0 /\ input.rounding = "HALF_UP"
     /\ \A row \in input.tiers : row.type = "LOOKUP_BY_M3"}

(* The JSON replaces table, base charge and minimum; a tariff that existed *)
(* keeps its discounts and its rounding.                                   *)
LookupInput(t, table) ==
  IF Exists(t)
  THEN [table EXCEPT !.discount = tariff[t].input.discount,
                     !.percent  = tariff[t].input.percent,
                     !.rounding = tariff[t].input.rounding]
  ELSE table

(* Rows archived as duplicates are written too, but their place in the     *)
(* order is read only once another write has made them active.             *)
LoadLookup(t, d, table) ==
  /\ Canonical(t, d)
  /\ tariff' = [s \in Tariff |->
       IF s = t THEN [status |-> "ACTIVE", date |-> d, month |-> d,
                      input |-> LookupInput(t, table)]
       ELSE IF s \in Duplicates(t, d)
       THEN [tariff[s] EXCEPT !.status = "ARCHIVED", !.date = None]
       ELSE tariff[s]]
  /\ loaded' = Touched(loaded, t)
  /\ LET repointed(m) == IF wperiod[m].tariff \in Duplicates(t, d) THEN t
                         ELSE wperiod[m].tariff
         relinked(m) == IF wperiod[m].status \in {"DRAFT", "OPEN", "CALCULATED"}
                        THEN Latest(tariff', loaded') ELSE repointed(m)
     IN  wperiod' = [m \in Month |-> [wperiod[m] EXCEPT !.tariff = relinked(m)]]

TariffNext ==
  \E t \in Tariff :
    \/ \E d \in Date, month \in Date, input \in Inputs :
         CreateTariff(t, d, month, input) \/ CreateTariff(t, None, month, input)
    \/ \E status \in {"ACTIVE", "ARCHIVED"}, d \in Date \cup {None},
          month \in Date, input \in Inputs : UpdateTariff(t, status, d, month, input)
    \/ RemoveTariff(t)
    \/ \E d \in Date, table \in LookupTables : LoadLookup(t, d, table)

-----------------------------------------------------------------------------
(* water-periods.service.ts: what concerns the period row alone            *)

CreateWaterPeriod(m, t) ==
  /\ wperiod[m].status = "ABSENT"
  /\ t # None => Exists(t)
  /\ wperiod' = [wperiod EXCEPT ![m] =
       [status |-> "DRAFT", tariff |-> IF t = None THEN LatestForBilling ELSE t]]
  /\ UNCHANGED <<tariff, loaded>>

UpdateWaterPeriod(m, t) ==
  /\ wperiod[m].status # "ABSENT"
  /\ Exists(t)
  /\ wperiod' = [wperiod EXCEPT ![m].tariff = t]
  /\ UNCHANGED <<tariff, loaded>>

SetPeriodStatus(m, status) ==
  /\ wperiod' = [wperiod EXCEPT ![m].status = status]
  /\ UNCHANGED <<tariff, loaded>>

CancelWaterPeriod(m) ==
  wperiod[m].status # "ABSENT" /\ SetPeriodStatus(m, "CANCELLED")

CloseWaterPeriod(m) ==
  wperiod[m].status = "CALCULATED" /\ SetPeriodStatus(m, "CLOSED")

ReopenWaterPeriod(m) ==
  wperiod[m].status = "CLOSED" /\ SetPeriodStatus(m, "CALCULATED")

(* ensurePeriodUsesLatestTariff: the tariff the period will have           *)
EnsuredTariff(m) ==
  IF wperiod[m].status \in {"CLOSED", "CANCELLED"} \/ LatestForBilling = None
  THEN wperiod[m].tariff ELSE LatestForBilling

WPeriodNext ==
  \E m \in Month :
    \/ \E t \in Tariff \cup {None} : CreateWaterPeriod(m, t)
    \/ \E t \in Tariff : UpdateWaterPeriod(m, t)
    \/ CancelWaterPeriod(m) \/ CloseWaterPeriod(m) \/ ReopenWaterPeriod(m)

-----------------------------------------------------------------------------
(* "No permitir dos tarifarios vigentes para la misma fecha": loading the  *)
(* table of a month leaves one tariff in force for it, every period that   *)
(* is not closed refers to that one, and no period is left with a tariff   *)
(* the load archived.                                                      *)
LeavesOne ==
  \A t \in Tariff, d \in Date :
    (\/ \E s \in Tariff \ {t} : (tariff'[s].status = "ACTIVE"
                                 /\ d \in {tariff'[s].date, tariff'[s].month})
     \/ \E m \in Month :
          \/ /\ wperiod'[m].status \in {"DRAFT", "OPEN", "CALCULATED"}
             /\ wperiod'[m].tariff # t
          \/ \E s \in Tariff : /\ wperiod'[m].tariff = s
                               /\ tariff[s].status # "ARCHIVED"
                               /\ tariff'[s].status = "ARCHIVED")
      => ~\E table \in LookupTables : LoadLookup(t, d, table)

LoadLeavesOne == [][LeavesOne]_<<tariff, loaded, wperiod>>
=============================================================================
