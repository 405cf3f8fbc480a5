---------------------------- MODULE WaterMeters -----------------------------
(***************************************************************************)
(* The water meters of the units: registered one by one or from a file,    *)
(* edited, deleted, and replaced.  A row deleted softly is DELETED: every  *)
(* query but the reading's own link leaves it out.  The states a meter is  *)
(* out of service in (INACTIVE, DAMAGED, MISSING) are one: no handler      *)
(* tells them apart.                                                       *)
(***************************************************************************)
EXTENDS Integers, FiniteSets

CONSTANTS
  Unit,
  Meter,     \* identifiers of water_meter rows
  Serial,    \* serial numbers (folios)
  Level,     \* what a meter may show, in hundredths of a cubic metre
  Initial    \* what a new meter may start from

VARIABLE meter   \* water_meter rows

MeterStatus == {"ABSENT", "ACTIVE", "INACTIVE", "REPLACED", "DELETED"}

MeterRow == [status : MeterStatus, unit : Unit, serial : Serial,
             initial : Level]

MeterInit ==
  meter \in [Meter -> [status : {"ABSENT"}, unit : {CHOOSE u \in Unit : TRUE},
                       serial : {CHOOSE s \in Serial : TRUE}, initial : {0}]]

Registered(n) == meter[n].status \notin {"ABSENT", "DELETED"}

ActiveMeters(u) == {n \in Meter : meter[n].status = "ACTIVE" /\ meter[n].unit = u}

(* "The latest" active meter of a unit goes by dates this model leaves     *)
(* out: it may be any of them, and there may be none.                      *)
MaybeLatest(u) ==
  IF ActiveMeters(u) = {} THEN {{}} ELSE {{n} : n \in ActiveMeters(u)}

NewMeter(n, u, s, initial, status) ==
  [status |-> status, unit |-> u, serial |-> s, initial |-> initial]

(* create looks at nothing but the unit                                    *)
CreateMeter(n, u, s, initial, status) ==
  /\ meter[n].status = "ABSENT"
  /\ meter' = [meter EXCEPT ![n] = NewMeter(n, u, s, initial, status)]

UpdateMeter(n, u, s, initial, status) ==
  /\ Registered(n)
  /\ meter' = [meter EXCEPT ![n] = NewMeter(n, u, s, initial, status)]

RemoveMeter(n) ==
  /\ Registered(n)
  /\ meter' = [meter EXCEPT ![n].status = "DELETED"]

(* One row of importFromJson: each commits on its own, and a row that      *)
(* fails writes nothing.                                                   *)
SerialElsewhere(s, u) ==
  \E n \in Meter : Registered(n) /\ meter[n].serial = s /\ meter[n].unit # u

ImportOKAnyActive(n, u, s) == meter[n].status = "ABSENT"

(* A row whose unit has an active meter can only be that same meter.       *)
ImportOK(n, u, s) == meter[n].status = "ABSENT" /\ ActiveMeters(u) = {}

ImportMeter(n, u, s, initial) ==
  /\ ~SerialElsewhere(s, u)
  /\ \/ /\ ImportOK(n, u, s)
        /\ meter' = [meter EXCEPT ![n] = NewMeter(n, u, s, initial, "ACTIVE")]
     \/ /\ n \in ActiveMeters(u)
        /\ meter[n].serial = s
        /\ meter' = [meter EXCEPT ![n].initial = initial]

ReplacedRows(old, n) ==
  [m \in Meter |-> IF m \in old THEN [meter[m] EXCEPT !.status = "REPLACED"]
                   ELSE meter[m]]

Replace(u, n, s, initial) ==
  /\ meter[n].status = "ABSENT"
  /\ \A m \in Meter :
       ~(Registered(m) /\ meter[m].unit = u /\ meter[m].serial = s)
  /\ \E old \in MaybeLatest(u) :
       meter' = [ReplacedRows(old, n) EXCEPT
                   ![n] = NewMeter(n, u, s, initial, "ACTIVE")]

MeterNext ==
  \E n \in Meter, u \in Unit, s \in Serial, initial \in Initial :
    \/ \E status \in {"ACTIVE", "INACTIVE", "REPLACED"} :
         CreateMeter(n, u, s, initial, status)
         \/ UpdateMeter(n, u, s, initial, status)
    \/ RemoveMeter(n)
    \/ ImportMeter(n, u, s, initial)
    \/ Replace(u, n, s, initial)

-----------------------------------------------------------------------------
(* A file or a replacement never leaves a unit with one active meter more  *)
(* than it had, beyond the first ("use replace endpoint to change folio"): *)
(* only create and update, which do not look, can.  Each handler looks at  *)
(* the meters of one unit and writes other rows.                           *)
KeepsOneActive ==
  (\E v \in Unit : /\ Cardinality(ActiveMeters(v)') > 1
                   /\ Cardinality(ActiveMeters(v)') > Cardinality(ActiveMeters(v)))
    => ~\E n \in Meter, u \in Unit, s \in Serial, initial \in Initial :
          ImportMeter(n, u, s, initial) \/ Replace(u, n, s, initial)

ExchangeKeepsOneActive == [][KeepsOneActive]_meter
=============================================================================
