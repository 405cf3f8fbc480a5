------------------------- MODULE BillingGeneration --------------------------
(***************************************************************************)
(* Recurring charges (billing-generation.service.ts) on the payment        *)
(* ledger.  generate reads the active units and recurring charge types,    *)
(* then goes through them one by one: look for a live charge of the unit,  *)
(* period and type, resolve the amount, insert.  There is no transaction:  *)
(* the handlers of the ledger, other generations and a crash may come      *)
(* between any two steps.  After the last item the period is GENERATED.    *)
(*                                                                         *)
(* The ledger's handlers are the one-step actions of BankReconciliation.   *)
(* Which units are active and which types recur is left open: a generation *)
(* may find any.  findMany asks for no order, so items come in any order.  *)
(* A preview (confirm = false) writes nothing and is left out.             *)
(***************************************************************************)
EXTENDS BankReconciliation

CONSTANTS
  Worker,         \* how many generations may overlap
  Type,           \* charge types
  ChargeType,     \* the type of a charge row
  Config,         \* ACTIVE rows of recurring_charge_config
  DefaultAmount,  \* defaultAmount of a charge type, None for NULL
  AsOf            \* due date of a period, or the 10th of its month, as a day

ASSUME GenerationAssumption ==
  /\ ChargeType \in [Charge -> Type]
  /\ Config \subseteq [type : Type, from : Nat, to : Nat, amount : Nat]
  /\ DefaultAmount \in [Type -> Nat \cup {None}]
  /\ AsOf \in [Period -> Nat]
  /\ None \notin Nat

VARIABLES
  run,        \* per worker, the progress of its generation
  recurring   \* the charges whose source is RECURRING_FEE

gvars == <<payment, charge, app, period, bank, run, recurring>>

-----------------------------------------------------------------------------
(* The configuration in force on a day with the latest start, or the       *)
(* default of the type.  Two that start on the same day tie.               *)
InForce(t, day) == {k \in Config : k.type = t /\ k.from <= day /\ day <= k.to}

RecurringAmounts(t, day) ==
  IF InForce(t, day) = {} THEN {DefaultAmount[t]}
  ELSE {k.amount : k \in {k \in InForce(t, day) :
                            \A l \in InForce(t, day) : l.from <= k.from}}

(* The charges of a unit, period and type that have not been cancelled.    *)
LiveCharges(u, b, t) ==
  {c \in Charge : /\ ChargeUnit[c] = u
                  /\ ChargePeriod[c] = b
                  /\ ChargeType[c] = t
                  /\ charge[c].status \notin {"ABSENT", "CANCELLED"}}

ExistingUnpaid(r, i) ==
  {c \in LiveCharges(i.unit, r.period, i.type) : charge[c].status = "PENDING"}

ExistingAnyUnit(r, i) ==
  UNION {LiveCharges(u, r.period, i.type) : u \in Unit}

Existing(r, i) == LiveCharges(i.unit, r.period, i.type)

-----------------------------------------------------------------------------
Item == [unit : Unit, type : Type]

(* stage: at rest, between two items, or about to insert item for amount.  *)
(* failed are the items in the errors of the response.                     *)
AtRest == [stage |-> "rest", period |-> None, units |-> {}, types |-> {},
           todo |-> {}, failed |-> {}, item |-> None, amount |-> None]

RunRecord == [stage : {"rest", "loop", "insert"}, period : Period \cup {None},
              units : SUBSET Unit, types : SUBSET Type, todo : SUBSET Item,
              failed : SUBSET Item, item : Item \cup {None},
              amount : Nat \cup {None}]

GenerationInit ==
  /\ Init
  /\ run = [w \in Worker |-> AtRest]
  /\ recurring = {}

BeginGeneration(w, b, units, types) ==
  /\ run[w].stage = "rest"
  /\ run' = [run EXCEPT ![w] =
               [AtRest EXCEPT !.stage = "loop", !.period = b,
                              !.units = units, !.types = types,
                              !.todo = [unit : units, type : types]]]
  /\ UNCHANGED <<vars, recurring>>

(* An item is dropped because it is billed, or with an error: no amount    *)
(* for its type, or a query that failed (the catch of the loop body).      *)
SkipBilled(w, i) ==
  /\ run[w].stage = "loop" /\ i \in run[w].todo
  /\ Existing(run[w], i) # {}
  /\ run' = [run EXCEPT ![w].todo = @ \ {i}]
  /\ UNCHANGED <<vars, recurring>>

FailItem(w, i) ==
  /\ run[w].stage # "rest" /\ i \in run[w].todo
  /\ run[w].stage = "insert" => i = run[w].item
  /\ run' = [run EXCEPT ![w].stage = "loop", ![w].item = None,
                        ![w].amount = None, ![w].todo = @ \ {i},
                        ![w].failed = @ \cup {i}]
  /\ UNCHANGED <<vars, recurring>>

ResolveItem(w, i) ==
  /\ run[w].stage = "loop" /\ i \in run[w].todo
  /\ Existing(run[w], i) = {}
  /\ \E amount \in RecurringAmounts(i.type, AsOf[run[w].period]) \ {None} :
       run' = [run EXCEPT ![w].stage = "insert", ![w].item = i,
                          ![w].amount = amount]
  /\ UNCHANGED <<vars, recurring>>

InsertCharge(w, c) ==
  LET r == run[w]
  IN  /\ r.stage = "insert"
      /\ charge[c].status = "ABSENT"
      /\ ChargeUnit[c] = r.item.unit
      /\ ChargeType[c] = r.item.type
      /\ ChargePeriod[c] = r.period
      /\ WriteNewCharge(c, r.amount, "DEBIT")
      /\ recurring' = recurring \cup {c}
      /\ run' = [run EXCEPT ![w].stage = "loop", ![w].item = None,
                            ![w].amount = None, ![w].todo = @ \ {r.item}]
      /\ UNCHANGED <<payment, app, period, bank>>

(* Whatever status the period has by then.                                 *)
FinishGeneration(w) ==
  /\ run[w].stage = "loop" /\ run[w].todo = {}
  /\ WritePeriod(run[w].period, "GENERATED")
  /\ run' = [run EXCEPT ![w] = AtRest]
  /\ UNCHANGED <<payment, charge, app, bank, recurring>>

(* The process stops: what was inserted stays.                             *)
Crash(w) ==
  /\ run[w].stage # "rest"
  /\ run' = [run EXCEPT ![w] = AtRest]
  /\ UNCHANGED <<vars, recurring>>

GenerationStep(w) ==
  \/ \E b \in Period, units \in SUBSET Unit, types \in SUBSET Type :
       BeginGeneration(w, b, units, types)
  \/ \E i \in Item : SkipBilled(w, i) \/ FailItem(w, i) \/ ResolveItem(w, i)
  \/ \E c \in Charge : InsertCharge(w, c)
  \/ FinishGeneration(w)
  \/ Crash(w)

GenerationNext ==
  \/ BankLedgerNext /\ UNCHANGED <<run, recurring>>
  \/ \E w \in Worker : GenerationStep(w)

GenerationSpec == GenerationInit /\ [][GenerationNext]_gvars

-----------------------------------------------------------------------------
GenerationTypeOK ==
  /\ TypeOK
  /\ run \in [Worker -> RunRecord]
  /\ recurring \subseteq Charge
  /\ \A w \in Worker :
       /\ run[w].stage # "rest" => run[w].period \in Period
       /\ run[w].stage = "insert" => run[w].item \in Item /\ run[w].amount \in Nat

(* "Idempotente al confirmar": however often a period is generated, after  *)
(* crashes, failed items, cancellations, payments and reversals, no unit   *)
(* has two live recurring charges of one type in it.                       *)
BilledOnce ==
  \A c, d \in recurring :
    /\ c # d
    /\ ChargeUnit[c] = ChargeUnit[d]
    /\ ChargePeriod[c] = ChargePeriod[d]
    /\ ChargeType[c] = ChargeType[d]
    => charge[c].status = "CANCELLED" \/ charge[d].status = "CANCELLED"

(* A generation marks its period GENERATED only when every unit it found   *)
(* has been charged for every type, by it or before it, or is among its    *)
(* errors: neither an interrupted run nor an overlapping one makes it      *)
(* forget a unit.                                                          *)
FinishedBilledStep ==
  \A w \in Worker :
    FinishGeneration(w) =>
      \A u \in run[w].units, t \in run[w].types :
        \/ [unit |-> u, type |-> t] \in run[w].failed
        \/ \E c \in Charge : /\ ChargeUnit[c] = u
                             /\ ChargePeriod[c] = run[w].period
                             /\ ChargeType[c] = t
                             /\ charge[c].status # "ABSENT"

FinishedBilledAll == [][FinishedBilledStep]_gvars
=============================================================================
