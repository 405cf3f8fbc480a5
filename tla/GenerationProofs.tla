-------------------------- MODULE GenerationProofs --------------------------
(***************************************************************************)
(* What holds of recurring charge generation for every number of units,    *)
(* types, charges, payments and generations.  The ledger's lemmas carry    *)
(* over: a generation step only inserts a pending charge or stamps a       *)
(* period.                                                                 *)
(***************************************************************************)
EXTENDS BillingGeneration, LedgerProofs

USE DEF Item

LEMMA AtRestType == AtRest \in RunRecord
BY DEF AtRest, RunRecord

LEMMA GenerationInitType == GenerationInit => GenerationTypeOK
BY InitTypeOK, AtRestType DEF GenerationInit, GenerationTypeOK, AtRest

(* What a generation step does to the ledger: nothing, insert a pending    *)
(* charge, or stamp a period.                                              *)
LEMMA StepOnLedger ==
  ASSUME GenerationTypeOK, NEW w \in Worker, GenerationStep(w)
  PROVE  \/ UNCHANGED <<vars, recurring>>
         \/ /\ \E c \in Charge, amount \in Nat :
                 /\ charge[c].status = "ABSENT"
                 /\ WriteNewCharge(c, amount, "DEBIT")
            /\ UNCHANGED <<payment, app, period, bank>>
         \/ /\ \E b \in Period : WritePeriod(b, "GENERATED")
            /\ UNCHANGED <<payment, charge, app, bank, recurring>>
<1>1. CASE \E c \in Charge : InsertCharge(w, c)
  BY <1>1 DEF InsertCharge, GenerationTypeOK
<1>2. CASE FinishGeneration(w)
  BY <1>2 DEF FinishGeneration, GenerationTypeOK
<1>3. CASE Crash(w)
  BY <1>3 DEF Crash
<1>4. CASE \E b \in Period, units \in SUBSET Unit, types \in SUBSET Type :
             BeginGeneration(w, b, units, types)
  BY <1>4 DEF BeginGeneration
<1>5. CASE \E i \in Item : SkipBilled(w, i) \/ FailItem(w, i) \/ ResolveItem(w, i)
  BY <1>5 DEF SkipBilled, FailItem, ResolveItem
<1>6. QED BY <1>1, <1>2, <1>3, <1>4, <1>5 DEF GenerationStep

LEMMA StepTypeOK ==
  ASSUME GenerationTypeOK, NEW w \in Worker, GenerationStep(w)
  PROVE  TypeOK'
<1>1. CASE UNCHANGED <<vars, recurring>>
  BY <1>1 DEF GenerationTypeOK, TypeOK, vars
<1>2. CASE /\ \E c \in Charge, amount \in Nat :
                WriteNewCharge(c, amount, "DEBIT")
           /\ UNCHANGED <<payment, app, period, bank>>
  <2>1. charge' \in [Charge -> ChargeRow]
    BY <1>2, ChargeWritesType DEF GenerationTypeOK, Movement
  <2>2. QED BY <1>2, <2>1 DEF GenerationTypeOK, TypeOK
<1>3. CASE /\ \E b \in Period : WritePeriod(b, "GENERATED")
           /\ UNCHANGED <<payment, charge, app, bank, recurring>>
  <2>1. period' \in [Period -> PeriodStatus]
    BY <1>3, StatusValues DEF WritePeriod, GenerationTypeOK, TypeOK
  <2>2. QED BY <1>3, <2>1 DEF GenerationTypeOK, TypeOK
<1>4. QED BY <1>1, <1>2, <1>3, StepOnLedger

(* The columns of one generation's progress.                               *)
RunOK(r) ==
  /\ r \in RunRecord
  /\ r.stage # "rest" => r.period \in Period
  /\ r.stage = "insert" => r.item \in Item /\ r.amount \in Nat

LEMMA StepRun ==
  ASSUME GenerationTypeOK, NEW w \in Worker, GenerationStep(w)
  PROVE  /\ \E r : RunOK(r) /\ run' = [run EXCEPT ![w] = r]
         /\ recurring' \subseteq Charge
<1> DEFINE old == run[w]
<1>1. RunOK(old) /\ recurring \subseteq Charge
  BY DEF GenerationTypeOK, RunOK
<1>2. RunOK(AtRest)
  BY AtRestType DEF RunOK, AtRest
<1>3. ASSUME NEW b \in Period, NEW units \in SUBSET Unit,
             NEW types \in SUBSET Type, BeginGeneration(w, b, units, types)
      PROVE  \E r : RunOK(r) /\ run' = [run EXCEPT ![w] = r]
  <2> DEFINE r == [AtRest EXCEPT !.stage = "loop", !.period = b,
                                 !.units = units, !.types = types,
                                 !.todo = [unit : units, type : types]]
  <2>1. RunOK(r)
    BY DEF RunOK, RunRecord, AtRest
  <2>2. run' = [run EXCEPT ![w] = r]
    BY <1>3 DEF BeginGeneration
  <2>3. QED BY <2>1, <2>2
<1>4. ASSUME NEW i \in Item, SkipBilled(w, i)
      PROVE  \E r : RunOK(r) /\ run' = [run EXCEPT ![w] = r]
  <2> DEFINE r == [old EXCEPT !.todo = @ \ {i}]
  <2>1. RunOK(r)
    BY <1>1 DEF RunOK, RunRecord
  <2>2. run' = [run EXCEPT ![w] = r]
    BY <1>4 DEF SkipBilled
  <2>3. QED BY <2>1, <2>2
<1>5. ASSUME NEW i \in Item, FailItem(w, i)
      PROVE  \E r : RunOK(r) /\ run' = [run EXCEPT ![w] = r]
  <2> DEFINE r == [old EXCEPT !.stage = "loop", !.item = None, !.amount = None,
                              !.todo = @ \ {i}, !.failed = @ \cup {i}]
  <2>1. RunOK(r)
    BY <1>1, <1>5 DEF RunOK, RunRecord, FailItem
  <2>2. run' = [run EXCEPT ![w] = r]
    BY <1>5 DEF FailItem
  <2>3. QED BY <2>1, <2>2
<1>6. ASSUME NEW i \in Item, ResolveItem(w, i)
      PROVE  \E r : RunOK(r) /\ run' = [run EXCEPT ![w] = r]
  <2>1. RecurringAmounts(i.type, AsOf[old.period]) \ {None} \subseteq Nat
    BY GenerationAssumption DEF RecurringAmounts, InForce
  <2>2. PICK amount \in Nat :
          run' = [run EXCEPT ![w].stage = "insert", ![w].item = i,
                             ![w].amount = amount]
    BY <1>6, <2>1 DEF ResolveItem
  <2> DEFINE r == [old EXCEPT !.stage = "insert", !.item = i, !.amount = amount]
  <2>3. RunOK(r)
    BY <1>1, <1>6 DEF RunOK, RunRecord, ResolveItem
  <2>4. run' = [run EXCEPT ![w] = r]
    BY <2>2
  <2>5. QED BY <2>3, <2>4
<1>7. ASSUME NEW c \in Charge, InsertCharge(w, c)
      PROVE  /\ \E r : RunOK(r) /\ run' = [run EXCEPT ![w] = r]
             /\ recurring' \subseteq Charge
  <2> DEFINE r == [old EXCEPT !.stage = "loop", !.item = None, !.amount = None,
                              !.todo = @ \ {old.item}]
  <2>1. RunOK(r)
    BY <1>1, <1>7 DEF RunOK, RunRecord, InsertCharge
  <2>2. run' = [run EXCEPT ![w] = r]
    BY <1>7 DEF InsertCharge
  <2>3. recurring' \subseteq Charge
    BY <1>1, <1>7 DEF InsertCharge
  <2>4. QED BY <2>1, <2>2, <2>3
<1>8. CASE FinishGeneration(w) \/ Crash(w)
  BY <1>1, <1>2, <1>8 DEF FinishGeneration, Crash
<1>9. ASSUME \/ \E b \in Period, units \in SUBSET Unit, types \in SUBSET Type :
                  BeginGeneration(w, b, units, types)
             \/ \E i \in Item : \/ SkipBilled(w, i)
                                \/ FailItem(w, i)
                                \/ ResolveItem(w, i)
      PROVE  recurring' = recurring
  BY <1>9 DEF BeginGeneration, SkipBilled, FailItem, ResolveItem
<1>10. QED
  BY <1>1, <1>3, <1>4, <1>5, <1>6, <1>7, <1>8, <1>9 DEF GenerationStep

LEMMA GenerationNextType ==
  GenerationTypeOK /\ [GenerationNext]_gvars => GenerationTypeOK'
<1> SUFFICES ASSUME GenerationTypeOK, [GenerationNext]_gvars
             PROVE  GenerationTypeOK'
  OBVIOUS
<1>1. CASE [BankLedgerNext]_vars /\ UNCHANGED <<run, recurring>>
  BY <1>1, NextTypeOK DEF GenerationTypeOK
<1>2. ASSUME NEW w \in Worker, GenerationStep(w) PROVE GenerationTypeOK'
  <2>1. PICK r : RunOK(r) /\ run' = [run EXCEPT ![w] = r]
    BY <1>2, StepRun
  <2>2. TypeOK' /\ recurring' \subseteq Charge
    BY <1>2, StepTypeOK, StepRun
  <2>3. run' \in [Worker -> RunRecord] /\ \A v \in Worker : RunOK(run'[v])
    BY <2>1 DEF GenerationTypeOK, RunOK
  <2>4. QED BY <2>2, <2>3 DEF GenerationTypeOK, RunOK
<1>3. QED BY <1>1, <1>2 DEF GenerationNext, gvars, vars

(* With any number of overlapping, failing and crashing generations every  *)
(* column keeps its type, and an item about to be inserted has an amount.  *)
THEOREM GenerationTypeCorrect == GenerationSpec => []GenerationTypeOK
BY GenerationInitType, GenerationNextType, PTL DEF GenerationSpec

-----------------------------------------------------------------------------
(* The ledger's guarantee about retired rows survives generation: a charge *)
(* is only inserted where nothing paid.                                    *)

LEMMA StepUnused ==
  ASSUME GenerationTypeOK, RetiredRowsUnused, NEW w \in Worker, GenerationStep(w)
  PROVE  RetiredRowsUnused'
<1>1. UNCHANGED <<payment, app>>
  BY StepOnLedger DEF vars
<1>2. SUFFICES ASSUME NEW p \in Payment, NEW c \in Charge, Active(p, c)
               PROVE  charge'[c].status \notin {"ABSENT", "CANCELLED"}
  BY <1>1, UnusedPairs, UnusedPairsAfter DEF UnusedPair, Active
<1>3. charge[c].status \notin {"ABSENT", "CANCELLED"}
  BY <1>2, UnusedPairs DEF UnusedPair
<1>4. charge'[c] = charge[c]
  BY <1>3, StepOnLedger
  DEF vars, WriteNewCharge, GenerationTypeOK, TypeOK
<1>5. QED BY <1>3, <1>4

LEMMA GenerationNextUnused ==
  GenerationTypeOK /\ RetiredRowsUnused /\ [GenerationNext]_gvars
    => RetiredRowsUnused'
<1>1. ASSUME UNCHANGED gvars PROVE UNCHANGED vars
  BY <1>1 DEF gvars, vars
<1>2. QED
  BY <1>1, NextUnused, StepUnused DEF GenerationNext, GenerationTypeOK

LEMMA GenerationUnused == GenerationSpec => []RetiredRowsUnused
<1>1. GenerationInit => RetiredRowsUnused
  BY DEF GenerationInit, Init, NoAppRow, RetiredRowsUnused, PaidBy, Payers,
         Active
<1>2. QED
  BY <1>1, GenerationTypeCorrect, GenerationNextUnused, PTL DEF GenerationSpec

-----------------------------------------------------------------------------
(* Charges are never deleted, and a cancelled one stays cancelled.         *)

LEMMA LedgerKeepsRows ==
  ASSUME TypeOK, [BankLedgerNext]_vars, NEW c \in Charge,
         charge[c].status # "ABSENT"
  PROVE  charge'[c].status # "ABSENT"
<1>1. CASE ChargeNext
  <2>1. PICK d \in Charge :
          \/ \E amount \in Amount, movement \in Movement :
               \/ WriteNewCharge(d, amount, movement)
               \/ WriteChargeAmount(d, amount, movement)
          \/ \E movement \in Movement : WriteChargeMovement(d, movement)
          \/ WriteChargeCancelled(d)
    BY <1>1 DEF ChargeNext, CreateCharge, UpdateChargeAmount,
                UpdateChargeMovement, CancelCharge
  <2>2. charge \in [Charge -> ChargeRow]
    BY DEF TypeOK
  <2>3. ASSUME NEW amount, NEW movement, WriteNewCharge(d, amount, movement)
        PROVE  charge'[c].status # "ABSENT"
    BY <2>2, <2>3 DEF WriteNewCharge
  <2>4. ASSUME NEW amount, NEW movement, WriteChargeAmount(d, amount, movement)
        PROVE  charge'[c].status # "ABSENT"
    BY <2>2, <2>4 DEF WriteChargeAmount, ChargeRow
  <2>5. ASSUME NEW movement, WriteChargeMovement(d, movement)
        PROVE  charge'[c].status # "ABSENT"
    BY <2>2, <2>5 DEF WriteChargeMovement, ChargeRow
  <2>6. CASE WriteChargeCancelled(d)
    BY <2>2, <2>6 DEF WriteChargeCancelled, ChargeRow
  <2>7. QED BY <2>1, <2>3, <2>4, <2>5, <2>6
<1>2. CASE PaymentNext
  <2>1. PICK p \in Payment :
          \/ UNCHANGED <<charge, app>>
          \/ \E apps : Apply(p, apps)
          \/ \E d \in Charge : ReverseApplication(p, d)
    BY <1>2 DEF PaymentNext, CreatePayment, ConfirmPayment, CancelPayment,
                AutoApply
  <2>2. ASSUME NEW apps, Apply(p, apps) PROVE charge'[c].status # "ABSENT"
    BY <2>2, DerivedStatusLive DEF Apply, WriteApply, TypeOK, ChargeRow
  <2>3. ASSUME NEW d \in Charge, ReverseApplication(p, d)
        PROVE  charge'[c].status # "ABSENT"
    <3> DEFINE status == RestoredStatus(d, Remaining(d) + app[p][d].amount)
    <3>1. status # "ABSENT"
      BY DerivedStatusLive DEF RestoredStatus
    <3>2. charge' = [charge EXCEPT ![d].status = status]
      BY <2>3 DEF ReverseApplication, WriteReverse
    <3> HIDE DEF status
    <3>3. QED BY <3>1, <3>2 DEF TypeOK, ChargeRow
  <2>4. QED BY <2>1, <2>2, <2>3
<1>3. CASE PeriodNext \/ BankNext \/ UNCHANGED vars
  BY <1>3 DEF PeriodNext, ClosePeriod, ReopenPeriod, RemovePeriod, BankNext,
              SuggestMatch, Match, Ignore, ReverseBank, vars
<1>4. QED BY <1>1, <1>2, <1>3 DEF BankLedgerNext, Next

LEMMA RowsKept ==
  ASSUME GenerationTypeOK, RetiredRowsUnused, [GenerationNext]_gvars,
         NEW c \in Charge
  PROVE  /\ charge[c].status # "ABSENT" => charge'[c].status # "ABSENT"
         /\ charge[c].status = "CANCELLED" => charge'[c].status = "CANCELLED"
<1>1. CASE [BankLedgerNext]_vars
  <2>1. TypeOK
    BY DEF GenerationTypeOK
  <2>2. charge[c].status = "CANCELLED" => charge'[c] = charge[c]
    BY <1>1, <2>1, NextKeepsCancelled DEF KeepsCancelled, vars
  <2>3. QED BY <1>1, <2>1, <2>2, LedgerKeepsRows
<1>2. ASSUME NEW w \in Worker, GenerationStep(w)
      PROVE  charge[c].status # "ABSENT" => charge'[c] = charge[c]
  BY <1>2, StepOnLedger DEF WriteNewCharge, GenerationTypeOK, TypeOK, vars
<1>3. QED BY <1>1, <1>2 DEF GenerationNext, gvars, vars

-----------------------------------------------------------------------------
(* Every item of a generation is still to do, failed, or has a charge.     *)

HasCharge(rows, i, b) ==
  \E c \in Charge : /\ ChargeUnit[c] = i.unit
                    /\ ChargePeriod[c] = b
                    /\ ChargeType[c] = i.type
                    /\ rows[c].status # "ABSENT"

Accounted(r) ==
  r.stage # "rest" =>
    \A i \in [unit : r.units, type : r.types] :
      i \in r.todo \/ i \in r.failed \/ HasCharge(charge, i, r.period)

AllAccounted == \A w \in Worker : Accounted(run[w])

LEMMA HasChargeKept ==
  ASSUME GenerationTypeOK, RetiredRowsUnused, [GenerationNext]_gvars,
         NEW i, NEW b, HasCharge(charge, i, b)
  PROVE  HasCharge(charge', i, b)
BY RowsKept DEF HasCharge

LEMMA StepAccounted ==
  ASSUME GenerationTypeOK, RetiredRowsUnused, AllAccounted,
         NEW w \in Worker, GenerationStep(w), NEW v \in Worker
  PROVE  Accounted(run[v])'
<1> DEFINE old == run[w]
<1>1. [GenerationNext]_gvars
  BY DEF GenerationNext
<1>2. PICK r : run' = [run EXCEPT ![w] = r]
  BY StepRun
<1>3. Accounted(run[v])
  BY DEF AllAccounted
<1>4. ASSUME UNCHANGED run[v] PROVE Accounted(run[v])'
  BY <1>1, <1>3, <1>4, HasChargeKept DEF Accounted
<1>5. CASE v # w
  BY <1>2, <1>4, <1>5 DEF GenerationTypeOK
<1>6. ASSUME v = w, run'[w].stage # "rest",
             ~ \E b \in Period, units \in SUBSET Unit, types \in SUBSET Type :
                 BeginGeneration(w, b, units, types)
      PROVE  Accounted(run[w])'
  <2>1. \/ \E i \in Item : SkipBilled(w, i) \/ FailItem(w, i) \/ ResolveItem(w, i)
        \/ \E c \in Charge : InsertCharge(w, c)
    BY <1>6, AtRestType
    DEF GenerationStep, FinishGeneration, Crash, AtRest, GenerationTypeOK
  <2> DEFINE SameRequest ==
        /\ run'[w].units = old.units /\ run'[w].types = old.types
        /\ run'[w].period = old.period /\ old.stage # "rest"
        /\ old.failed \subseteq run'[w].failed
  <2>2. SameRequest
    <3>1. old \in RunRecord /\ run \in [Worker -> RunRecord]
      BY DEF GenerationTypeOK
    <3>2. ASSUME NEW i \in Item, SkipBilled(w, i) PROVE SameRequest
      BY <3>1, <3>2 DEF SkipBilled, RunRecord
    <3>3. ASSUME NEW i \in Item, FailItem(w, i) PROVE SameRequest
      BY <3>1, <3>3 DEF FailItem, RunRecord
    <3>4. ASSUME NEW i \in Item, ResolveItem(w, i) PROVE SameRequest
      BY <3>1, <3>4 DEF ResolveItem, RunRecord
    <3>5. ASSUME NEW c \in Charge, InsertCharge(w, c) PROVE SameRequest
      BY <3>1, <3>5 DEF InsertCharge, RunRecord
    <3> HIDE DEF SameRequest
    <3>6. QED BY <2>1, <3>2, <3>3, <3>4, <3>5
  <2>3. \A i \in old.todo : \/ i \in run'[w].todo
                             \/ i \in run'[w].failed
                             \/ HasCharge(charge, i, old.period)
                             \/ HasCharge(charge', i, old.period)
    <3>1. ASSUME NEW i \in Item, SkipBilled(w, i)
          PROVE  /\ run'[w].todo = old.todo \ {i}
                 /\ HasCharge(charge, i, old.period)
      BY <3>1 DEF SkipBilled, Existing, LiveCharges, HasCharge,
                  GenerationTypeOK, RunRecord
    <3>2. ASSUME NEW i \in Item, FailItem(w, i)
          PROVE  /\ run'[w].todo = old.todo \ {i}
                 /\ i \in run'[w].failed
      BY <3>2 DEF FailItem, GenerationTypeOK, RunRecord
    <3>3. ASSUME NEW i \in Item, ResolveItem(w, i)
          PROVE  run'[w].todo = old.todo
      BY <3>3 DEF ResolveItem, GenerationTypeOK, RunRecord
    <3>4. ASSUME NEW c \in Charge, InsertCharge(w, c)
          PROVE  /\ run'[w].todo = old.todo \ {old.item}
                 /\ HasCharge(charge', old.item, old.period)
      <4>1. run'[w].todo = old.todo \ {old.item}
        BY <3>4 DEF InsertCharge, GenerationTypeOK, RunRecord
      <4>2. charge'[c].status # "ABSENT"
        BY <3>4 DEF InsertCharge, WriteNewCharge, GenerationTypeOK, TypeOK
      <4>3. QED BY <3>4, <4>1, <4>2 DEF InsertCharge, HasCharge
    <3>5. QED BY <2>1, <3>1, <3>2, <3>3, <3>4
  <2>4. QED
    BY <1>1, <1>3, <1>6, <2>2, <2>3, HasChargeKept DEF Accounted
<1>7. ASSUME NEW b \in Period, NEW units \in SUBSET Unit,
             NEW types \in SUBSET Type, BeginGeneration(w, b, units, types)
      PROVE  Accounted(run[w])'
  BY <1>7 DEF BeginGeneration, Accounted, GenerationTypeOK, AtRest
<1>8. ASSUME run'[w].stage = "rest" PROVE Accounted(run[w])'
  BY <1>8 DEF Accounted
<1>9. QED BY <1>5, <1>6, <1>7, <1>8

LEMMA NextAccounted ==
  GenerationTypeOK /\ RetiredRowsUnused /\ AllAccounted /\ [GenerationNext]_gvars
    => AllAccounted'
<1> SUFFICES ASSUME GenerationTypeOK, RetiredRowsUnused, AllAccounted,
                    [GenerationNext]_gvars, NEW v \in Worker
             PROVE  Accounted(run[v])'
  BY DEF AllAccounted
<1>1. CASE run' = run
  BY <1>1, HasChargeKept DEF AllAccounted, Accounted
<1>2. CASE \E w \in Worker : GenerationStep(w)
  BY <1>2, StepAccounted
<1>3. QED BY <1>1, <1>2 DEF GenerationNext, gvars

(* A generation that finishes has billed every unit it found for every     *)
(* type, or reported it, however many run at once, fail and crash.         *)
THEOREM BilledAll == GenerationSpec => FinishedBilledAll
<1>1. GenerationInit => AllAccounted
  BY DEF GenerationInit, AllAccounted, Accounted, AtRest
<1> DEFINE Done ==
      \A w \in Worker :
        FinishGeneration(w) =>
          \A u \in run[w].units, t \in run[w].types :
            \/ [unit |-> u, type |-> t] \in run[w].failed
            \/ HasCharge(charge, [unit |-> u, type |-> t], run[w].period)
<1>2. AllAccounted => Done
  BY DEF AllAccounted, Accounted, FinishGeneration
<1>3. [Done]_gvars => [FinishedBilledStep]_gvars
  BY DEF FinishedBilledStep, HasCharge
<1> HIDE DEF Done
<1>4. QED
  BY <1>1, <1>2, <1>3, GenerationTypeCorrect, GenerationUnused, NextAccounted, PTL
  DEF GenerationSpec, FinishedBilledAll

-----------------------------------------------------------------------------
(* One generation at a time                                                *)

Same(c, r) ==
  /\ ChargeUnit[c] = r.item.unit
  /\ ChargePeriod[c] = r.period
  /\ ChargeType[c] = r.item.type

(* BilledOnce, and the check made before an insertion still stands.        *)
CheckStands ==
  /\ \A c \in recurring : charge[c].status # "ABSENT"
  /\ BilledOnce
  /\ \A w \in Worker : run[w].stage = "insert" =>
       \A c \in recurring : Same(c, run[w]) => charge[c].status = "CANCELLED"

LEMMA OneAtATime ==
  ASSUME \A v, w \in Worker : v = w
  PROVE  GenerationTypeOK /\ RetiredRowsUnused /\ CheckStands
           /\ [GenerationNext]_gvars => CheckStands'
<1> SUFFICES ASSUME GenerationTypeOK, RetiredRowsUnused, CheckStands,
                    [GenerationNext]_gvars
             PROVE  CheckStands'
  OBVIOUS
<1>1. recurring \subseteq Charge
  BY DEF GenerationTypeOK
<1>2. ASSUME recurring' = recurring
      PROVE  (\A c \in recurring : charge[c].status # "ABSENT")' /\ BilledOnce'
  BY <1>1, <1>2, RowsKept DEF CheckStands, BilledOnce
<1>3. CASE UNCHANGED <<run, recurring>>
  BY <1>1, <1>2, <1>3, RowsKept DEF CheckStands, Same
<1>4. ASSUME NEW w \in Worker, GenerationStep(w) PROVE CheckStands'
  <2>1. ASSUME NEW c \in Charge, InsertCharge(w, c) PROVE CheckStands'
    <3>1. /\ recurring' = recurring \cup {c}
          /\ Same(c, run[w])
          /\ charge'[c].status = "PENDING"
          /\ \A d \in Charge : d # c => charge'[d] = charge[d]
          /\ c \notin recurring
      BY <2>1 DEF InsertCharge, WriteNewCharge, Same, CheckStands,
                  GenerationTypeOK, TypeOK
    <3>2. \A d \in recurring : Same(d, run[w]) => charge[d].status = "CANCELLED"
      BY <2>1 DEF InsertCharge, CheckStands
    <3>3. BilledOnce'
      BY <1>1, <3>1, <3>2 DEF CheckStands, BilledOnce, Same
    <3>4. \A v \in Worker : run'[v].stage = "loop"
      BY <2>1 DEF InsertCharge, GenerationTypeOK, RunRecord
    <3>5. \A d \in recurring' : charge'[d].status # "ABSENT"
      BY <1>1, <3>1 DEF CheckStands
    <3>6. QED BY <3>3, <3>4, <3>5 DEF CheckStands
  <2>2. ASSUME NEW i \in Item, ResolveItem(w, i) PROVE CheckStands'
    <3>1. /\ UNCHANGED <<charge, recurring>>
          /\ run'[w].item = i /\ run'[w].period = run[w].period
          /\ Existing(run[w], i) = {}
      BY <2>2 DEF ResolveItem, GenerationTypeOK, RunRecord, vars
    <3>2. \A c \in recurring :
            Same(c, run'[w]) => charge[c].status = "CANCELLED"
      BY <1>1, <3>1 DEF Same, Existing, LiveCharges, CheckStands
    <3>3. QED BY <1>2, <3>1, <3>2 DEF CheckStands, Same
  <2>3. CASE \/ \E b \in Period, units \in SUBSET Unit, types \in SUBSET Type :
                  BeginGeneration(w, b, units, types)
             \/ \E i \in Item : SkipBilled(w, i) \/ FailItem(w, i)
             \/ FinishGeneration(w)
             \/ Crash(w)
    <3>1. recurring' = recurring
      BY <2>3 DEF BeginGeneration, SkipBilled, FailItem, FinishGeneration, Crash
    <3>2. \A v \in Worker : run'[v].stage # "insert"
      <4>1. run \in [Worker -> RunRecord] /\ \A v \in Worker : v = w
        BY DEF GenerationTypeOK
      <4>2. ASSUME NEW i \in Item, SkipBilled(w, i) \/ FailItem(w, i)
            PROVE  run'[w].stage = "loop"
        BY <4>1, <4>2 DEF SkipBilled, FailItem, RunRecord
      <4>3. ASSUME NEW b \in Period, NEW units \in SUBSET Unit,
                   NEW types \in SUBSET Type, BeginGeneration(w, b, units, types)
            PROVE  run'[w].stage = "loop"
        BY <4>1, <4>3 DEF BeginGeneration, AtRest
      <4>4. CASE FinishGeneration(w) \/ Crash(w)
        BY <4>1, <4>4 DEF FinishGeneration, Crash, AtRest
      <4>5. QED BY <2>3, <4>1, <4>2, <4>3, <4>4
    <3>3. QED BY <1>2, <3>1, <3>2 DEF CheckStands
  <2>4. QED BY <1>4, <2>1, <2>2, <2>3 DEF GenerationStep
<1>5. QED BY <1>3, <1>4 DEF GenerationNext, gvars

(* When generations do not overlap no unit is billed twice for one type in *)
(* one period, however often they fail, crash and are repeated, and        *)
(* whatever the ledger's handlers do between their steps.                  *)
THEOREM BilledOnceAlone ==
  ASSUME \A v, w \in Worker : v = w
  PROVE  GenerationSpec => []BilledOnce
<1>1. GenerationInit => CheckStands
  BY DEF GenerationInit, CheckStands, BilledOnce, AtRest
<1>2. CheckStands => BilledOnce
  BY DEF CheckStands
<1>3. QED
  BY <1>1, <1>2, GenerationTypeCorrect, GenerationUnused, OneAtATime, PTL
  DEF GenerationSpec
=============================================================================
