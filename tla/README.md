# Hydra: formal models of the residential back office

The repository is the NestJS back office of a residential complex (`apps/core`):
it bills residents for fees and water, records their payments, reconciles bank
movements and issues account statements, over one MySQL database reached through
Prisma. This directory holds TLA+ models of that code, the TLC configurations
that check them, and TLAPS proofs of the results that hold for every instance.

## The system

State lives in MySQL rows. A request runs one handler of one service; handlers
of different requests interleave at every `await`. Only some handlers use a
Prisma `$transaction`; none takes explicit locks. Nothing runs by itself: there
is no scheduler, queue or retry.

| Component | State | Operations | Hard part |
|---|---|---|---|
| Payments (`payments/payments.service.ts`) | `payment` rows: amount, unapplied amount, status, bank movement | create, confirm, cancel | check-then-write without transaction |
| Applications (`payments/payment-application.service.ts`) | `payment_application` rows, unique per (payment, charge), reversed and re-used | apply, autoApply, reverseApplication | absolute writes from snapshot reads; statuses recomputed differently by each handler |
| Charges (`charges/charges.service.ts`) | `unit_charge` rows: amount, movement, status, period | create, bulkCreate, update, cancel | active applications checked before an unconditional write |
| Billing periods (`billing-periods/`) | status DRAFT, GENERATED, OPEN, CLOSED, CANCELLED | create, generate, close, reopen, remove, summary | CLOSED freezes the rows of other components; generation is a loop without transaction |
| Bank reconciliation (`bank-transactions/bank-reconciliation.service.ts`) | `bank_transaction` status and matched unit | suggestMatch, match, ignore, reverse | two components write the same status |
| Bank import (`bank-transactions/bank-transactions.service.ts`) | `bank_transaction` rows, hash without unique index | create, importFromFile | overlapping and interrupted uploads |
| Unit balance (`payments/unit-balance.service.ts`) | none | getBalance, balanceUntil, pastDue | two derivations of the same number |
| Account statements, dashboard (`account-statements/`, `hydra-dashboard/`) | none | statement, issue, summary | a third derivation of that number |
| Water periods and readings (`water-readings/`) | period and reading rows chained month to month | generate, import, edit, prorate, calculate, close, reopen | inherited readings, recalculation over charges already paid |
| Water tariffs and calculator (`water-tariffs/`) | tariffs, tiers, status | create, load a table, update, remove; pricing | one tariff in force per month, rounding, table edges |
| Water meters (`water-meters/`) | one meter in service per unit | import, create, update, remove, replace | replacement in two writes |
| Import batches (`imports/`) | batch status, stored rows and results | upload, validate, confirm | partial failure, repetition, crash |
| Units and residents (`units/`, `residents/`) | units, residents, relations, one of them primary | create, update, close | demotion and write are two statements |
| Users and authentication (`users/`, `auth/`) | accounts, their switch, mailed links | register, create, set password, switch | a stale read written back, a link used twice |
| Catalogues, role permissions, audit log, `libs/*` | plain rows, log, clients | edits and reads | none: not modelled |

Components meet in the rows they share: an application writes the payment, the
charge and the payment's bank movement; billing generation and water calculation
insert charges; bank matching inserts payments; closing a period is a flag every
charge and application handler reads; batches insert residents, readings and
movements.

What makes each component right: money is neither made nor lost between
payments, applications and charges; no charge is paid beyond its amount; stored
statuses, the balances and the statements agree with the applications; a closed
period stays closed; a cancelled row stays cancelled; a generation, upload,
batch or calculation that is repeated or interrupted writes everything once; a
reading starts where the last one ended and is priced by its period's tariff; a
tariff month has one tariff; a unit has one meter and one primary resident; an
account that was switched off stays out.

## Modules

| Module | Models | Uses |
|---|---|---|
| `Payments` | payments, applications, charges and period status, one action per handler | |
| `BankReconciliation` | bank movements on the ledger | `Payments` |
| `UnitBalance` | balances and the period summary, read from the ledger | `BankReconciliation` |
| `AccountStatement` | statements of a unit and of a period, figures of the dashboard | `UnitBalance` |
| `ConcurrentLedger` | the same handlers split into reads and writes of overlapping requests | `UnitBalance` |
| `BillingGeneration` | generation of recurring charges, step by step, among the handlers of the ledger | `BankReconciliation` |
| `WaterCalculator` | the price of a consumption, exactly, with the four roundings | |
| `WaterTariffs` | tariffs and the monthly periods that refer to them | `WaterCalculator` |
| `WaterMeters` | the meters of the units | |
| `WaterReadings` | readings, proration and calculation into charges | `Payments`; instances of `WaterTariffs`, `WaterMeters` |
| `WaterBilling` | the water module put together with the ledger, its report and its properties | `WaterReadings` |
| `UnitResidents` | units, residents and relations, with overlapping requests | |
| `BankImport` | uploads of bank statements, overlapping, failing and stopping | |
| `Accounts` | users, their password links and their switch, with overlapping requests | |
| `Registry` | the registers that share no row, followed one at a time | `UnitResidents`, `BankImport`; instances of `WaterMeters`, `WaterTariffs`, `Accounts` |
| `ImportBatches` | import batches with failing rows, crashes and fairness | instance of `RowDelivery` |
| `RowDelivery` | abstract: what a batch promises of its rows | |
| `LedgerProofs`, `MoneyProofs` | proofs for the serial ledger with reconciliation | `BankReconciliation` |
| `BalanceProofs` | proofs that the balances, summaries and statements agree | `AccountStatement` |
| `ConcurrentProofs` | proofs for overlapping requests, for one at a time, and for one on a unit | `ConcurrentLedger` |
| `GenerationProofs`, `BatchProofs` | proofs for generation and batches | |
| `RegistryProofs` | proofs for residents, uploads, accounts, meters and tariffs, alone and together | `Registry` |
| `WaterProofs` | proofs for the calculator, tariffs, readings, proration and the report | `WaterBilling`, `MoneyProofs` |
| `MCPayments`, `MCBank`, `MCConcurrent`, `MCGeneration`, `MCWater`, `MCWaterBilling`, `MCRegistry`, `MCBatches` | small instances for TLC | |

A definition whose name is that of the next one with a suffix is a mutant of it:
a plausible mistake, which the run that checks the matching property is shown to
catch (`PROJECT.json`, `mutants`).

### State and actions against the code

`payment`, `charge`, `app`, `period` and `bank` are the tables. A row that has
not been inserted has status `ABSENT` (or application state `none`). `app[p][c]`
is one row per pair, as the unique index makes it; `state` is `active` when
`reversedAt` is null. A bank movement carries the matched unit. Columns fixed
when a row is created (unit, period, dates, charge type) are constants indexed
by the row.

Every handler is `...OK` (what its reads must show) and `Write...` (what its
statements store, from values the handler computed). The serial action conjoins
the two. `ConcurrentLedger` keeps what a worker has read in `flight[w]` and
performs the write in a later step. Audit log entries and notes are left out.

`apply` receives a function from charges to amounts. In the code it is a list;
an item that names a charge again fails with a conflict and the transaction
rolls back everything, so only lists without repetition change state. The order
of the list does not matter to what is written, since each item only reads rows
no other item writes, apart from the running unapplied amount, whose guard on
every prefix is the guard on the total.

Not in the model: statuses no handler writes to ledger rows (`DRAFT` and
`WAIVED` charges, `DUPLICATE` movements), movements imported with a negative
amount, and several currencies (amounts are added without conversion in the code
too). Units have no rows here: apart from `create` of a charge, a payment or a
match, which refuse a deleted unit and so only make rows fewer, no handler of the
ledger reads them.

### Overlapping requests

MySQL 8 runs Prisma's interactive transactions at REPEATABLE READ: plain reads
see the snapshot of the first read, updates act on the latest row and here
always write values computed in JavaScript. `apply`, `reverseApplication`,
`match` and `reverse` therefore read at one instant and write at a later one.
Row locks make the write set of a transaction appear at once; when two
transactions lock rows in opposite orders one is rolled back, which is
`Abandon`, as is a request whose process stops. Two inserts of one pair meet the
unique index: `fresh` holds the pairs a transaction will insert, and its commit
requires that none has appeared. Other handlers are autocommit statements with a
read before the write. A `findUnique` with `include` is taken as one read; Prisma
may issue two statements, which only adds interleavings of the kind modelled.
`match` and `reverse` check before their transaction opens, so their checks are
read with the rest. The charge handlers read the period in a second step
(`CheckPeriod`).

### Generation

`generate` is one request that lasts: `run[w]` holds the rest of its loop.
`BeginGeneration` is its reads of the period, units and types; for each item
`SkipBilled`, `FailItem` or `ResolveItem` follow what the loop body finds, and
`InsertCharge` is the insertion, a statement of its own. `FinishGeneration`
stamps the period. `Crash` drops the run; what it inserted stays, and a new
`BeginGeneration` is the repetition. Handlers of the ledger come between any two
steps, each as one action: what overlap does inside them is the subject of
`ConcurrentLedger`. `recurring` is the set of charges whose source column is
`RECURRING_FEE`. The amount is resolved by `RecurringAmounts` from the
configuration rows, which no handler of the repository writes. Due dates of
periods are constants here; `update` may move them in the code, which changes
only which configuration is in force.

### Balances and statements

`UnitBalance` and `AccountStatement` have no actions: they are what three
services compute from the ledger's rows. `StatementExplained` relates them: the
statement of a unit counts every payment in full, the balance counts what is
applied of it and what is not. The ledger's rows carry no dates of their own, so
the statement between two dates and the cut-off of a balance are left out.

The statements of a period, the outstanding balance and the delinquency list take
the units that are ACTIVE and not deleted; collection, the period's summary and
the units listed with debt do not. A unit's status changes whenever an
administrator updates or removes it, whatever it owes, and no handler of the
ledger looks at it, so the rows may meet any set of ACTIVE units: it is the
parameter `active` of `PeriodStatements`, `OutstandingBalance` and
`DelinquentUnits`, and each property that names them says so for every set. What
a unit set aside was charged is then missing from the statements of the period
and still collected (`SummaryAddsUp`), and its debt is on no list but that of
units with debt (`PastDueIsOwed`, `StatementExplained`).

### Water

A reading is one row per month and unit. A handler loops over the readings of a
month and catches what fails in one; the loop is one step here, because the
hazards of this component are sequences of handlers rather than their overlap.
`Calculated` and `ChargedFor` are the loop's body: the reading and the unit
charge its upsert leaves. Consumptions are hundredths of a cubic metre and
amounts cents; `WaterCalculator` computes in 1/10000 cents, so each rounding is
an exact rounding of a fraction. Which tariff was written last matters to which
one a period gets, so `loaded` keeps the order of the writes. Manual adjustment
and reserve fund are only added up, and are one field. The difference of the
macro meter may be negative in a file or an edit, as the requests accept a sign
there and nowhere else; a reading's amount may then be below zero, and its charge
is a CREDIT.

### Registers

`WaterMeters`, `WaterTariffs`, `UnitResidents`, `BankImport` and `Accounts` touch
no row of one another. `Registry` follows one of them in each behaviour
(`followed`), which leaves out nothing but orderings that no handler can tell
apart. In `UnitResidents`, `BankImport` and `Accounts` a handler that reads and
writes is two steps of a request, with others in between, and a request may stop
between them (`Abandon`, `Crash`, `GiveUp`). `unasked` and `shut` are history:
the relations made primary by a write that demotes nobody, and the accounts
whose last switch was off.

### Import batches

`validate` and `confirm` read the batch, and write it when they end; `confirm`
goes through the rows one by one. `made[b][l]` counts what a line has written.
`Crash` may stop a request before any step; `stopped` remembers the batches it
leaves PROCESSING. A row of a batch of residents is two inserts (`RowBegun`, then
`RowMade`); one that fails or stops in between leaves a resident without a unit,
which `orphans` remembers.

Nothing in the code keeps two requests off one batch, and nothing in the model
does. `contested` is history: the batches on which requests have overlapped. What
the handlers promise of a batch, each row once and an exact report, they keep
unless the batch is contested; of a contested one `RowsMadeOnce` bounds the
copies of a row and `FinalIsTrue` says what remains true of its report. The bound
is `MostCopies`, n(n+1)/2 for n requests: a confirmation needs a VALIDATED batch,
once the first validation is written only validations that had read the rows
before it can make it VALIDATED again, and each of those takes a request that
cannot confirm meanwhile.

## Runs

| Run | Question | Result |
|---|---|---|
| `payments` | Do the handlers, one at a time, keep money, statuses, summaries and frozen rows consistent, and does autoApply pay the past-due first? Do summary and statements of a period account for one another? | holds |
| `bank` | Do matching and reversing movements leave applications or units behind? Do past-due debt, statements and the lists of units in debt agree with the balances, whichever units are ACTIVE? | holds |
| `one_worker` | Do the split handlers implement the one-step handlers with one worker? | holds: a refinement, with the serial specification as the property |
| `apart` | Do overlapping requests on different units disturb one another's balances? | they do not |
| `overlap` | What survives any overlap? | types, and unconfirmed payments stay unspent |
| `over_applied` | Is a charge never paid beyond its amount under overlap? | violated |
| `generation` | Does a period generated again, after failures and crashes, bill a unit twice, or leave one out? | neither, one generation at a time |
| `water_readings` | Over two months: does each reading start where the last one ended, is an untaken one without consumption, a calculated one left alone, and each priced by its period's tariff? | holds |
| `water_billing` | While tariffs change and charges are paid: does the report say what is charged, is calculation idempotent, does proration recover the bill? | holds |
| `closed_tariff` | Does a closed period keep the tariff it was priced by? | violated |
| `registry` | Do the registers keep one meter, tariff, primary resident, row per movement and use of a link, up to what overlap can add? Does an account that is switched off stay out? | holds |
| `imports` | Are rows written once and reported truly, how far can requests that overlap on a batch spoil that, does a confirmation end, and is it the delivery `RowDelivery` promises? | holds, liveness under fairness; overlap repeats rows within a bound |

The two violated runs are the findings of `PROJECT.json`. `over_applied`: the
unit test named "dos pagos pueden cubrir el mismo cargo (segundo pago ve
remanente)" describes payments one after the other; two transactions that
overlap both see the whole remainder. `closed_tariff`: the flow document forbids
overwriting historical tariffs, and loading a month's table again updates the
tariff in place.

Other places where the models reach states a document or a test title does not
expect, without a run of their own: a movement matched twice has two confirmed
payments (`Match`, `Match`); a reversed pair applied again by two transactions
at once conflicts in neither, as there is no insertion; overlapping generations
bill a unit twice (`BillingGeneration` with two workers); `generate` accepts a
CLOSED period and sets it back to GENERATED.

### Bounds

One or two rows of each kind, which is what the behaviours need: two payments
for one charge, two charges for one payment, a charge in a period and one
outside, two overlapping requests. Amounts go up to 2 where a partial
application matters, and 0 enters where a zero charge matters. Rows are never
deleted, so instances are finite; the only bounds in guards are `MaxByHand`
(movements entered without a hash) and `MaxUses` (times a link is followed).

- `generation`: two units, two charge rows for the first (a second billing needs
  a second row), two configurations in force at once.
- `water_readings`: one unit, two months, a meter that may be out of service, consumptions of 0 and 3 m3 and the negative one
  of a replacement; a
  tariff whose discount exceeds the lowest price, so that credits occur.
- `water_billing`: two units in one month with two interchangeable meters of any
  unit and status, so that a calculation may fail for one; two tables, of which
  one lacks a row; a row whose difference makes a credit; one payment.
- `registry`: three meters and serials over two units, two tariffs with two
  dates, three relations of one unit, files with a repeated and with a broken
  row, two uploads, two links and two requests on one account.
- `imports`: two batches of three lines, one line malformed: one batch of
  residents, whose rows are two writes, and one of a type with endpoints of its
  own; two requests, which may meet on either and then write a row three times.
  Batches share nothing but the requests, and the proofs are for any number.

Deadlock is not checked: where all rows are final there is nothing left to do.
Symmetry is used for payments, workers, meters, relations and requests, which no
constant tells apart, and never in a run with a liveness property.

### Fairness

`ImportBatches` is the only module with liveness. `BatchFairness` is weak
fairness of the steps of each request: a request whose process lives takes its
next step, as the database answers or throws and the loop of `confirm` catches
what is thrown. Crashes are not excluded, so `ConfirmationEnds` says that a
batch leaves PROCESSING unless its confirmation was stopped. Nobody is assumed
to start or to repeat a request. The other handlers either end by themselves in
a bounded number of steps or do not run in a loop, and whether anyone repeats an
interrupted one is up to the administrators.

`ApartSpec`, used by `apart`, is not something the code enforces: it restricts
behaviours to those in which no two requests in flight concern the same unit
(closing a period or matching a movement concerns every unit; registering a
payment and cancelling a period read nothing that can change and are not
restricted). The run shows that this restriction is enough for the balances and
`ConcurrentProofs` that it is enough for the ledger's other invariants, so
serialising requests per unit would restore its guarantees.

### Refinements

`one_worker` and `OneWorkerAlone`: `ConcurrentLedger` with one request in flight
implements the serial ledger, under the identity mapping.
`UnitsApartImplement`: with one request per unit it implements `EarlyLedgerSpec`,
the serial ledger and two steps it does not have. `imports` and
`ImplementsDelivery`: `ImportBatches` implements `RowDelivery`, with the phase of
a batch read off its status (`PhaseOf`) and the copies of its rows off `made`.
`RowDelivery` excuses contested batches from delivering once, but not from the
bound on copies, and never the others.

## Proofs

All proofs are for any sets of rows and any amounts, from the assumptions on the
constants in the modules: identifiers of different kinds are different, amounts
and dates are natural numbers, charge dates differ, tables are finite. Of water:
levels, fees and bills are natural numbers, adjustments and macro differences
integers, the constant tariffs have the columns the engine is given, and a
reading has one charge of its own (`WaterAssumption`; the foreign key is unique).
Of the registers: meters, tokens and requests are finitely many, tariff dates are
not null and files of tariffs have those columns (`RegistryAssumption`).

`LedgerProofs`, the serial ledger with reconciliation:

- `TypeCorrect`: every column keeps its type; an unapplied amount is never below
  zero. Inductive by itself; one lemma per write.
- `UnusedWhenRetired`: no active application on a pending, cancelled or reversed
  payment nor on a cancelled charge. Inductive with the type invariant; argued
  pair by pair (`UnusedPair`).
- `ClosedFrozen`, `CancelledFinal`: action properties, from the type invariant
  and, for the second, from `UnusedWhenRetired`: a reversal sets both statuses
  again, and only the absence of applications on cancelled rows stops it from
  reviving one.
- `UnitBacked`: a movement that carries a unit has a payment of that unit that
  was not reversed. Inductive with `AbsentUnlinked` (a payment not inserted
  belongs to no movement): a step keeps the payment that backs the unit, or
  sets the unit with a new one, or clears it.

`MoneyProofs`, the amounts of the same ledger:

- `Conserved`, `NotOverApplied`, `ChargeStatusCorrect`, `PaymentStatusCorrect`.
  A sum of amounts is the number of their cents (`SumOf` counts the set
  `Cents`), so that what a sum becomes when one amount is added or taken away
  follows from the library's theorems on finite cardinalities and needs no
  induction. The invariant `MoneyInv` is the conjunction of the four and of
  "an active application has a positive amount": the statuses need the sums (a
  charge is PAID when nothing remains), and the sums need the statuses (a
  payment that was never confirmed has everything left). Steps are of three
  kinds (`StepKinds`): an application, a reversal, and those that touch no
  application (`QuietStep`).
- `PastDuePaidFirst`: autoApply, from `MoneyInv`: the debits sorted before a
  past-due one, and that one, are among those sorted before any debit not yet
  due (`PastDueOrder`), so if anything was left for the latter, the former got
  all it owed.

`BalanceProofs`, what is read from that ledger:

- `BalancesCorrect`, `StatementsExplained`, `PastDueCorrect`, `SummaryCorrect`.
  An application is counted once from its payment and once from its charge, so
  the heart of it is that a table of amounts has one total by rows and by
  columns (`BothWays`, from bijections between the cents of both). Payments and
  charges of a unit are such a table because no application crosses units
  (`SameUnit`, inductive) and because payments and charges left out of a total
  have no application (`RetiredRowsUnused`); that amounts are what is left and
  what is used is `MoneyInv`. That units are finitely many (`UnitsAssumption`)
  is needed to add over them. What concerns the lists is proved for every set of
  ACTIVE units.

`ConcurrentProofs`, for any number of workers and any overlap:

- `ConcurrentTypeCorrect`: types of rows and of the requests in flight.
- `UnconfirmedUnspent`: a payment nobody confirmed has all its money. Each step
  either leaves an unconfirmed payment and its applications alone
  (`SpendsNone`), or creates the payment.
- `OneWorkerAlone`, under the assumption that any two workers are one: the
  refinement of the serial ledger. The invariant
  (`FlightJustified`) says that what the request in flight has read is still
  so and what it has computed is still what the rows give; reads establish it,
  nobody writes in between, and a justified write is a step of the serial
  ledger. With it, every invariant above holds of requests that do not overlap.
- `UnitsApartImplement`, for any number of workers of which no two are on one
  unit, and at least one unit. It is not the serial ledger they implement: a
  period may be cancelled between the check of a closing and its write, and a
  payment linked to a movement between the reads of its reversal and its writes,
  as neither insertion nor cancellation reads anything. `EarlyLedgerSpec` has
  these two steps besides (`EarlyPeriod`, `EarlyReversal`). The invariant
  (`FlightHeld`) is that every other request is justified by the rows as they
  are, and a reversal's payments are still live and unused. It is preserved
  because a justified write touches rows of its own units alone (`UnitKept`), for
  which applications must not cross units (`SameUnit`), and because all a request
  reads is of its unit (`KeptReads`).
- `MoneyApart`, `BalancesApart`, `FrozenApart`, `BackedApart`: the invariants and
  action properties of the serial ledger survive the two early steps, so they hold
  of these requests. `over_applied` is the counterexample to `NeverOverApplied`
  for two requests on one unit.

`GenerationProofs`, for any units, types, charges and generations:

- `GenerationTypeCorrect`: types of rows and runs.
- `BilledAll`: a generation that finishes forgot nobody. The invariant is that
  each item of a run is still to do, failed, or has a charge (`AllAccounted`);
  it needs that no step of the ledger deletes a charge.
- `BilledOnceAlone`: under the assumption that any two workers are one. The
  invariant (`CheckStands`) adds to `BilledOnce` that the check made before an
  insertion still stands when it is made: handlers may cancel, pay and create
  charges in between, but none creates a recurring one, and none revives a
  cancelled one. That last fact is the ledger's, through `RetiredRowsUnused`,
  which generation is shown to preserve.

`RegistryProofs`, for any rows and any requests that overlap or stop:

- `ImportTypeCorrect`, `BoundedInserts`: rows of a content, with the inserts
  still to come, are never more than the uploads that run at a time: a lookup
  that finds none counts no row and at most the other uploads' inserts.
  `NoDuplicatesAlone` is the case of one upload at a time.
- `StoredWhenFinished`: every line an upload has passed is stored or reported
  (`Passed`), and rows are never deleted.
- `PrimariesBounded`: `PrimariesNeedOverlap` is not inductive, as it says nothing
  of the primaries about to be written. `Coming(u)` adds them: the relations a
  request has demoted the others for and has still to write. A demotion empties
  the part of it that is written and leaves only the other requests' part, and a
  write moves its own relation from one part to the other.
- `SwitchedOffIsOut`: the invariant relates the history `shut` to the column and
  to the guard's field (`ShutIsOff`); a switch that read the account before
  writes what it read, and clears the history when it switches on.
- `LinkUsesBounded`: `UseBounded` counts with the uses of a link the requests that
  have passed its check and have still to write. A request passes it only while
  the account remembers another link as the last one spent, and then the other
  links of the account already account for the uses so far.
- `ExchangeOneForOne`, an action property: a step that is no plain create or
  update leaves a unit's active meters alone, finds none there, or puts one in
  the place of another (`Exchanged`).
- `LoadedOnce`, an action property: a tariff just loaded is last in the order of
  writes (`TouchedLast`), so it is what every open period gets (`LastIsLatest`),
  and whatever has its date or month was archived with its date taken away.
- `RegistersApart`: the composition implements the specification of each of the
  three registers with requests; what is proved of them alone holds of it.

`WaterProofs`, of `ReadingSpec` and `WaterSpec` alike, for any units, months,
tariffs, meters and payments:

- The engine: the price of a priced consumption is an integer, and each of the
  four roundings leaves the error it may (`Rounded`, `WaterPrice`); half-up over
  a number of units is within half a cent per unit (`HalfUpNear`).
- Sums of amounts that may be negative: `Total` is the cents above zero less the
  cents below, so the sum of sums is the sum (`TotalPlus`), without induction.
- The invariant `WaterInv`: the types; what a period refers to exists and has
  prices (`TariffsFit`, preserved by loads that archive and relink); the two
  properties `DraftUnconsumed` and `CalculatedAddsUp`; readings belong to periods
  that were made (`ReadingsMade`, without which a month could not be chained to
  the one before); and a calculated reading's charge exists and is its amount
  with its sign (`ChargedAsRead`), which payments and reversals leave so.
  Handlers are of two kinds: those that leave the charges alone and make no
  reading CALCULATED (`PlainStep`), and those that calculate over rows each of
  which is kept, captured or priced (`CalculatingStep`).
- `WaterTypeCorrect`, `DraftsUnconsumed`, `PartsAddUp` are parts of it;
  `ReportIsTrue` adds up its rows.
- `ReadingsChained`, `CalculatedKept`, `CalculateIdempotent`, `PricedByTariff`,
  `BillRecovered`: action properties, each from `WaterInv` before the step.
  Idempotence needs `CalculatedAddsUp` (the amount is recomputed from the parts)
  and `ChargedAsRead` (the charge is rewritten); recovery needs the engine's
  rounding and `ProrateOK`, which refuses a month one reading of which has no
  price.

`BatchProofs`, for any batches, lines and requests, overlapping or not:

- `MadeOnce`, `FinalCorrect`, from the invariant `BatchInv`, which is `Good` of
  every batch; a step changes one batch and one request, which is at work on no
  other, so only that batch has to be looked at (`KeepsInv`). `Good` has three
  parts. What a batch says of its rows (`RowOK`) and what a request at work still
  knows of them (`JobOK`) survive whatever other requests do, because copies are
  only added and rows that were validated never become raw again. `Alone` is the
  exact correspondence of batch, rows and the single request of a batch that is
  not contested. `Bound` counts: with n copies of a line, those still planned by
  requests under way and m requests that are not about to validate the raw rows,
  twice their sum stays within m(m+1), and within m(m-1) while the batch is
  VALIDATED. A validation of raw rows adds one to m, and up to m confirmations
  may follow it, which is what m(m+1) - m(m-1) leaves room for.
- `ImplementsDelivery`: with `BatchInv`, each step is a step of `RowDelivery` or
  leaves its variables alone.

### Only model-checked

The liveness of `ConfirmationEnds`, as liveness under fairness is out of the
prover's reach.

## Not modelled

- Of the ledger: statuses no handler writes (`DRAFT` and `WAIVED` charges,
  `DUPLICATE` movements), negative imported movements, currencies.
- Of balances and statements: dates, the CSV export, consumption figures.
- Of water: units that are not ACTIVE, for which no readings are generated: all
  units of the water modules are; evidence photographs, stored import files, and the import batches
  that readings from a file leave as a record, which are written PROCESSED and
  never change; the snapshot of a calculation kept for display.
- Of import batches: what a row says. Its effect on residents and readings is in
  `ImportResident` of `UnitResidents` and `BatchReading` of `WaterReadings`.
- Of billing periods: create and update of columns the ledger does not read.
- Charge types, residential complexes and the permissions of roles: single-row
  edits behind a lookup; no property relates two of their rows.
- `users.remove`, which no endpoint reaches, and `openingFrom` of `getBalance`,
  which no caller passes.
- The audit log: appended after each handler and read by none.
- `libs/*`: order validation, shipping guides and their audit log refer to tables
  the schema does not have and are provided by no module of the application; the
  queue transporter and the rate limiter have no caller; the extensions for soft
  deletion are built and discarded (`libs/database/src/database.service.ts:15`).

## What is left

1. Overlap on one unit: how far the balances may drift apart. Until then the
   hazards of that kind have only `PendingNeverSpent` for every overlap and
   `BalancesAgree` for overlap on different units.
2. Dates in the ledger, and with them monthly statements and balances at a date.
3. Overlap inside the water handlers, which run outside transactions.
4. Proofs: a bound on what overlapping requests on one unit may overpay.
