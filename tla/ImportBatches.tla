--------------------------- MODULE ImportBatches ----------------------------
(***************************************************************************)
(* Import batches: rows are uploaded, validated, and confirmed row by row  *)
(* into the other tables.  Every handler reads the batch first and writes  *)
(* it last, without a transaction; confirm writes one row after the other  *)
(* and may stop anywhere with the process.  Nothing keeps two requests on  *)
(* one batch apart: contested remembers the batches on which two have      *)
(* overlapped, and guards nothing.                                         *)
(*                                                                         *)
(* What a row says, and whether its unit or charge type exists, is left    *)
(* open: validation finds some of the well-formed rows good, and writing a *)
(* good row may fail.  All batches have the same lines.                    *)
(***************************************************************************)
EXTENDS Naturals, FiniteSets

CONSTANTS
  Batch,       \* identifiers of import_batch rows
  Line,        \* row numbers
  Malformed,   \* lines that validation refuses in any case
  Dedicated,   \* batches of a type that has endpoints of its own
  Residents,   \* batches whose rows are two writes: a resident, then its unit
  Request,     \* requests that may run at a time
  None

ASSUME BatchAssumption ==
  /\ Line \subseteq Nat /\ IsFiniteSet(Line)
  /\ Malformed \subseteq Line
  /\ Dedicated \subseteq Batch /\ Residents \subseteq Batch
  /\ IsFiniteSet(Request)
  /\ None \notin Batch

VARIABLES
  batch,     \* import_batch rows
  made,      \* how often each line was written in full
  orphans,   \* lines that left a resident without a unit
  request,   \* what each request is doing
  stopped,   \* batches whose confirmation was cut short
  contested  \* batches on which requests have overlapped

batchVars == <<batch, made, orphans, request, stopped, contested>>

BatchStatus == {"ABSENT", "UPLOADED", "VALIDATED", "PROCESSING", "PROCESSED",
                "PARTIAL", "FAILED"}

(* raw: previewData still holds the rows themselves; after a validation it *)
(* holds its results, of which the good lines are kept.                    *)
BatchRow == [status : BatchStatus, raw : BOOLEAN, good : SUBSET Line,
             report : SUBSET Line, processed : Nat]

NoBatch == [status |-> "ABSENT", raw |-> TRUE, good |-> {}, report |-> {},
            processed |-> 0]

(* read: what the request still needs of the row it read.                  *)
Job == [step : {"idle", "validate", "confirm", "rows"}, batch : Batch \cup {None},
        read : [raw : BOOLEAN, good : SUBSET Line, report : SUBSET Line], todo : SUBSET Line, failed : SUBSET Line,
        half : BOOLEAN]

Idle == [step |-> "idle", batch |-> None,
         read |-> [raw |-> FALSE, good |-> {}, report |-> {}],
         todo |-> {}, failed |-> {}, half |-> FALSE]

BatchTypeOK ==
  /\ batch \in [Batch -> BatchRow]
  /\ made \in [Batch -> [Line -> Nat]]
  /\ orphans \in [Batch -> SUBSET Line]
  /\ request \in [Request -> Job]
  /\ stopped \subseteq Batch /\ contested \subseteq Batch

BatchInit ==
  /\ batch = [b \in Batch |-> NoBatch]
  /\ made = [b \in Batch |-> [l \in Line |-> 0]]
  /\ orphans = [b \in Batch |-> {}]
  /\ request = [w \in Request |-> Idle]
  /\ stopped = {} /\ contested = {}

Busy(b) == \E w \in Request : request[w].batch = b

-----------------------------------------------------------------------------
Upload(b) ==
  /\ batch[b].status = "ABSENT"
  /\ batch' = [batch EXCEPT ![b] = [NoBatch EXCEPT !.status = "UPLOADED"]]
  /\ UNCHANGED <<made, orphans, request, stopped, contested>>

(* Both handlers start by reading the batch.                               *)
ConfirmOKAgain(row) == row.status \in {"VALIDATED", "PROCESSING", "PARTIAL"}

ConfirmOK(row) == row.status = "VALIDATED"

Start(w, b, step) ==
  /\ request[w].step = "idle"
  /\ batch[b].status # "ABSENT"
  /\ step = "confirm" => ConfirmOK(batch[b])
  /\ request' = [request EXCEPT ![w] =
       [Idle EXCEPT !.step = step, !.batch = b,
                    !.read = IF step = "validate"
                             THEN [Idle.read EXCEPT !.raw = batch[b].raw]
                             ELSE [Idle.read EXCEPT !.good = batch[b].good,
                                                    !.report = batch[b].report]]]
  /\ contested' = contested \cup {c \in {b} : Busy(c)}
  /\ UNCHANGED <<batch, made, orphans, stopped>>

(* A result has none of a row's fields: validated once more, all are bad.  *)
CanBeGoodAlways(b, row) == IF b \in Dedicated THEN {} ELSE Line \ Malformed

CanBeGood(b, row) ==
  IF b \in Dedicated \/ ~row.raw THEN {} ELSE Line \ Malformed

WriteValidation(w) ==
  LET b == request[w].batch
  IN  /\ request[w].step = "validate"
      /\ \E good \in SUBSET CanBeGood(b, request[w].read) :
           batch' = [batch EXCEPT ![b] =
             [status |-> IF good = {} THEN "FAILED" ELSE "VALIDATED",
              raw |-> FALSE, good |-> good, report |-> Line \ good,
              processed |-> batch[b].processed]]
      /\ request' = [request EXCEPT ![w] = Idle]
      /\ UNCHANGED <<made, orphans, stopped, contested>>

WriteProcessing(w) ==
  LET b == request[w].batch
  IN  /\ request[w].step = "confirm"
      /\ batch' = [batch EXCEPT ![b] = [batch[b] EXCEPT !.status = "PROCESSING"]]
      /\ request' = [request EXCEPT ![w] =
           [request[w] EXCEPT !.step = "rows", !.todo = request[w].read.good]]
      /\ UNCHANGED <<made, orphans, stopped, contested>>

NextLine(w, l) ==
  /\ request[w].step = "rows"
  /\ l \in request[w].todo
  /\ \A k \in request[w].todo : l <= k

(* The resident of the line; the relation to its unit is a second insert.  *)
RowBegun(w, l) ==
  /\ NextLine(w, l)
  /\ request[w].batch \in Residents
  /\ ~request[w].half
  /\ request' = [request EXCEPT ![w].half = TRUE]
  /\ UNCHANGED <<batch, made, orphans, stopped, contested>>

RowMade(w, l) ==
  LET b == request[w].batch
  IN  /\ NextLine(w, l)
      /\ b \in Residents => request[w].half
      /\ made' = [made EXCEPT ![b] = [made[b] EXCEPT ![l] = made[b][l] + 1]]
      /\ request' = [request EXCEPT ![w] =
           [request[w] EXCEPT !.todo = request[w].todo \ {l}, !.half = FALSE]]
      /\ UNCHANGED <<batch, orphans, stopped, contested>>

(* A resident inserted stays when its row goes no further.                 *)
LeaveOrphan(w) ==
  LET b == request[w].batch
  IN  orphans' = [orphans EXCEPT ![b] = orphans[b] \cup
        {l \in request[w].todo : NextLine(w, l) /\ request[w].half}]

RowFailsUncaught(w, l) ==
  /\ NextLine(w, l)
  /\ LeaveOrphan(w)
  /\ request' = [request EXCEPT ![w] = Idle]
  /\ UNCHANGED <<batch, made, stopped, contested>>

RowFails(w, l) ==
  /\ NextLine(w, l)
  /\ LeaveOrphan(w)
  /\ request' = [request EXCEPT ![w] =
       [request[w] EXCEPT !.todo = request[w].todo \ {l}, !.half = FALSE,
                          !.failed = request[w].failed \cup {l}]]
  /\ UNCHANGED <<batch, made, stopped, contested>>

Processed(job) == Cardinality(job.read.good \ job.failed)

FinalStatusIgnoresFailed(job) == IF Processed(job) > 0 THEN "PROCESSED" ELSE "FAILED"

FinalStatus(job) ==
  IF job.failed = {} THEN "PROCESSED"
  ELSE IF Processed(job) > 0 THEN "PARTIAL" ELSE "FAILED"

WriteFinal(w) ==
  LET b   == request[w].batch
      job == request[w]
  IN  /\ job.step = "rows"
      /\ job.todo = {}
      /\ batch' = [batch EXCEPT ![b] = [batch[b] EXCEPT
           !.status = FinalStatus(job),
           !.processed = Processed(job),
           !.report = IF job.failed = {} THEN job.read.report ELSE job.failed]]
      /\ request' = [request EXCEPT ![w] = Idle]
      /\ UNCHANGED <<made, orphans, stopped, contested>>

Crash(w) ==
  /\ request[w].step # "idle"
  /\ LeaveOrphan(w)
  /\ request' = [request EXCEPT ![w] = Idle]
  /\ stopped' = IF request[w].step = "rows" THEN stopped \cup {request[w].batch}
                ELSE stopped
  /\ UNCHANGED <<batch, made, contested>>

RequestStep(w) ==
  \/ WriteValidation(w) \/ WriteProcessing(w) \/ WriteFinal(w)
  \/ \E l \in Line : RowBegun(w, l) \/ RowMade(w, l) \/ RowFails(w, l)

BatchNext ==
  \/ \E b \in Batch : Upload(b)
  \/ \E w \in Request, b \in Batch, step \in {"validate", "confirm"} :
       Start(w, b, step)
  \/ \E w \in Request : RequestStep(w) \/ Crash(w)

(* A request whose process lives takes its next step: the database answers *)
(* or throws.                                                              *)
BatchFairness == \A w \in Request : WF_batchVars(RequestStep(w))

BatchSpec == BatchInit /\ [][BatchNext]_batchVars /\ BatchFairness

-----------------------------------------------------------------------------
(* What overlapping requests can add.  The rows themselves are read only   *)
(* by validations begun before the first of them ends; when the last of n  *)
(* requests but k comes to its end, it makes the batch VALIDATED once more *)
(* for at most n - k confirmations.                                        *)
MostCopies ==
  LET n == Cardinality(Request) IN (n * (n + 1)) \div 2

(* No row is written twice, however often its batch is validated and       *)
(* confirmed and wherever a confirmation stops, unless requests on the     *)
(* batch overlap: the results kept by the first validation never pass a    *)
(* second one.  Overlapping requests write it again, but no more often     *)
(* than validations still under way can hand it out.                       *)
RowsMadeOnce ==
  \A b \in Batch, l \in Line :
    /\ made[b][l] > 1 => b \in contested
    /\ made[b][l] <= MostCopies

Written(b) == {l \in Line : made[b][l] > 0}

(* What a batch says at the end is true even of overlapping requests: one  *)
(* that says PROCESSED has written every line it does not report, and no   *)
(* batch claims more rows than it has written.  Without overlap the good   *)
(* rows are exactly those written and those reported, and a resident left  *)
(* without a unit belongs to a reported line, unless the process stopped.  *)
FinalIsTrue ==
  \A b \in Batch :
    /\ batch[b].status = "PROCESSED" =>
         /\ Line \ batch[b].report \subseteq Written(b)
         /\ batch[b].processed = Cardinality(Line \ batch[b].report)
    /\ batch[b].status = "PARTIAL" =>
         batch[b].processed \in 1..Cardinality(Written(b))
    /\ b \notin contested =>
         /\ batch[b].status = "PROCESSED" => batch[b].good = Written(b)
         /\ batch[b].status = "PARTIAL" =>
              /\ batch[b].report = batch[b].good \ Written(b)
              /\ batch[b].processed = Cardinality(Written(b))
         /\ orphans[b] \subseteq batch[b].report
              \/ batch[b].status = "PROCESSING" \/ b \in stopped

(* A confirmation ends unless its process stops: no batch stays PROCESSING *)
(* for another reason.                                                     *)
ConfirmationEnds ==
  \A b \in Batch :
    batch[b].status = "PROCESSING" ~> (batch[b].status # "PROCESSING" \/ b \in stopped)

(* The batches deliver their rows as RowDelivery says, which excuses the   *)
(* contested ones from delivering once, but not from stopping.             *)
PhaseOf(b) ==
  CASE batch[b].status = "PROCESSING" -> "underway"
    [] batch[b].status \in {"ABSENT", "UPLOADED", "VALIDATED"} -> "open"
    [] OTHER -> "over"

Delivery == INSTANCE RowDelivery
  WITH phase <- [b \in Batch |-> PhaseOf(b)], copies <- made, Most <- MostCopies

Delivered == Delivery!DeliverySpec
=============================================================================
