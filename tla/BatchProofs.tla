---------------------------- MODULE BatchProofs -----------------------------
(***************************************************************************)
(* Import batches, for any numbers of batches, lines and requests, with    *)
(* requests that overlap, failing rows and crashes.  The argument goes     *)
(* batch by batch: a step changes one batch and one request, which is at   *)
(* work on no other.                                                       *)
(***************************************************************************)
EXTENDS ImportBatches, FiniteSetTheorems, TLAPS

Done(rows) == {l \in Line : rows[l] > 0}

Works(job, b) == job.step # "idle" /\ job.batch = b

(* What a batch says, and what a request at work on it still knows of it,  *)
(* whatever other requests do.                                             *)
RowOK(row, rows) ==
  /\ row.raw <=> row.status \in {"ABSENT", "UPLOADED"}
  /\ row.status = "VALIDATED" => row.report = Line \ row.good
  /\ row.status = "PROCESSED" =>
       /\ Line \ row.report \subseteq Done(rows)
       /\ row.processed = Cardinality(Line \ row.report)
  /\ row.status = "PARTIAL" => row.processed \in 1..Cardinality(Done(rows))

JobOK(job, row, rows) ==
  /\ row.status # "ABSENT"
  /\ job.step = "validate" => (row.raw => job.read.raw)
  /\ job.step \in {"confirm", "rows"} =>
       ~row.raw /\ job.read.report = Line \ job.read.good
  /\ job.step = "confirm" => job.failed = {}
  /\ job.step = "rows" =>
       /\ job.todo \subseteq job.read.good /\ job.failed \subseteq job.read.good
       /\ job.todo \cap job.failed = {}
       /\ job.read.good \ (job.todo \cup job.failed) \subseteq Done(rows)

(* The requests that are writing a line or will, and those that are not    *)
(* about to validate the rows themselves.                                  *)
Writes(job, b, l) == Works(job, b) /\ job.step = "rows" /\ l \in job.todo
Plans(job, b, l) ==
  Writes(job, b, l) \/ (Works(job, b) /\ job.step = "confirm" /\ l \in job.read.good)
ReadsRows(job, b) == Works(job, b) /\ job.step = "validate" /\ job.read.raw

Writing(b, l) == {w \in Request : Writes(request[w], b, l)}
Planning(b, l) == {w \in Request : Plans(request[w], b, l)}
Apart(b) == {w \in Request : ~ReadsRows(request[w], b)}

(* n copies of a line, and those still planned, with m requests apart.  A  *)
(* validation of the rows adds one to m; only then is the batch VALIDATED, *)
(* and no more than m confirmations are begun.                             *)
Bound(row, n, writing, planning, m) ==
  /\ row.raw => n = 0 /\ planning = {}
  /\ ~row.raw /\ row.status = "VALIDATED" =>
       2 * (n + Cardinality(writing)) <= m * (m - 1)
  /\ ~row.raw /\ row.status # "VALIDATED" =>
       2 * (n + Cardinality(planning)) <= m * (m + 1)

(* Without overlap, more is known.                                         *)
AloneOK(row, rows, lost) ==
  /\ \A l \in Line : rows[l] <= 1
  /\ row.status \in {"ABSENT", "UPLOADED", "VALIDATED"} => Done(rows) = {} /\ lost = {}
  /\ row.status = "PROCESSED" => row.good = Done(rows)
  /\ row.status = "PARTIAL" =>
       row.report = row.good \ Done(rows) /\ row.processed = Cardinality(Done(rows))

AloneJobOK(job, row, rows, lost) ==
  /\ job.step = "validate" => (job.read.raw => row.raw)
  /\ job.step = "confirm" => row.status = "VALIDATED" /\ job.read.good = row.good
  /\ job.step = "rows" =>
       /\ row.status = "PROCESSING" /\ row.good = job.read.good
       /\ Done(rows) = job.read.good \ (job.todo \cup job.failed)
       /\ lost \subseteq job.failed

Alone(b) ==
  /\ \A v, w \in Request : Works(request[v], b) /\ Works(request[w], b) => v = w
  /\ AloneOK(batch[b], made[b], orphans[b])
  /\ \A w \in Request : Works(request[w], b) =>
       AloneJobOK(request[w], batch[b], made[b], orphans[b])
  /\ orphans[b] \subseteq batch[b].report
       \/ batch[b].status = "PROCESSING" \/ b \in stopped

Good(b) ==
  /\ RowOK(batch[b], made[b])
  /\ \A w \in Request :
       Works(request[w], b) => JobOK(request[w], batch[b], made[b])
  /\ \A l \in Line : Bound(batch[b], made[b][l], Writing(b, l), Planning(b, l),
                           Cardinality(Apart(b)))
  /\ b \notin contested => Alone(b)

BatchInv ==
  /\ BatchTypeOK
  /\ \A w \in Request : request[w].step # "idle" => request[w].batch \in Batch
  /\ \A b \in Batch : Good(b)

LEMMA IdleType == Idle \in Job /\ Idle.step = "idle"
BY DEF Idle, Job

LEMMA DoneFinite == \A rows : IsFiniteSet(Done(rows)) /\ Cardinality(Done(rows)) \in Nat
<1> SUFFICES ASSUME NEW rows
             PROVE  IsFiniteSet(Done(rows)) /\ Cardinality(Done(rows)) \in Nat
  OBVIOUS
<1>1. Done(rows) \subseteq Line
  BY DEF Done
<1>2. QED BY <1>1, BatchAssumption, FS_Subset, FS_CardinalityType

(* The sets of requests are counted, and lie within one another.           *)
LEMMA Counted ==
  ASSUME NEW b, NEW l
  PROVE  /\ IsFiniteSet(Writing(b, l)) /\ Cardinality(Writing(b, l)) \in Nat
         /\ IsFiniteSet(Planning(b, l)) /\ Cardinality(Planning(b, l)) \in Nat
         /\ IsFiniteSet(Apart(b)) /\ Cardinality(Apart(b)) \in Nat
         /\ Cardinality(Writing(b, l)) <= Cardinality(Planning(b, l))
         /\ Cardinality(Planning(b, l)) <= Cardinality(Apart(b))
         /\ Cardinality(Apart(b)) <= Cardinality(Request)
<1>1. /\ Writing(b, l) \subseteq Planning(b, l) /\ Planning(b, l) \subseteq Apart(b)
      /\ Apart(b) \subseteq Request
  BY DEF Writing, Planning, Apart, Plans, Writes, ReadsRows
<1>2. IsFiniteSet(Apart(b)) /\ Cardinality(Apart(b)) <= Cardinality(Request)
  BY <1>1, BatchAssumption, FS_Subset
<1>3. IsFiniteSet(Planning(b, l)) /\ Cardinality(Planning(b, l)) <= Cardinality(Apart(b))
  BY <1>1, <1>2, FS_Subset
<1>4. IsFiniteSet(Writing(b, l)) /\ Cardinality(Writing(b, l)) <= Cardinality(Planning(b, l))
  BY <1>1, <1>3, FS_Subset
<1>5. QED BY <1>2, <1>3, <1>4, FS_CardinalityType

LEMMA Products ==
  ASSUME NEW m \in Nat, NEW k \in Nat, m <= k
  PROVE  /\ m * (m - 1) <= k * (k - 1) /\ m * (m + 1) <= k * (k + 1)
         /\ (m + 1) * ((m + 1) - 1) = m * (m + 1)
         /\ m * (m - 1) + 2 * m = m * (m + 1)
         /\ 0 <= m * (m - 1) /\ 0 <= m * (m + 1)
<1>1. PICK d \in Nat : k = m + d
  <2>1. k - m \in Nat /\ k = m + (k - m)
    OBVIOUS
  <2>2. QED BY <2>1
<1>2. k * (k + 1) = m * (m + 1) + (2 * (m * d) + d * d + d)
  BY <1>1
<1>3. k * (k - 1) = m * (m - 1) + (2 * (m * d) + d * d - d)
  BY <1>1
<1>4. m * d \in Nat /\ d * d >= d /\ d * d \in Nat
  <2>1. CASE d = 0
    BY <2>1
  <2>2. CASE d # 0
    <3>1. d >= 1
      BY <2>2
    <3>2. d * d >= d * 1
      BY <3>1
    <3>3. QED BY <3>2
  <2>3. QED BY <2>1, <2>2
<1>5. 0 <= m * (m - 1) /\ 0 <= m * (m + 1)
  <2>1. CASE m = 0
    BY <2>1
  <2>2. CASE m # 0
    <3>1. m >= 1
      BY <2>2
    <3>2. m * m >= m
      BY <3>1
    <3>3. QED BY <3>2
  <2>3. QED BY <2>1, <2>2
<1>6. (m + 1) * ((m + 1) - 1) = m * (m + 1) /\ m * (m - 1) + 2 * m = m * (m + 1)
  OBVIOUS
<1>7. QED BY <1>2, <1>3, <1>4, <1>5, <1>6

LEMMA BatchInitInv == BatchInit => BatchInv
<1> SUFFICES ASSUME BatchInit PROVE BatchInv
  OBVIOUS
<1>1. BatchTypeOK
  BY IdleType DEF BatchInit, BatchTypeOK, NoBatch, BatchRow, BatchStatus
<1>2. \A w \in Request : request[w].step = "idle"
  BY IdleType DEF BatchInit
<1>3. ASSUME NEW b \in Batch
      PROVE  Good(b)
  <2>1. /\ batch[b].status = "ABSENT" /\ batch[b].raw = TRUE
        /\ orphans[b] = {} /\ \A l \in Line : made[b][l] = 0
    BY DEF BatchInit, NoBatch
  <2>2. Done(made[b]) = {}
    BY <2>1 DEF Done
  <2>3. \A w \in Request : ~Works(request[w], b)
    BY <1>2 DEF Works
  <2>4. \A l \in Line : Planning(b, l) = {}
    BY <2>3 DEF Planning, Plans, Writes
  <2>5. RowOK(batch[b], made[b]) /\ AloneOK(batch[b], made[b], orphans[b])
    BY <2>1, <2>2 DEF RowOK, AloneOK
  <2>6. QED BY <2>1, <2>3, <2>4, <2>5 DEF Good, Bound, Alone
<1>4. QED BY <1>1, <1>2, <1>3 DEF BatchInv

-----------------------------------------------------------------------------
(* A step of request w on batch b, and what is to be shown of it.          *)
Changes(w, b, row, rows, lost, job) ==
  /\ batch' = [batch EXCEPT ![b] = row]
  /\ made' = [made EXCEPT ![b] = rows]
  /\ orphans' = [orphans EXCEPT ![b] = lost]
  /\ request' = [request EXCEPT ![w] = job]
  /\ row \in BatchRow /\ rows \in [Line -> Nat] /\ lost \subseteq Line /\ job \in Job
  /\ contested' \in {contested, contested \cup {b}}
  /\ stopped' \in {stopped, stopped \cup {b}}
  /\ request[w].step = "idle" \/ request[w].batch = b
  /\ job.step = "idle" \/ job.batch = b

KeepsOthers(old, oldRows, row, rows) ==
  /\ row.status = "ABSENT" => old.status = "ABSENT"
  /\ row.raw => old.raw
  /\ Done(oldRows) \subseteq Done(rows)

Keeps(w, b, row, rows, lost, job) ==
  /\ Changes(w, b, row, rows, lost, job)
  /\ KeepsOthers(batch[b], made[b], row, rows)
  /\ RowOK(row, rows)
  /\ job.step # "idle" => JobOK(job, row, rows)
  /\ \A l \in Line : Bound(row, rows[l], Writing(b, l)', Planning(b, l)',
                           Cardinality(Apart(b)'))
  /\ b \notin contested' =>
       /\ \A v \in Request : Works(request[v], b) => v = w
       /\ AloneOK(row, rows, lost)
       /\ job.step # "idle" => AloneJobOK(job, row, rows, lost)
       /\ lost \subseteq row.report \/ row.status = "PROCESSING" \/ b \in stopped'

(* Nothing changes for the batches on which nothing is done.               *)
LEMMA OthersKept ==
  ASSUME BatchInv, NEW w \in Request, NEW b \in Batch,
         NEW row, NEW rows, NEW lost, NEW job, Changes(w, b, row, rows, lost, job),
         NEW c \in Batch, c # b
  PROVE  Good(c)'
<1>1. /\ batch'[c] = batch[c] /\ made'[c] = made[c] /\ orphans'[c] = orphans[c]
      /\ (c \in contested' <=> c \in contested) /\ (c \in stopped' <=> c \in stopped)
  BY DEF Changes, BatchInv, BatchTypeOK
<1>2. \A v \in Request : v # w => request'[v] = request[v]
  BY DEF Changes, BatchInv, BatchTypeOK
<1>3. ~Works(request[w], c) /\ ~Works(request'[w], c)
  BY DEF Changes, Works, BatchInv, BatchTypeOK
<1>4. \A v \in Request : Works(request[v], c) \/ Works(request'[v], c) =>
        v # w /\ request'[v] = request[v]
  BY <1>2, <1>3
<1>5. /\ \A l \in Line : Writing(c, l)' = Writing(c, l) /\ Planning(c, l)' = Planning(c, l)
      /\ Apart(c)' = Apart(c)
  BY <1>4 DEF Writing, Planning, Apart, Writes, Plans, ReadsRows
<1>6. Good(c)
  BY DEF BatchInv
<1>7. ASSUME c \notin contested
      PROVE  Alone(c)'
  <2>1. Alone(c)
    BY <1>6, <1>7 DEF Good
  <2>2. \A u, v \in Request : Works(request'[u], c) /\ Works(request'[v], c) => u = v
    BY <2>1, <1>4 DEF Alone
  <2>3. \A v \in Request : Works(request'[v], c) =>
          AloneJobOK(request'[v], batch'[c], made'[c], orphans'[c])
    BY <2>1, <1>1, <1>4 DEF Alone
  <2>4. QED BY <2>1, <2>2, <2>3, <1>1 DEF Alone
<1>8. \A v \in Request : Works(request'[v], c) => JobOK(request'[v], batch'[c], made'[c])
  BY <1>1, <1>4, <1>6 DEF Good
<1>9. \A l \in Line : Bound(batch'[c], made'[c][l], Writing(c, l)', Planning(c, l)',
                            Cardinality(Apart(c)'))
  BY <1>1, <1>5, <1>6 DEF Good
<1>10. QED BY <1>1, <1>6, <1>7, <1>8, <1>9 DEF Good

LEMMA KeepsInv ==
  ASSUME BatchInv, NEW w \in Request, NEW b \in Batch,
         NEW row, NEW rows, NEW lost, NEW job, Keeps(w, b, row, rows, lost, job)
  PROVE  BatchInv'
<1>1. /\ batch \in [Batch -> BatchRow] /\ made \in [Batch -> [Line -> Nat]]
      /\ orphans \in [Batch -> SUBSET Line] /\ request \in [Request -> Job]
      /\ stopped \subseteq Batch /\ contested \subseteq Batch
  BY DEF BatchInv, BatchTypeOK
<1> USE DEF Keeps
<1>2. BatchTypeOK'
  BY <1>1 DEF Changes, BatchTypeOK
<1>3. /\ batch'[b] = row /\ made'[b] = rows /\ orphans'[b] = lost /\ request'[w] = job
      /\ \A v \in Request : v # w => request'[v] = request[v]
  BY <1>1 DEF Changes
<1>4. \A v \in Request : request'[v].step # "idle" => request'[v].batch \in Batch
  BY <1>3 DEF Changes, BatchInv
<1>5. Works(job, b) <=> job.step # "idle"
  BY DEF Changes, Works
<1>6. ASSUME NEW v \in Request, Works(request'[v], b)
      PROVE  JobOK(request'[v], batch'[b], made'[b])
  <2>1. CASE v = w
    BY <1>3, <1>5, <1>6, <2>1
  <2>2. CASE v # w
    <3>1. request'[v] = request[v] /\ JobOK(request[v], batch[b], made[b])
      BY <1>3, <1>6, <2>2 DEF BatchInv, Good
    <3>2. JobOK(request[v], row, rows)
      BY <3>1 DEF JobOK, KeepsOthers
    <3>3. QED BY <1>3, <3>1, <3>2
  <2>3. QED BY <2>1, <2>2
<1>7. ASSUME b \notin contested'
      PROVE  Alone(b)'
  <2>1. \A v \in Request : Works(request'[v], b) => v = w
    BY <1>3, <1>7
  <2>2. \A v \in Request : Works(request'[v], b) =>
          AloneJobOK(request'[v], batch'[b], made'[b], orphans'[b])
    BY <1>3, <1>5, <1>7, <2>1
  <2>3. AloneOK(batch'[b], made'[b], orphans'[b])
    BY <1>3, <1>7
  <2>4. \/ orphans'[b] \subseteq batch'[b].report
        \/ batch'[b].status = "PROCESSING" \/ b \in stopped'
    BY <1>3, <1>7
  <2>5. QED BY <2>1, <2>2, <2>3, <2>4 DEF Alone
<1>8. \A l \in Line : Bound(batch'[b], made'[b][l], Writing(b, l)', Planning(b, l)',
                            Cardinality(Apart(b)'))
  BY <1>3
<1>9. Good(b)'
  BY <1>3, <1>6, <1>7, <1>8 DEF Good
<1>10. \A c \in Batch : Good(c)'
  BY <1>9, OthersKept
<1>11. QED BY <1>2, <1>4, <1>10 DEF BatchInv

-----------------------------------------------------------------------------
(* A line's bound is kept by every step that neither adds a copy nor plans *)
(* one, and makes no batch VALIDATED.                                      *)
LEMMA Narrows ==
  ASSUME BatchInv, NEW w \in Request, NEW b \in Batch,
         NEW row, NEW rows, NEW lost, NEW job, Changes(w, b, row, rows, lost, job),
         NEW l \in Line, rows[l] = made[b][l],
         Plans(job, b, l) => Plans(request[w], b, l),
         ReadsRows(job, b) => ReadsRows(request[w], b),
         row.raw => batch[b].raw,
         row.status = "VALIDATED" =>
           /\ batch[b].status = "VALIDATED"
           /\ Writes(job, b, l) => Writes(request[w], b, l)
  PROVE  Bound(row, rows[l], Writing(b, l)', Planning(b, l)', Cardinality(Apart(b)'))
<1> DEFINE n == made[b][l]
           m == Cardinality(Apart(b))
           k == Cardinality(Apart(b)')
<1>1. /\ request'[w] = job /\ \A v \in Request : v # w => request'[v] = request[v]
      /\ n \in Nat
  BY DEF Changes, BatchInv, BatchTypeOK
<1>2. Bound(batch[b], n, Writing(b, l), Planning(b, l), m) /\ RowOK(batch[b], made[b])
  BY DEF BatchInv, Good
<1>3. Planning(b, l)' \subseteq Planning(b, l) /\ Apart(b) \subseteq Apart(b)'
  BY <1>1 DEF Planning, Apart
<1>4. row.status = "VALIDATED" => Writing(b, l)' \subseteq Writing(b, l)
  BY <1>1 DEF Writing
<1>5. /\ m \in Nat /\ IsFiniteSet(Planning(b, l)) /\ IsFiniteSet(Writing(b, l))
      /\ Cardinality(Planning(b, l)) \in Nat /\ Cardinality(Writing(b, l)) \in Nat
      /\ Cardinality(Planning(b, l)) <= m
  BY Counted
<1>6. k \in Nat /\ m <= k
  <2>1. IsFiniteSet(Apart(b)')
    <3>1. Apart(b)' \subseteq Request
      BY DEF Apart
    <3>2. QED BY <3>1, BatchAssumption, FS_Subset
  <2>2. QED BY <2>1, <1>3, FS_Subset, FS_CardinalityType
<1>7. Cardinality(Planning(b, l)') \in Nat
      /\ Cardinality(Planning(b, l)') <= Cardinality(Planning(b, l))
  BY <1>3, <1>5, FS_Subset, FS_CardinalityType
<1>8. row.status = "VALIDATED" =>
        Cardinality(Writing(b, l)') \in Nat
        /\ Cardinality(Writing(b, l)') <= Cardinality(Writing(b, l))
  BY <1>4, <1>5, FS_Subset, FS_CardinalityType
<1>9. /\ m * (m - 1) <= k * (k - 1) /\ m * (m + 1) <= k * (k + 1)
      /\ m * (m - 1) + 2 * m = m * (m + 1)
      /\ 0 <= k * (k - 1) /\ 0 <= k * (k + 1)
      /\ k * (k + 1) \in Int /\ k * (k - 1) \in Int
      /\ m * (m + 1) \in Int /\ m * (m - 1) \in Int
  <2>1. 0 <= k * (k - 1) /\ 0 <= k * (k + 1)
    BY <1>6, Products
  <2>2. m * (m - 1) <= k * (k - 1) /\ m * (m + 1) <= k * (k + 1)
        /\ m * (m - 1) + 2 * m = m * (m + 1)
    BY <1>5, <1>6, Products
  <2>3. QED BY <2>1, <2>2, <1>5, <1>6
<1>10. CASE row.raw
  BY <1>2, <1>3, <1>10 DEF Bound
<1>11. CASE ~row.raw /\ row.status = "VALIDATED"
  <2>1. 2 * (n + Cardinality(Writing(b, l))) <= m * (m - 1)
    BY <1>2, <1>11 DEF Bound, RowOK
  <2>2. 2 * (n + Cardinality(Writing(b, l)')) <= k * (k - 1)
    BY <2>1, <1>1, <1>5, <1>8, <1>9, <1>11
  <2>3. QED BY <2>2, <1>11 DEF Bound
<1>12. CASE ~row.raw /\ row.status # "VALIDATED"
  <2>1. 2 * (n + Cardinality(Planning(b, l)')) <= k * (k + 1)
    <3>1. CASE batch[b].raw
      <4>1. n = 0 /\ Planning(b, l)' = {}
        BY <3>1, <1>2, <1>3 DEF Bound
      <4>2. QED BY <4>1, <1>9, FS_EmptySet
    <3>2. CASE ~batch[b].raw /\ batch[b].status = "VALIDATED"
      <4>1. 2 * (n + Cardinality(Writing(b, l))) <= m * (m - 1)
        BY <3>2, <1>2 DEF Bound
      <4>2. QED BY <4>1, <1>1, <1>5, <1>7, <1>9
    <3>3. CASE ~batch[b].raw /\ batch[b].status # "VALIDATED"
      <4>1. 2 * (n + Cardinality(Planning(b, l))) <= m * (m + 1)
        BY <3>3, <1>2 DEF Bound
      <4>2. QED BY <4>1, <1>1, <1>7, <1>5, <1>9
    <3>4. QED BY <3>1, <3>2, <3>3
  <2>2. QED BY <2>1, <1>12 DEF Bound
<1>13. QED BY <1>10, <1>11, <1>12

-----------------------------------------------------------------------------
(* Facts about records, kept apart from the steps.                         *)
LEMMA StatusChange ==
  ASSUME NEW row \in BatchRow, NEW status \in BatchStatus
  PROVE  LET new == [row EXCEPT !.status = status]
         IN  /\ new \in BatchRow /\ new.status = status /\ new.raw = row.raw
             /\ new.good = row.good /\ new.report = row.report
             /\ new.processed = row.processed
BY DEF BatchRow

LEMMA JobType ==
  ASSUME NEW job \in Job
  PROVE  /\ job.read.good \subseteq Line /\ job.read.report \subseteq Line
         /\ job.todo \subseteq Line /\ job.failed \subseteq Line
         /\ job.read.raw \in BOOLEAN
BY DEF Job

LEMMA HalfChange ==
  ASSUME NEW job \in Job
  PROVE  LET new == [job EXCEPT !.half = TRUE]
         IN  /\ new \in Job /\ new.step = job.step /\ new.batch = job.batch
             /\ new.read = job.read /\ new.todo = job.todo /\ new.failed = job.failed
BY DEF Job

LEMMA BatchTypes ==
  ASSUME BatchInv, NEW b \in Batch
  PROVE  /\ batch[b] \in BatchRow /\ made[b] \in [Line -> Nat] /\ orphans[b] \subseteq Line
         /\ batch = [batch EXCEPT ![b] = batch[b]]
         /\ made = [made EXCEPT ![b] = made[b]]
         /\ orphans = [orphans EXCEPT ![b] = orphans[b]]
         /\ RowOK(batch[b], made[b])
         /\ b \notin contested => Alone(b)
<1>1. Good(b) /\ BatchTypeOK
  BY DEF BatchInv
<1>2. QED BY <1>1 DEF BatchTypeOK, Good

(* What is known of the request that takes a step.                         *)
LEMMA WorkFacts ==
  ASSUME BatchInv, NEW w \in Request, request[w].step # "idle"
  PROVE  LET b == request[w].batch
         IN  /\ request[w] \in Job /\ b \in Batch /\ Works(request[w], b)
             /\ JobOK(request[w], batch[b], made[b])
             /\ b \notin contested =>
                  /\ \A v \in Request : Works(request[v], b) => v = w
                  /\ AloneJobOK(request[w], batch[b], made[b], orphans[b])
<1>1. request[w] \in Job /\ request[w].batch \in Batch
  BY DEF BatchInv, BatchTypeOK
<1>2. Works(request[w], request[w].batch)
  BY DEF Works
<1>3. QED BY <1>1, <1>2 DEF BatchInv, Good, Alone

-----------------------------------------------------------------------------
(* One lemma per action.                                                   *)
LEMMA UploadInv ==
  ASSUME BatchInv, NEW b \in Batch, Upload(b)
  PROVE  BatchInv'
<1> DEFINE row == [NoBatch EXCEPT !.status = "UPLOADED"]
<1>1. row \in BatchRow /\ row.status = "UPLOADED" /\ row.raw = TRUE
  BY DEF NoBatch, BatchRow, BatchStatus
<1> HIDE DEF row
<1>2. /\ batch[b].status = "ABSENT" /\ batch' = [batch EXCEPT ![b] = row]
      /\ UNCHANGED <<made, orphans, request, stopped, contested>>
  BY DEF Upload, row
<1>3. BatchTypeOK' /\ batch'[b] = row /\ \A c \in Batch : c # b => batch'[c] = batch[c]
  BY <1>1, <1>2 DEF BatchInv, BatchTypeOK
<1>4. \A v \in Request : ~Works(request[v], b)
  BY <1>2 DEF BatchInv, Good, JobOK
<1>5. \A c \in Batch, l \in Line :
        /\ Writing(c, l)' = Writing(c, l) /\ Planning(c, l)' = Planning(c, l)
        /\ Apart(c)' = Apart(c)
  BY <1>2 DEF Writing, Planning, Apart
<1>6. ASSUME NEW c \in Batch, c # b
      PROVE  Good(c)'
  <2>1. Good(c)
    BY DEF BatchInv
  <2>2. Alone(c) => Alone(c)'
    BY <1>2, <1>3, <1>6 DEF Alone
  <2>3. QED BY <2>1, <2>2, <1>2, <1>3, <1>5, <1>6 DEF Good
<1>7. Good(b)'
  <2>1. RowOK(batch[b], made[b]) /\ (b \notin contested => Alone(b))
    BY BatchTypes
  <2>2. RowOK(row, made[b])
    BY <1>1 DEF RowOK
  <2>3. \A l \in Line : Bound(row, made[b][l], Writing(b, l)', Planning(b, l)',
                              Cardinality(Apart(b)'))
    <3>1. \A l \in Line : made[b][l] = 0 /\ Planning(b, l) = {}
      BY <2>1, <1>2 DEF BatchInv, Good, Bound, RowOK
    <3>2. QED BY <3>1, <1>1, <1>5 DEF Bound
  <2>4. b \notin contested => Alone(b)'
    <3>1. Alone(b) => AloneOK(row, made[b], orphans[b]) /\ orphans[b] = {}
      BY <1>1, <1>2 DEF Alone, AloneOK
    <3>2. QED BY <2>1, <3>1, <1>2, <1>3, <1>4 DEF Alone
  <2>5. QED BY <2>2, <2>3, <2>4, <1>2, <1>3, <1>4 DEF Good
<1>8. QED BY <1>2, <1>3, <1>6, <1>7 DEF BatchInv

LEMMA StartInv ==
  ASSUME BatchInv, NEW w \in Request, NEW b \in Batch,
         NEW step \in {"validate", "confirm"}, Start(w, b, step)
  PROVE  BatchInv'
<1> DEFINE row == batch[b]
           job == [Idle EXCEPT !.step = step, !.batch = b,
                     !.read = IF step = "validate"
                              THEN [Idle.read EXCEPT !.raw = row.raw]
                              ELSE [Idle.read EXCEPT !.good = row.good,
                                                     !.report = row.report]]
<1>1. /\ request[w].step = "idle" /\ row.status # "ABSENT"
      /\ step = "confirm" => row.status = "VALIDATED"
      /\ request' = [request EXCEPT ![w] = job]
      /\ UNCHANGED <<batch, made, orphans, stopped>>
  BY DEF Start, ConfirmOK
<1>2. contested' \in {contested, contested \cup {b}} /\ (Busy(b) => b \in contested')
  BY DEF Start
<1>3. /\ row \in BatchRow /\ RowOK(row, made[b]) /\ (b \notin contested => Alone(b))
      /\ made[b] \in [Line -> Nat] /\ orphans[b] \subseteq Line
  BY BatchTypes
<1>4. /\ job \in Job /\ job.step = step /\ job.batch = b /\ job.failed = {}
      /\ step = "validate" => job.read.raw = row.raw
      /\ step = "confirm" => job.read.good = row.good /\ job.read.report = row.report
  <2>1. row \in BatchRow
    BY <1>3
  <2> HIDE DEF row
  <2>2. QED BY <2>1 DEF Job, Idle, BatchRow
<1> HIDE DEF job
<1>5. Changes(w, b, row, made[b], orphans[b], job)
  BY <1>1, <1>2, <1>3, <1>4, BatchTypes DEF Changes
<1>6. JobOK(job, row, made[b])
  BY <1>1, <1>3, <1>4 DEF JobOK, RowOK
<1>7. ASSUME NEW l \in Line
      PROVE  Bound(row, made[b][l], Writing(b, l)', Planning(b, l)',
                   Cardinality(Apart(b)'))
  <2>1. ~Writes(job, b, l)
    BY <1>4 DEF Writes
  <2>2. request'[w] = job /\ \A v \in Request : v # w => request'[v] = request[v]
    BY <1>1 DEF BatchInv, BatchTypeOK
  <2>3. /\ ~Writes(request[w], b, l) /\ ~Plans(request[w], b, l)
        /\ ~ReadsRows(request[w], b)
    BY <1>1 DEF Writes, Plans, ReadsRows, Works
  <2>4. Bound(row, made[b][l], Writing(b, l), Planning(b, l), Cardinality(Apart(b)))
    BY DEF BatchInv, Good
  <2>5. CASE row.raw
    <3>1. ~Plans(job, b, l)
      BY <2>1, <2>5, <1>1, <1>3, <1>4 DEF Plans, RowOK
    <3>2. Planning(b, l)' = Planning(b, l)
      BY <3>1, <2>2, <2>3 DEF Planning
    <3>3. QED BY <2>4, <2>5, <3>2 DEF Bound
  <2>6. CASE ~row.raw /\ step = "validate"
    <3>1. ~Plans(job, b, l) /\ ~ReadsRows(job, b)
      BY <2>1, <2>6, <1>4 DEF Plans, ReadsRows
    <3>2. /\ Planning(b, l)' = Planning(b, l) /\ Apart(b)' = Apart(b)
          /\ Writing(b, l)' = Writing(b, l)
      BY <3>1, <2>1, <2>2, <2>3 DEF Planning, Apart, Writing
    <3>3. QED BY <2>4, <3>2
  <2>7. CASE ~row.raw /\ step = "confirm"
    <3>1. ~ReadsRows(job, b)
      BY <2>7, <1>4 DEF ReadsRows
    <3>2. Apart(b)' = Apart(b) /\ Writing(b, l)' = Writing(b, l)
      BY <3>1, <2>1, <2>2, <2>3 DEF Apart, Writing
    <3>3. QED BY <2>4, <2>7, <3>2, <1>1 DEF Bound
  <2>8. QED BY <2>5, <2>6, <2>7
<1>8. ASSUME b \notin contested'
      PROVE  /\ \A v \in Request : Works(request[v], b) => v = w
             /\ AloneOK(row, made[b], orphans[b])
             /\ AloneJobOK(job, row, made[b], orphans[b])
             /\ \/ orphans[b] \subseteq row.report
                \/ row.status = "PROCESSING" \/ b \in stopped'
  <2>1. ~Busy(b) /\ b \notin contested
    BY <1>2, <1>8
  <2>2. AloneJobOK(job, row, made[b], orphans[b])
    BY <1>1, <1>4 DEF AloneJobOK
  <2>3. QED BY <2>1, <2>2, <1>1, <1>3 DEF Alone, Busy, Works
<1>9. KeepsOthers(row, made[b], row, made[b])
  BY DEF KeepsOthers
<1>10. Keeps(w, b, row, made[b], orphans[b], job)
  BY <1>3, <1>5, <1>6, <1>7, <1>8, <1>9 DEF Keeps
<1>11. QED BY <1>10, KeepsInv

LEMMA WriteValidationInv ==
  ASSUME BatchInv, NEW w \in Request, NEW b \in Batch, b = request[w].batch,
         WriteValidation(w)
  PROVE  BatchInv'
<1>1. request[w].step = "validate"
  BY DEF WriteValidation
<1>2. /\ b \in Batch /\ request[w] \in Job /\ Works(request[w], b)
      /\ JobOK(request[w], batch[b], made[b])
      /\ b \notin contested =>
           /\ \A v \in Request : Works(request[v], b) => v = w
           /\ AloneJobOK(request[w], batch[b], made[b], orphans[b])
  BY <1>1, WorkFacts
<1>3. /\ batch[b] \in BatchRow /\ RowOK(batch[b], made[b])
      /\ made[b] \in [Line -> Nat] /\ orphans[b] \subseteq Line
      /\ b \notin contested => Alone(b)
  BY <1>2, BatchTypes
<1>4. PICK good \in SUBSET CanBeGood(b, request[w].read) :
        batch' = [batch EXCEPT ![b] =
             [status |-> IF good = {} THEN "FAILED" ELSE "VALIDATED",
              raw |-> FALSE, good |-> good, report |-> Line \ good,
              processed |-> batch[b].processed]]
  BY DEF WriteValidation
<1> DEFINE row == [status |-> IF good = {} THEN "FAILED" ELSE "VALIDATED",
                   raw |-> FALSE, good |-> good, report |-> Line \ good,
                   processed |-> batch[b].processed]
<1>5. good \subseteq Line /\ (good # {} => request[w].read.raw)
  BY DEF CanBeGood
<1>6. /\ row \in BatchRow /\ ~row.raw /\ row.good = good /\ row.report = Line \ good
      /\ row.status = IF good = {} THEN "FAILED" ELSE "VALIDATED"
  BY <1>3, <1>5 DEF BatchRow, BatchStatus
<1>7. batch' = [batch EXCEPT ![b] = row]
  BY <1>4
<1>8. /\ request' = [request EXCEPT ![w] = Idle]
      /\ UNCHANGED <<made, orphans, stopped, contested>>
  BY DEF WriteValidation
<1> HIDE DEF row
<1>9. Changes(w, b, row, made[b], orphans[b], Idle)
  BY <1>2, <1>3, <1>6, <1>7, <1>8, BatchTypes, IdleType DEF Changes
<1>10. RowOK(row, made[b]) /\ KeepsOthers(batch[b], made[b], row, made[b])
  BY <1>6 DEF RowOK, KeepsOthers
<1>11. ASSUME NEW l \in Line
       PROVE  Bound(row, made[b][l], Writing(b, l)', Planning(b, l)',
                    Cardinality(Apart(b)'))
  <2>1. ~Plans(Idle, b, l) /\ ~ReadsRows(Idle, b) /\ ~Writes(Idle, b, l)
    BY IdleType DEF Plans, Writes, ReadsRows, Works
  <2>2. CASE row.status # "VALIDATED"
    BY <2>1, <2>2, <1>2, <1>6, <1>9, Narrows
  <2>3. CASE row.status = "VALIDATED"
    <3> DEFINE m == Cardinality(Apart(b))
               n == made[b][l]
    <3>1. request[w].read.raw
      BY <2>3, <1>5, <1>6
    <3>2. ReadsRows(request[w], b) /\ ~Plans(request[w], b, l) /\ ~Writes(request[w], b, l)
      BY <3>1, <1>1, <1>2 DEF ReadsRows, Plans, Writes
    <3>3. request'[w] = Idle /\ \A v \in Request : v # w => request'[v] = request[v]
      BY <1>8 DEF BatchInv, BatchTypeOK
    <3>4. Writing(b, l)' = Writing(b, l)
      BY <2>1, <3>2, <3>3 DEF Writing
    <3>5. Apart(b)' = Apart(b) \cup {w} /\ w \notin Apart(b)
      BY <2>1, <3>2, <3>3 DEF Apart
    <3>6. /\ m \in Nat /\ IsFiniteSet(Apart(b)) /\ Cardinality(Writing(b, l)) \in Nat
          /\ Cardinality(Planning(b, l)) \in Nat
          /\ Cardinality(Writing(b, l)) <= Cardinality(Planning(b, l))
          /\ n \in Nat
      BY Counted, <1>3
    <3>7. Cardinality(Apart(b)') = m + 1
      BY <3>5, <3>6, FS_AddElement
    <3>8. 2 * (n + Cardinality(Writing(b, l))) <= m * (m + 1)
      <4>1. Bound(batch[b], n, Writing(b, l), Planning(b, l), m)
        BY <1>2 DEF BatchInv, Good
      <4>2. m * (m - 1) + 2 * m = m * (m + 1) /\ 0 <= m * (m + 1)
            /\ m * (m - 1) \in Int /\ m * (m + 1) \in Int
        <5>1. m * (m - 1) + 2 * m = m * (m + 1) /\ 0 <= m * (m + 1)
          BY <3>6, Products
        <5>2. QED BY <5>1, <3>6
      <4>3. CASE batch[b].raw
        <5>1. n = 0 /\ Planning(b, l) = {} /\ Writing(b, l) = {}
          BY <4>1, <4>3 DEF Bound, Planning, Writing, Plans
        <5>2. QED BY <5>1, <4>2, FS_EmptySet
      <4>4. CASE ~batch[b].raw /\ batch[b].status = "VALIDATED"
        <5>1. 2 * (n + Cardinality(Writing(b, l))) <= m * (m - 1)
          BY <4>1, <4>4 DEF Bound
        <5>2. QED BY <5>1, <4>2, <3>6
      <4>5. CASE ~batch[b].raw /\ batch[b].status # "VALIDATED"
        <5>1. 2 * (n + Cardinality(Planning(b, l))) <= m * (m + 1)
          BY <4>1, <4>5 DEF Bound
        <5>2. QED BY <5>1, <4>2, <3>6
      <4>6. QED BY <4>3, <4>4, <4>5
    <3>9. (m + 1) * ((m + 1) - 1) = m * (m + 1)
      BY <3>6
    <3>10. 2 * (n + Cardinality(Writing(b, l)'))
             <= Cardinality(Apart(b)') * (Cardinality(Apart(b)') - 1)
      BY <3>4, <3>7, <3>8, <3>9
    <3>11. QED BY <3>10, <2>3, <1>6 DEF Bound
  <2>4. QED BY <2>2, <2>3
<1>12. ASSUME b \notin contested'
       PROVE  AloneOK(row, made[b], orphans[b]) /\ orphans[b] \subseteq row.report
  <2>1. Alone(b) /\ AloneJobOK(request[w], batch[b], made[b], orphans[b])
    BY <1>2, <1>3, <1>8, <1>12
  <2>2. AloneOK(batch[b], made[b], orphans[b])
    BY <2>1 DEF Alone
  <2>3. CASE good = {}
    BY <2>2, <2>3, <1>3, <1>6 DEF AloneOK
  <2>4. CASE good # {}
    <3>1. batch[b].status \in {"ABSENT", "UPLOADED"}
      BY <2>1, <2>4, <1>1, <1>3, <1>5 DEF AloneJobOK, RowOK
    <3>2. QED BY <2>2, <2>4, <3>1, <1>6 DEF AloneOK
  <2>5. QED BY <2>3, <2>4
<1>13. Keeps(w, b, row, made[b], orphans[b], Idle)
  BY <1>2, <1>8, <1>9, <1>10, <1>11, <1>12, IdleType DEF Keeps
<1>14. QED BY <1>2, <1>13, KeepsInv

LEMMA WriteProcessingInv ==
  ASSUME BatchInv, NEW w \in Request, NEW b \in Batch, b = request[w].batch,
         WriteProcessing(w)
  PROVE  BatchInv'
<1> DEFINE row == [batch[b] EXCEPT !.status = "PROCESSING"]
           job == [request[w] EXCEPT !.step = "rows", !.todo = request[w].read.good]
<1>1. request[w].step = "confirm"
  BY DEF WriteProcessing
<1>2. /\ b \in Batch /\ request[w] \in Job /\ Works(request[w], b)
      /\ JobOK(request[w], batch[b], made[b])
      /\ b \notin contested =>
           /\ \A v \in Request : Works(request[v], b) => v = w
           /\ AloneJobOK(request[w], batch[b], made[b], orphans[b])
  BY <1>1, WorkFacts
<1>3. /\ batch[b] \in BatchRow /\ RowOK(batch[b], made[b])
      /\ made[b] \in [Line -> Nat] /\ orphans[b] \subseteq Line
      /\ b \notin contested => Alone(b)
  BY <1>2, BatchTypes
<1>4. /\ row \in BatchRow /\ row.status = "PROCESSING" /\ row.raw = batch[b].raw
      /\ row.good = batch[b].good
  <2>1. "PROCESSING" \in BatchStatus
    BY DEF BatchStatus
  <2>2. QED BY <1>3, <2>1, StatusChange
<1>5. /\ job \in Job /\ job.step = "rows" /\ job.batch = b /\ job.read = request[w].read
      /\ job.todo = request[w].read.good /\ job.failed = request[w].failed
  <2> DEFINE old == request[w]
             todo == old.read.good
  <2>1. old \in Job /\ todo \subseteq Line
    BY <1>2, JobType
  <2> HIDE DEF old, todo
  <2>2. LET new == [old EXCEPT !.step = "rows", !.todo = todo]
        IN  /\ new \in Job /\ new.step = "rows" /\ new.batch = old.batch
            /\ new.read = old.read /\ new.todo = todo /\ new.failed = old.failed
    BY <2>1 DEF Job
  <2>3. QED BY <2>2 DEF old, todo
<1>6. /\ batch' = [batch EXCEPT ![b] = row] /\ request' = [request EXCEPT ![w] = job]
      /\ UNCHANGED <<made, orphans, stopped, contested>>
  BY DEF WriteProcessing
<1> HIDE DEF row, job
<1>7. Changes(w, b, row, made[b], orphans[b], job)
  BY <1>2, <1>3, <1>4, <1>5, <1>6, BatchTypes DEF Changes
<1>8. ~batch[b].raw /\ request[w].failed = {}
      /\ request[w].read.report = Line \ request[w].read.good
  BY <1>1, <1>2 DEF JobOK
<1>9. RowOK(row, made[b]) /\ KeepsOthers(batch[b], made[b], row, made[b])
  BY <1>4, <1>8 DEF RowOK, KeepsOthers
<1>10. JobOK(job, row, made[b])
  BY <1>4, <1>5, <1>8 DEF JobOK
<1>11. ASSUME NEW l \in Line
       PROVE  Bound(row, made[b][l], Writing(b, l)', Planning(b, l)',
                    Cardinality(Apart(b)'))
  <2>1. Plans(job, b, l) => Plans(request[w], b, l)
    BY <1>1, <1>2, <1>5 DEF Plans, Writes
  <2>2. ~ReadsRows(job, b)
    BY <1>5 DEF ReadsRows
  <2>3. QED BY <2>1, <2>2, <1>2, <1>4, <1>7, Narrows
<1>12. ASSUME b \notin contested'
       PROVE  AloneOK(row, made[b], orphans[b]) /\ AloneJobOK(job, row, made[b], orphans[b])
  <2>1. Alone(b) /\ AloneJobOK(request[w], batch[b], made[b], orphans[b])
    BY <1>2, <1>3, <1>6, <1>12
  <2>2. /\ Done(made[b]) = {} /\ orphans[b] = {} /\ batch[b].good = request[w].read.good
        /\ \A l \in Line : made[b][l] <= 1
    BY <2>1, <1>1 DEF Alone, AloneOK, AloneJobOK
  <2>3. QED BY <2>2, <1>4, <1>5, <1>8 DEF AloneOK, AloneJobOK
<1>13. Keeps(w, b, row, made[b], orphans[b], job)
  BY <1>2, <1>4, <1>6, <1>7, <1>9, <1>10, <1>11, <1>12 DEF Keeps
<1>14. QED BY <1>2, <1>13, KeepsInv

LEMMA RowBegunInv ==
  ASSUME BatchInv, NEW w \in Request, NEW b \in Batch, b = request[w].batch,
         NEW l \in Line, RowBegun(w, l)
  PROVE  BatchInv'
<1> DEFINE job == [request[w] EXCEPT !.half = TRUE]
<1>1. request[w].step = "rows" /\ request' = [request EXCEPT ![w] = job]
      /\ UNCHANGED <<batch, made, orphans, stopped, contested>>
  BY DEF RowBegun, NextLine
<1>2. /\ b \in Batch /\ request[w] \in Job /\ Works(request[w], b)
      /\ JobOK(request[w], batch[b], made[b])
      /\ b \notin contested =>
           /\ \A v \in Request : Works(request[v], b) => v = w
           /\ AloneJobOK(request[w], batch[b], made[b], orphans[b])
  BY <1>1, WorkFacts
<1>3. /\ job \in Job /\ job.step = request[w].step /\ job.batch = b
      /\ job.read = request[w].read /\ job.todo = request[w].todo
      /\ job.failed = request[w].failed
  BY <1>2, HalfChange
<1> HIDE DEF job
<1>4. /\ batch[b] \in BatchRow /\ RowOK(batch[b], made[b])
      /\ made[b] \in [Line -> Nat] /\ orphans[b] \subseteq Line
      /\ b \notin contested => Alone(b)
  BY <1>2, BatchTypes
<1>5. Changes(w, b, batch[b], made[b], orphans[b], job)
  BY <1>1, <1>2, <1>3, <1>4, BatchTypes DEF Changes
<1>6. ASSUME NEW k \in Line
      PROVE  Bound(batch[b], made[b][k], Writing(b, k)', Planning(b, k)',
                   Cardinality(Apart(b)'))
  <2>1. /\ Writes(job, b, k) => Writes(request[w], b, k)
        /\ Plans(job, b, k) => Plans(request[w], b, k)
        /\ ~ReadsRows(job, b)
    BY <1>1, <1>2, <1>3 DEF Plans, Writes, ReadsRows, Works
  <2> DEFINE row == batch[b]
             rows == made[b]
  <2>2. Changes(w, b, row, rows, orphans[b], job)
    BY <1>5
  <2>3. /\ rows[k] = made[b][k] /\ (row.raw => batch[b].raw)
        /\ row.status = "VALIDATED" => batch[b].status = "VALIDATED"
    OBVIOUS
  <2> HIDE DEF row, rows
  <2>4. Bound(row, rows[k], Writing(b, k)', Planning(b, k)', Cardinality(Apart(b)'))
    BY <2>1, <2>2, <2>3, Narrows
  <2>5. QED BY <2>4 DEF row, rows
<1>7. /\ KeepsOthers(batch[b], made[b], batch[b], made[b])
      /\ JobOK(job, batch[b], made[b])
      /\ AloneJobOK(request[w], batch[b], made[b], orphans[b]) =>
           AloneJobOK(job, batch[b], made[b], orphans[b])
  BY <1>2, <1>3 DEF KeepsOthers, JobOK, AloneJobOK
<1>8. Keeps(w, b, batch[b], made[b], orphans[b], job)
  BY <1>1, <1>2, <1>4, <1>5, <1>6, <1>7 DEF Keeps, Alone
<1>9. QED BY <1>2, <1>8, KeepsInv

LEMMA RowMadeInv ==
  ASSUME BatchInv, NEW w \in Request, NEW b \in Batch, b = request[w].batch,
         NEW l \in Line, RowMade(w, l)
  PROVE  BatchInv'
<1> DEFINE rows == [made[b] EXCEPT ![l] = made[b][l] + 1]
           job == [request[w] EXCEPT !.todo = request[w].todo \ {l}, !.half = FALSE]
<1>1. request[w].step = "rows" /\ l \in request[w].todo
  BY DEF RowMade, NextLine
<1>2. /\ request[w] \in Job /\ Works(request[w], b)
      /\ JobOK(request[w], batch[b], made[b])
      /\ b \notin contested =>
           /\ \A v \in Request : Works(request[v], b) => v = w
           /\ AloneJobOK(request[w], batch[b], made[b], orphans[b])
  BY <1>1, WorkFacts
<1>3. /\ batch[b] \in BatchRow /\ RowOK(batch[b], made[b])
      /\ made[b] \in [Line -> Nat] /\ orphans[b] \subseteq Line
      /\ b \notin contested => Alone(b)
  BY BatchTypes
<1>4. /\ job \in Job /\ job.step = "rows" /\ job.batch = b /\ job.read = request[w].read
      /\ job.todo = request[w].todo \ {l} /\ job.failed = request[w].failed
  <2> DEFINE old == request[w]
             todo == old.todo \ {l}
  <2>1. old \in Job /\ todo \subseteq Line /\ old.step = "rows" /\ old.batch = b
    BY <1>1, <1>2, JobType
  <2> HIDE DEF old, todo
  <2>2. LET new == [old EXCEPT !.todo = todo, !.half = FALSE]
        IN  /\ new \in Job /\ new.step = "rows" /\ new.batch = b
            /\ new.read = old.read /\ new.todo = todo /\ new.failed = old.failed
    BY <2>1 DEF Job
  <2>3. QED BY <2>2 DEF old, todo
<1>5. /\ rows \in [Line -> Nat] /\ rows[l] = made[b][l] + 1 /\ rows[l] > 0
      /\ \A k \in Line : k # l => rows[k] = made[b][k]
  BY <1>3
<1>6. /\ made' = [made EXCEPT ![b] = rows] /\ request' = [request EXCEPT ![w] = job]
      /\ UNCHANGED <<batch, orphans, stopped, contested>>
  BY DEF RowMade
<1> HIDE DEF rows, job
<1>7. Changes(w, b, batch[b], rows, orphans[b], job)
  BY <1>2, <1>3, <1>4, <1>5, <1>6, BatchTypes DEF Changes
<1>8. Done(rows) = Done(made[b]) \cup {l}
  BY <1>5 DEF Done
<1>9. RowOK(batch[b], rows) /\ KeepsOthers(batch[b], made[b], batch[b], rows)
  <2>1. Cardinality(Done(made[b])) <= Cardinality(Done(rows))
    BY <1>8, DoneFinite, FS_Subset
  <2>2. Cardinality(Done(made[b])) \in Nat /\ Cardinality(Done(rows)) \in Nat
    BY DoneFinite
  <2>3. batch[b].status = "PARTIAL" => batch[b].processed \in 1..Cardinality(Done(rows))
    BY <2>1, <2>2, <1>3 DEF RowOK
  <2>4. QED BY <2>3, <1>3, <1>8 DEF RowOK, KeepsOthers
<1>10. JobOK(job, batch[b], rows)
  BY <1>1, <1>2, <1>4, <1>8 DEF JobOK
<1>11. ASSUME NEW k \in Line
       PROVE  Bound(batch[b], rows[k], Writing(b, k)', Planning(b, k)',
                    Cardinality(Apart(b)'))
  <2>1. CASE k # l
    <3> DEFINE row == batch[b]
    <3>1. /\ rows[k] = made[b][k] /\ Changes(w, b, row, rows, orphans[b], job)
          /\ (row.raw => batch[b].raw)
          /\ row.status = "VALIDATED" => batch[b].status = "VALIDATED"
      BY <2>1, <1>5, <1>7
    <3>2. /\ Writes(job, b, k) => Writes(request[w], b, k)
          /\ Plans(job, b, k) => Plans(request[w], b, k)
          /\ ~ReadsRows(job, b)
      BY <1>1, <1>2, <1>4 DEF Plans, Writes, ReadsRows, Works
    <3> HIDE DEF row
    <3>3. Bound(row, rows[k], Writing(b, k)', Planning(b, k)', Cardinality(Apart(b)'))
      BY <3>1, <3>2, Narrows
    <3>4. QED BY <3>3 DEF row
  <2>2. CASE k = l
    <3>1. request'[w] = job /\ \A v \in Request : v # w => request'[v] = request[v]
      BY <1>6 DEF BatchInv, BatchTypeOK
    <3>2. /\ Writes(request[w], b, l) /\ Plans(request[w], b, l) /\ ~ReadsRows(request[w], b)
          /\ ~Writes(job, b, l) /\ ~Plans(job, b, l) /\ ~ReadsRows(job, b)
      BY <1>1, <1>2, <1>4 DEF Plans, Writes, ReadsRows
    <3>3. /\ Writing(b, l)' = Writing(b, l) \ {w} /\ w \in Writing(b, l)
          /\ Planning(b, l)' = Planning(b, l) \ {w} /\ w \in Planning(b, l)
          /\ Apart(b)' = Apart(b)
      BY <3>1, <3>2 DEF Writing, Planning, Apart
    <3>4. /\ Cardinality(Writing(b, l)') = Cardinality(Writing(b, l)) - 1
          /\ Cardinality(Planning(b, l)') = Cardinality(Planning(b, l)) - 1
      <4>1. IsFiniteSet(Writing(b, l)) /\ IsFiniteSet(Planning(b, l))
        BY Counted
      <4>2. Cardinality(Writing(b, l) \ {w}) = Cardinality(Writing(b, l)) - 1
        BY <3>3, <4>1, FS_RemoveElement
      <4>3. Cardinality(Planning(b, l) \ {w}) = Cardinality(Planning(b, l)) - 1
        BY <3>3, <4>1, FS_RemoveElement
      <4>4. QED BY <3>3, <4>2, <4>3
    <3>5. Bound(batch[b], made[b][l], Writing(b, l), Planning(b, l), Cardinality(Apart(b)))
      BY DEF BatchInv, Good
    <3>6. /\ Cardinality(Writing(b, l)) \in Nat /\ Cardinality(Planning(b, l)) \in Nat
          /\ made[b][l] \in Nat
      BY <1>3, Counted
    <3>7. ~batch[b].raw
      BY <1>1, <1>2 DEF JobOK
    <3>8. /\ rows[l] + Cardinality(Writing(b, l)')
               = made[b][l] + Cardinality(Writing(b, l))
          /\ rows[l] + Cardinality(Planning(b, l)')
               = made[b][l] + Cardinality(Planning(b, l))
      BY <1>5, <3>4, <3>6
    <3>9. Bound(batch[b], rows[l], Writing(b, l)', Planning(b, l)', Cardinality(Apart(b)'))
      BY <3>3, <3>5, <3>7, <3>8 DEF Bound
    <3>10. QED BY <2>2, <3>9
  <2>3. QED BY <2>1, <2>2
<1>12. ASSUME b \notin contested'
       PROVE  /\ AloneOK(batch[b], rows, orphans[b])
              /\ AloneJobOK(job, batch[b], rows, orphans[b])
  <2>1. Alone(b) /\ AloneJobOK(request[w], batch[b], made[b], orphans[b])
    BY <1>2, <1>3, <1>6, <1>12
  <2>2. /\ batch[b].status = "PROCESSING" /\ batch[b].good = request[w].read.good
        /\ Done(made[b]) = request[w].read.good \ (request[w].todo \cup request[w].failed)
        /\ orphans[b] \subseteq request[w].failed
        /\ \A k \in Line : made[b][k] <= 1
    BY <2>1, <1>1 DEF Alone, AloneOK, AloneJobOK
  <2>3. made[b][l] = 0
    <3>1. l \notin Done(made[b]) /\ made[b][l] \in Nat
      BY <2>2, <1>1, <1>3
    <3>2. QED BY <3>1 DEF Done
  <2>4. \A k \in Line : rows[k] <= 1
    BY <2>2, <2>3, <1>5
  <2>5. l \in request[w].read.good /\ l \notin request[w].failed
    BY <1>1, <1>2 DEF JobOK
  <2>6. QED BY <2>2, <2>4, <2>5, <1>1, <1>4, <1>8 DEF AloneOK, AloneJobOK
<1>13. Keeps(w, b, batch[b], rows, orphans[b], job)
  BY <1>2, <1>3, <1>6, <1>7, <1>9, <1>10, <1>11, <1>12 DEF Keeps, Alone
<1>14. QED BY <1>13, KeepsInv

(* What a row that goes no further leaves behind is of the row's line.     *)
LEMMA OrphanLeft ==
  ASSUME BatchInv, NEW w \in Request, NEW b \in Batch, b = request[w].batch,
         LeaveOrphan(w)
  PROVE  \E lost : /\ lost \subseteq Line /\ orphans' = [orphans EXCEPT ![b] = lost]
                   /\ lost \subseteq orphans[b] \cup
                        {k \in Line : NextLine(w, k)}
                   /\ request[w].step # "rows" => lost = orphans[b]
<1> DEFINE lost == orphans[b] \cup {l \in request[w].todo : NextLine(w, l) /\ request[w].half}
<1>1. orphans' = [orphans EXCEPT ![b] = lost]
  BY DEF LeaveOrphan
<1>2. request[w].todo \subseteq Line /\ orphans[b] \subseteq Line
  BY BatchTypes, JobType DEF BatchInv, BatchTypeOK
<1>3. lost \subseteq Line /\ lost \subseteq orphans[b] \cup {k \in Line : NextLine(w, k)}
  BY <1>2
<1>4. request[w].step # "rows" => lost = orphans[b]
  BY DEF NextLine
<1>5. QED BY <1>1, <1>3, <1>4

LEMMA RowFailsInv ==
  ASSUME BatchInv, NEW w \in Request, NEW b \in Batch, b = request[w].batch,
         NEW l \in Line, RowFails(w, l)
  PROVE  BatchInv'
<1> DEFINE job == [request[w] EXCEPT !.todo = request[w].todo \ {l}, !.half = FALSE,
                                     !.failed = request[w].failed \cup {l}]
<1>1. /\ request[w].step = "rows" /\ l \in request[w].todo
      /\ \A k \in request[w].todo : l <= k
  BY DEF RowFails, NextLine
<1>2. /\ request[w] \in Job /\ Works(request[w], b)
      /\ JobOK(request[w], batch[b], made[b])
      /\ b \notin contested =>
           /\ \A v \in Request : Works(request[v], b) => v = w
           /\ AloneJobOK(request[w], batch[b], made[b], orphans[b])
  BY <1>1, WorkFacts
<1>3. /\ batch[b] \in BatchRow /\ RowOK(batch[b], made[b])
      /\ made[b] \in [Line -> Nat] /\ orphans[b] \subseteq Line
      /\ b \notin contested => Alone(b)
  BY BatchTypes
<1>4. /\ job \in Job /\ job.step = "rows" /\ job.batch = b /\ job.read = request[w].read
      /\ job.todo = request[w].todo \ {l} /\ job.failed = request[w].failed \cup {l}
  <2> DEFINE old == request[w]
             todo == old.todo \ {l}
             failed == old.failed \cup {l}
  <2>1. /\ old \in Job /\ todo \subseteq Line /\ failed \subseteq Line
        /\ old.step = "rows" /\ old.batch = b
    BY <1>1, <1>2, JobType
  <2> HIDE DEF old, todo, failed
  <2>2. LET new == [old EXCEPT !.todo = todo, !.half = FALSE, !.failed = failed]
        IN  /\ new \in Job /\ new.step = "rows" /\ new.batch = b
            /\ new.read = old.read /\ new.todo = todo /\ new.failed = failed
    BY <2>1 DEF Job
  <2>3. QED BY <2>2 DEF old, todo, failed
<1>a. LeaveOrphan(w)
  BY DEF RowFails
<1>b. \E lost : /\ lost \subseteq Line /\ orphans' = [orphans EXCEPT ![b] = lost]
                /\ lost \subseteq orphans[b] \cup {k \in Line : NextLine(w, k)}
                /\ request[w].step # "rows" => lost = orphans[b]
  BY <1>a, OrphanLeft
<1>5. PICK lost : /\ lost \subseteq Line /\ orphans' = [orphans EXCEPT ![b] = lost]
                  /\ lost \subseteq orphans[b] \cup {k \in Line : NextLine(w, k)}
  BY <1>b
<1>6. \A k \in Line : NextLine(w, k) => k = l
  BY <1>1, BatchAssumption DEF NextLine
<1>7. /\ request' = [request EXCEPT ![w] = job]
      /\ UNCHANGED <<batch, made, stopped, contested>>
  BY DEF RowFails
<1> HIDE DEF job
<1>8. Changes(w, b, batch[b], made[b], lost, job)
  BY <1>2, <1>3, <1>4, <1>5, <1>7, BatchTypes DEF Changes
<1>9. KeepsOthers(batch[b], made[b], batch[b], made[b])
  BY DEF KeepsOthers
<1>10. JobOK(job, batch[b], made[b])
  BY <1>1, <1>2, <1>4 DEF JobOK
<1>11. ASSUME NEW k \in Line
       PROVE  Bound(batch[b], made[b][k], Writing(b, k)', Planning(b, k)',
                    Cardinality(Apart(b)'))
  <2> DEFINE row == batch[b]
             rows == made[b]
  <2>1. /\ rows[k] = made[b][k] /\ Changes(w, b, row, rows, lost, job)
        /\ (row.raw => batch[b].raw)
        /\ row.status = "VALIDATED" => batch[b].status = "VALIDATED"
    BY <1>8
  <2>2. /\ Writes(job, b, k) => Writes(request[w], b, k)
        /\ Plans(job, b, k) => Plans(request[w], b, k)
        /\ ~ReadsRows(job, b)
    BY <1>1, <1>2, <1>4 DEF Plans, Writes, ReadsRows, Works
  <2> HIDE DEF row, rows
  <2>3. Bound(row, rows[k], Writing(b, k)', Planning(b, k)', Cardinality(Apart(b)'))
    BY <2>1, <2>2, Narrows
  <2>4. QED BY <2>3 DEF row, rows
<1>12. ASSUME b \notin contested'
       PROVE  /\ AloneOK(batch[b], made[b], lost) /\ batch[b].status = "PROCESSING"
              /\ AloneJobOK(job, batch[b], made[b], lost)
  <2>1. Alone(b) /\ AloneJobOK(request[w], batch[b], made[b], orphans[b])
    BY <1>2, <1>3, <1>7, <1>12
  <2>2. /\ batch[b].status = "PROCESSING" /\ batch[b].good = request[w].read.good
        /\ Done(made[b]) = request[w].read.good \ (request[w].todo \cup request[w].failed)
        /\ orphans[b] \subseteq request[w].failed
        /\ \A k \in Line : made[b][k] <= 1
    BY <2>1, <1>1 DEF Alone, AloneOK, AloneJobOK
  <2>3. lost \subseteq job.failed
    BY <2>2, <1>4, <1>5, <1>6
  <2>4. Done(made[b]) = job.read.good \ (job.todo \cup job.failed)
    BY <2>2, <1>1, <1>4
  <2>5. QED BY <2>2, <2>3, <2>4, <1>4 DEF AloneOK, AloneJobOK
<1>13. Keeps(w, b, batch[b], made[b], lost, job)
  BY <1>2, <1>3, <1>7, <1>8, <1>9, <1>10, <1>11, <1>12 DEF Keeps
<1>14. QED BY <1>13, KeepsInv

LEMMA WriteFinalInv ==
  ASSUME BatchInv, NEW w \in Request, NEW b \in Batch, b = request[w].batch,
         WriteFinal(w)
  PROVE  BatchInv'
<1> DEFINE job == request[w]
           written == job.read.good \ job.failed
           report == IF job.failed = {} THEN job.read.report ELSE job.failed
           row == [batch[b] EXCEPT !.status = FinalStatus(job),
                                   !.processed = Processed(job), !.report = report]
<1>1. job.step = "rows" /\ job.todo = {}
  BY DEF WriteFinal
<1>2. /\ request[w] \in Job /\ Works(request[w], b)
      /\ JobOK(request[w], batch[b], made[b])
      /\ b \notin contested =>
           /\ \A v \in Request : Works(request[v], b) => v = w
           /\ AloneJobOK(request[w], batch[b], made[b], orphans[b])
  BY <1>1, WorkFacts
<1>3. /\ batch[b] \in BatchRow /\ RowOK(batch[b], made[b])
      /\ made[b] \in [Line -> Nat] /\ orphans[b] \subseteq Line
      /\ b \notin contested => Alone(b)
  BY BatchTypes
<1>4. /\ batch' = [batch EXCEPT ![b] = row] /\ request' = [request EXCEPT ![w] = Idle]
      /\ UNCHANGED <<made, orphans, stopped, contested>>
  BY DEF WriteFinal
<1>5. /\ written \subseteq Done(made[b]) /\ job.failed \subseteq job.read.good
      /\ ~batch[b].raw /\ job.read.report = Line \ job.read.good
      /\ job.read.good \subseteq Line /\ job.failed \subseteq Line
  BY <1>1, <1>2, JobType DEF JobOK
<1>6. /\ Processed(job) = Cardinality(written) /\ Processed(job) \in Nat
      /\ Processed(job) <= Cardinality(Done(made[b]))
  <2>1. IsFiniteSet(written) /\ Cardinality(written) <= Cardinality(Done(made[b]))
    BY <1>5, DoneFinite, FS_Subset
  <2>2. QED BY <2>1, FS_CardinalityType DEF Processed
<1>7. /\ FinalStatus(job) \in {"PROCESSED", "PARTIAL", "FAILED"}
      /\ FinalStatus(job) = "PROCESSED" => job.failed = {}
      /\ FinalStatus(job) # "PROCESSED" => job.failed # {}
      /\ FinalStatus(job) = "PARTIAL" => Processed(job) > 0
  BY DEF FinalStatus
<1>8. /\ row \in BatchRow /\ row.status = FinalStatus(job) /\ row.raw = batch[b].raw
      /\ row.good = batch[b].good /\ row.report = report
      /\ row.processed = Processed(job)
  <2> DEFINE old == batch[b]
             status == FinalStatus(job)
             processed == Processed(job)
  <2>1. old \in BatchRow /\ status \in BatchStatus /\ processed \in Nat /\ report \subseteq Line
    BY <1>3, <1>5, <1>6, <1>7 DEF BatchStatus
  <2> HIDE DEF report, old, status, processed
  <2>2. LET new == [old EXCEPT !.status = status, !.processed = processed,
                               !.report = report]
        IN  /\ new \in BatchRow /\ new.status = status /\ new.raw = old.raw
            /\ new.good = old.good /\ new.report = report
            /\ new.processed = processed
    BY <2>1 DEF BatchRow
  <2>3. QED BY <2>2 DEF old, status, processed
<1>9. row.status = "PROCESSED" => row.report = Line \ job.read.good /\ written = job.read.good
  BY <1>5, <1>7, <1>8
<1>10. row.status # "PROCESSED" => row.report = job.failed
  BY <1>7, <1>8
<1> HIDE DEF row, report
<1>11. Changes(w, b, row, made[b], orphans[b], Idle)
  BY <1>2, <1>3, <1>4, <1>8, BatchTypes, IdleType DEF Changes
<1>12. RowOK(row, made[b])
  <2>1. row.status = "PROCESSED" =>
          Line \ row.report = written /\ row.processed = Cardinality(Line \ row.report)
    BY <1>5, <1>6, <1>8, <1>9
  <2>2. row.status = "PARTIAL" => row.processed \in 1..Cardinality(Done(made[b]))
    BY <1>6, <1>7, <1>8, DoneFinite
  <2>3. QED BY <2>1, <2>2, <1>5, <1>7, <1>8 DEF RowOK
<1>13. KeepsOthers(batch[b], made[b], row, made[b])
  BY <1>5, <1>7, <1>8 DEF KeepsOthers
<1>14. ASSUME NEW l \in Line
       PROVE  Bound(row, made[b][l], Writing(b, l)', Planning(b, l)',
                    Cardinality(Apart(b)'))
  <2>1. ~Plans(Idle, b, l) /\ ~ReadsRows(Idle, b)
    BY IdleType DEF Plans, Writes, ReadsRows, Works
  <2>2. QED BY <2>1, <1>5, <1>7, <1>8, <1>11, Narrows
<1>15. ASSUME b \notin contested'
       PROVE  AloneOK(row, made[b], orphans[b]) /\ orphans[b] \subseteq row.report
  <2>1. Alone(b) /\ AloneJobOK(request[w], batch[b], made[b], orphans[b])
    BY <1>2, <1>3, <1>4, <1>15
  <2>2. /\ batch[b].good = job.read.good /\ Done(made[b]) = written
        /\ orphans[b] \subseteq job.failed /\ \A l \in Line : made[b][l] <= 1
    BY <2>1, <1>1 DEF Alone, AloneOK, AloneJobOK
  <2>3. row.status = "PARTIAL" =>
          /\ row.report = row.good \ Done(made[b])
          /\ row.processed = Cardinality(Done(made[b]))
    BY <2>2, <1>5, <1>6, <1>8, <1>10
  <2>4. row.status = "PROCESSED" => row.good = Done(made[b]) /\ orphans[b] = {}
    BY <2>2, <1>7, <1>8, <1>9
  <2>5. orphans[b] \subseteq row.report
    BY <2>2, <2>4, <1>10
  <2>6. QED BY <2>2, <2>3, <2>4, <2>5, <1>7, <1>8 DEF AloneOK
<1>16. Keeps(w, b, row, made[b], orphans[b], Idle)
  BY <1>2, <1>4, <1>11, <1>12, <1>13, <1>14, <1>15, IdleType DEF Keeps
<1>17. QED BY <1>16, KeepsInv

LEMMA CrashInv ==
  ASSUME BatchInv, NEW w \in Request, NEW b \in Batch, b = request[w].batch,
         Crash(w)
  PROVE  BatchInv'
<1>1. request[w].step # "idle"
  BY DEF Crash
<1>2. /\ request[w] \in Job /\ Works(request[w], b)
      /\ JobOK(request[w], batch[b], made[b])
      /\ b \notin contested =>
           /\ \A v \in Request : Works(request[v], b) => v = w
           /\ AloneJobOK(request[w], batch[b], made[b], orphans[b])
  BY <1>1, WorkFacts
<1>3. /\ batch[b] \in BatchRow /\ RowOK(batch[b], made[b])
      /\ made[b] \in [Line -> Nat] /\ orphans[b] \subseteq Line
      /\ b \notin contested => Alone(b)
  BY BatchTypes
<1>a. LeaveOrphan(w)
  BY DEF Crash
<1>b. \E lost : /\ lost \subseteq Line /\ orphans' = [orphans EXCEPT ![b] = lost]
                /\ lost \subseteq orphans[b] \cup {k \in Line : NextLine(w, k)}
                /\ request[w].step # "rows" => lost = orphans[b]
  BY <1>a, OrphanLeft
<1>4. PICK lost : /\ lost \subseteq Line /\ orphans' = [orphans EXCEPT ![b] = lost]
                  /\ request[w].step # "rows" => lost = orphans[b]
  BY <1>b
<1>5. /\ request' = [request EXCEPT ![w] = Idle] /\ UNCHANGED <<batch, made, contested>>
      /\ stopped' = IF request[w].step = "rows" THEN stopped \cup {b} ELSE stopped
  BY DEF Crash
<1>6. Changes(w, b, batch[b], made[b], lost, Idle)
  BY <1>2, <1>3, <1>4, <1>5, BatchTypes, IdleType DEF Changes
<1>7. ASSUME NEW l \in Line
      PROVE  Bound(batch[b], made[b][l], Writing(b, l)', Planning(b, l)',
                   Cardinality(Apart(b)'))
  <2> DEFINE row == batch[b]
             rows == made[b]
  <2>1. /\ rows[l] = made[b][l] /\ Changes(w, b, row, rows, lost, Idle)
        /\ (row.raw => batch[b].raw)
        /\ row.status = "VALIDATED" => batch[b].status = "VALIDATED"
    BY <1>6
  <2>2. ~Plans(Idle, b, l) /\ ~ReadsRows(Idle, b) /\ ~Writes(Idle, b, l)
    BY IdleType DEF Plans, Writes, ReadsRows, Works
  <2> HIDE DEF row, rows
  <2>3. Bound(row, rows[l], Writing(b, l)', Planning(b, l)', Cardinality(Apart(b)'))
    BY <2>1, <2>2, Narrows
  <2>4. QED BY <2>3 DEF row, rows
<1>8. ASSUME b \notin contested'
      PROVE  /\ AloneOK(batch[b], made[b], lost)
             /\ lost \subseteq batch[b].report \/ batch[b].status = "PROCESSING" \/ b \in stopped'
  <2>1. Alone(b) /\ AloneJobOK(request[w], batch[b], made[b], orphans[b])
    BY <1>2, <1>3, <1>5, <1>8
  <2>2. CASE request[w].step = "rows"
    <3>1. batch[b].status = "PROCESSING" /\ \A l \in Line : made[b][l] <= 1
      BY <2>1, <2>2 DEF Alone, AloneOK, AloneJobOK
    <3>2. QED BY <3>1 DEF AloneOK
  <2>3. CASE request[w].step # "rows"
    BY <2>1, <2>3, <1>4, <1>5 DEF Alone
  <2>4. QED BY <2>2, <2>3
<1>9. KeepsOthers(batch[b], made[b], batch[b], made[b])
  BY DEF KeepsOthers
<1>10. Keeps(w, b, batch[b], made[b], lost, Idle)
  BY <1>2, <1>3, <1>5, <1>6, <1>7, <1>8, <1>9, IdleType DEF Keeps
<1>11. QED BY <1>10, KeepsInv

-----------------------------------------------------------------------------
LEMMA BatchNextInv ==
  ASSUME BatchInv, [BatchNext]_batchVars
  PROVE  BatchInv'
<1>1. ASSUME NEW w \in Request, RequestStep(w) \/ Crash(w)
      PROVE  BatchInv'
  <2>1. request[w].step # "idle"
    BY <1>1 DEF RequestStep, WriteValidation, WriteProcessing, WriteFinal, RowBegun,
                RowMade, RowFails, NextLine, Crash
  <2>2. PICK b \in Batch : b = request[w].batch
    BY <2>1 DEF BatchInv
  <2>3. CASE WriteValidation(w)
    BY <2>2, <2>3, WriteValidationInv
  <2>4. CASE WriteProcessing(w)
    BY <2>2, <2>4, WriteProcessingInv
  <2>5. CASE WriteFinal(w)
    BY <2>2, <2>5, WriteFinalInv
  <2>6. ASSUME NEW l \in Line, RowBegun(w, l)
        PROVE  BatchInv'
    BY <2>2, <2>6, RowBegunInv
  <2>7. ASSUME NEW l \in Line, RowMade(w, l)
        PROVE  BatchInv'
    BY <2>2, <2>7, RowMadeInv
  <2>8. ASSUME NEW l \in Line, RowFails(w, l)
        PROVE  BatchInv'
    BY <2>2, <2>8, RowFailsInv
  <2>9. CASE Crash(w)
    BY <2>2, <2>9, CrashInv
  <2>10. QED BY <1>1, <2>3, <2>4, <2>5, <2>6, <2>7, <2>8, <2>9 DEF RequestStep
<1>2. ASSUME NEW w \in Request, NEW b \in Batch, NEW step \in {"validate", "confirm"},
             Start(w, b, step)
      PROVE  BatchInv'
  BY <1>2, StartInv
<1>3. ASSUME NEW b \in Batch, Upload(b)
      PROVE  BatchInv'
  BY <1>3, UploadInv
<1>4. CASE UNCHANGED batchVars
  <2>1. UNCHANGED <<batch, made, orphans, request, stopped, contested>>
    BY <1>4 DEF batchVars
  <2>2. \A b \in Batch : Good(b)'
    <3> SUFFICES ASSUME NEW b \in Batch PROVE Good(b)'
      OBVIOUS
    <3>1. Good(b)
      BY DEF BatchInv
    <3>2. \A l \in Line : Writing(b, l)' = Writing(b, l) /\ Planning(b, l)' = Planning(b, l)
      BY <2>1 DEF Writing, Planning
    <3>3. Apart(b)' = Apart(b) /\ (Alone(b) => Alone(b)')
      BY <2>1 DEF Apart, Alone
    <3>4. QED BY <2>1, <3>1, <3>2, <3>3 DEF Good
  <2>3. QED BY <2>1, <2>2 DEF BatchInv, BatchTypeOK
<1>5. QED BY <1>1, <1>2, <1>3, <1>4 DEF BatchNext

LEMMA BatchInvariant == BatchSpec => []BatchInv
<1>1. BatchInv /\ [BatchNext]_batchVars => BatchInv'
  BY BatchNextInv
<1>2. BatchSpec => BatchInit /\ [][BatchNext]_batchVars
  BY DEF BatchSpec
<1>3. QED BY BatchInitInv, <1>1, <1>2, PTL

(* Columns keep their types.                                               *)
THEOREM BatchTypeCorrect == BatchSpec => []BatchTypeOK
<1>1. BatchInv => BatchTypeOK
  BY DEF BatchInv
<1>2. QED BY BatchInvariant, <1>1, PTL

(* n copies stay within the bound of all requests.                         *)
LEMMA WithinMost ==
  ASSUME BatchInv, NEW b \in Batch, NEW l \in Line
  PROVE  made[b][l] \in Nat /\ made[b][l] <= MostCopies /\ MostCopies \in Nat
<1> DEFINE n == made[b][l]
           m == Cardinality(Apart(b))
           N == Cardinality(Request)
<1>1. /\ Bound(batch[b], n, Writing(b, l), Planning(b, l), m)
      /\ n \in Nat
  BY DEF BatchInv, BatchTypeOK, Good
<1>2. /\ m \in Nat /\ N \in Nat /\ m <= N
      /\ Cardinality(Writing(b, l)) \in Nat /\ Cardinality(Planning(b, l)) \in Nat
  BY Counted, BatchAssumption, FS_CardinalityType
<1>3. /\ m * (m - 1) + 2 * m = m * (m + 1) /\ m * (m + 1) <= N * (N + 1)
      /\ 0 <= N * (N + 1)
  BY <1>2, Products
<1>4. m * (m - 1) \in Int /\ m * (m + 1) \in Int /\ N * (N + 1) \in Int
  BY <1>2
<1>5. 2 * n <= N * (N + 1)
  <2>1. CASE batch[b].raw
    BY <2>1, <1>1, <1>3, <1>4 DEF Bound
  <2>2. CASE ~batch[b].raw /\ batch[b].status = "VALIDATED"
    <3>1. 2 * (n + Cardinality(Writing(b, l))) <= m * (m - 1)
      BY <2>2, <1>1 DEF Bound
    <3>2. QED BY <3>1, <1>1, <1>2, <1>3, <1>4
  <2>3. CASE ~batch[b].raw /\ batch[b].status # "VALIDATED"
    <3>1. 2 * (n + Cardinality(Planning(b, l))) <= m * (m + 1)
      BY <2>3, <1>1 DEF Bound
    <3>2. QED BY <3>1, <1>1, <1>2, <1>3, <1>4
  <2>4. QED BY <2>1, <2>2, <2>3
<1>6. ASSUME NEW q \in Int, 0 <= q, 2 * n <= q
      PROVE  q \div 2 \in Nat /\ n <= q \div 2
  BY <1>1, <1>6
<1>7. (N * (N + 1)) \div 2 \in Nat /\ n <= (N * (N + 1)) \div 2
  BY <1>3, <1>4, <1>5, <1>6
<1>8. QED BY <1>1, <1>7 DEF MostCopies

LEMMA AtMostOnce ==
  ASSUME BatchInv, NEW b \in Batch, NEW l \in Line, made[b][l] > 1
  PROVE  b \in contested
<1>1. b \notin contested => made[b][l] <= 1
  BY DEF BatchInv, Good, Alone, AloneOK
<1>2. made[b][l] \in Nat
  BY DEF BatchInv, BatchTypeOK
<1>3. QED BY <1>1, <1>2

(* No row is written twice, wherever confirmations fail and stop and       *)
(* however often batches are validated again, but where requests overlap;  *)
(* these stay within their bound.                                          *)
THEOREM MadeOnce == BatchSpec => []RowsMadeOnce
<1>1. BatchInv => RowsMadeOnce
  BY WithinMost, AtMostOnce DEF RowsMadeOnce
<1>2. QED BY BatchInvariant, <1>1, PTL

(* What a batch says at its end is true, of overlapping requests too.      *)
THEOREM FinalCorrect == BatchSpec => []FinalIsTrue
<1>1. ASSUME BatchInv, NEW b \in Batch
      PROVE  /\ RowOK(batch[b], made[b]) /\ Done(made[b]) = Written(b)
             /\ b \notin contested =>
                  /\ AloneOK(batch[b], made[b], orphans[b])
                  /\ \/ orphans[b] \subseteq batch[b].report
                     \/ batch[b].status = "PROCESSING" \/ b \in stopped
  BY <1>1 DEF BatchInv, Good, Alone, Done, Written
<1>2. BatchInv => FinalIsTrue
  <2> SUFFICES ASSUME BatchInv PROVE FinalIsTrue
    OBVIOUS
  <2>1. \A b \in Batch :
          /\ RowOK(batch[b], made[b]) /\ Done(made[b]) = Written(b)
          /\ b \notin contested =>
               /\ AloneOK(batch[b], made[b], orphans[b])
               /\ \/ orphans[b] \subseteq batch[b].report
                  \/ batch[b].status = "PROCESSING" \/ b \in stopped
    BY <1>1
  <2>2. QED BY <2>1 DEF RowOK, AloneOK, FinalIsTrue
<1>3. QED BY BatchInvariant, <1>2, PTL

-----------------------------------------------------------------------------
(* The batches implement RowDelivery: a step of a request is a step of its *)
(* batch's delivery, or none.                                              *)
LEMMA PhaseValues ==
  ASSUME NEW b \in Batch
  PROVE  /\ batch[b].status = "PROCESSING" => PhaseOf(b) = "underway"
         /\ batch[b].status \in {"ABSENT", "UPLOADED", "VALIDATED"} =>
              PhaseOf(b) = "open"
         /\ batch[b].status \in {"PROCESSED", "PARTIAL", "FAILED"} =>
              PhaseOf(b) = "over"
BY DEF PhaseOf

(* A write to one batch moves its phase alone.                             *)
LEMMA PhaseStep ==
  ASSUME BatchInv, NEW b \in Batch, NEW row, batch' = [batch EXCEPT ![b] = row],
         UNCHANGED <<made, contested>>,
         \/ row.status = "PROCESSING" /\ (PhaseOf(b) = "open" \/ b \in contested)
         \/ row.status \in {"PROCESSED", "PARTIAL", "FAILED"}
         \/ row.status \in {"UPLOADED", "VALIDATED"}
              /\ (PhaseOf(b) = "open" \/ b \in contested)
  PROVE  [Delivery!DeliveryNext]_(Delivery!deliveryVars)
<1> DEFINE Phases == [c \in Batch |-> PhaseOf(c)]
<1>1. batch'[b] = row /\ \A c \in Batch : c # b => batch'[c] = batch[c]
  BY DEF BatchInv, BatchTypeOK
<1>2. \A c \in Batch : c # b => PhaseOf(c)' = PhaseOf(c)
  BY <1>1 DEF PhaseOf
<1>3. Phases' = [Phases EXCEPT ![b] = PhaseOf(b)']
  BY <1>2
<1>4. CASE row.status = "PROCESSING" /\ (PhaseOf(b) = "open" \/ b \in contested)
  <2>1. PhaseOf(b)' = "underway"
    BY <1>1, <1>4 DEF PhaseOf
  <2>2. Delivery!Begin(b)
    BY <1>3, <1>4, <2>1 DEF Delivery!Begin
  <2>3. QED BY <2>2 DEF Delivery!DeliveryNext
<1>5. CASE row.status \in {"PROCESSED", "PARTIAL", "FAILED"}
  <2>1. PhaseOf(b)' = "over"
    BY <1>1, <1>5 DEF PhaseOf
  <2>2. Delivery!End(b)
    BY <1>3, <2>1 DEF Delivery!End
  <2>3. QED BY <2>2 DEF Delivery!DeliveryNext
<1>6. CASE row.status \in {"UPLOADED", "VALIDATED"}
             /\ (PhaseOf(b) = "open" \/ b \in contested)
  <2>1. PhaseOf(b)' = "open"
    BY <1>1, <1>6 DEF PhaseOf
  <2>2. CASE b \in contested
    <3>1. Delivery!Reopen(b)
      BY <1>3, <2>1, <2>2 DEF Delivery!Reopen
    <3>2. QED BY <3>1 DEF Delivery!DeliveryNext
  <2>3. CASE PhaseOf(b) = "open"
    <3>1. Phases' = Phases
      BY <1>3, <2>1, <2>3
    <3>2. QED BY <3>1 DEF Delivery!deliveryVars
  <2>4. QED BY <1>6, <2>2, <2>3
<1>7. QED BY <1>4, <1>5, <1>6

LEMMA DeliverStep ==
  ASSUME BatchInv, BatchInv', NEW w \in Request, NEW b \in Batch, b = request[w].batch,
         NEW l \in Line, RowMade(w, l)
  PROVE  Delivery!Deliver(b, l)
<1> DEFINE Phases == [c \in Batch |-> PhaseOf(c)]
<1>1. request[w].step = "rows" /\ l \in request[w].todo /\ b = request[w].batch
  BY DEF RowMade, NextLine
<1>2. /\ JobOK(request[w], batch[b], made[b])
      /\ b \notin contested => AloneJobOK(request[w], batch[b], made[b], orphans[b])
  BY <1>1, WorkFacts
<1>3. made \in [Batch -> [Line -> Nat]]
  BY DEF BatchInv, BatchTypeOK
<1>4. /\ made' = [made EXCEPT ![b] = [made[b] EXCEPT ![l] = made[b][l] + 1]]
      /\ UNCHANGED <<batch, contested>>
  BY DEF RowMade
<1>5. Phases' = Phases
  BY <1>4 DEF PhaseOf
<1>6. b \in contested \/ (Phases[b] = "underway" /\ made[b][l] = 0)
  <2>1. CASE b \in contested
    BY <2>1
  <2>2. CASE b \notin contested
    <3>1. batch[b].status = "PROCESSING" /\ l \notin Done(made[b])
      BY <1>1, <1>2, <2>2 DEF AloneJobOK
    <3>2. made[b][l] = 0
      BY <3>1, <1>3 DEF Done
    <3>3. QED BY <3>1, <3>2, PhaseValues
  <2>3. QED BY <2>1, <2>2
<1>7. made[b][l] < MostCopies
  <2>1. made'[b][l] = made[b][l] + 1 /\ made[b][l] \in Nat
    BY <1>3, <1>4
  <2>2. BatchInv' => made'[b][l] <= MostCopies /\ MostCopies \in Nat
    <3>1. (BatchInv => made[b][l] <= MostCopies /\ MostCopies \in Nat)'
      BY WithinMost, PTL
    <3>2. QED BY <3>1
  <2>3. QED BY <2>1, <2>2
<1>8. QED BY <1>4, <1>5, <1>6, <1>7 DEF Delivery!Deliver

LEMMA DeliveryStep ==
  ASSUME BatchInv, BatchInv', [BatchNext]_batchVars
  PROVE  [Delivery!DeliveryNext]_(Delivery!deliveryVars)
<1>1. ASSUME UNCHANGED <<batch, made, contested>>
      PROVE  [Delivery!DeliveryNext]_(Delivery!deliveryVars)
  BY <1>1 DEF PhaseOf, Delivery!deliveryVars
<1>2. ASSUME NEW w \in Request, RequestStep(w)
      PROVE  [Delivery!DeliveryNext]_(Delivery!deliveryVars)
  <2>1. request[w].step # "idle"
    BY <1>2 DEF RequestStep, WriteValidation, WriteProcessing, WriteFinal, RowBegun,
                RowMade, RowFails, NextLine
  <2>2. PICK b \in Batch : b = request[w].batch
    BY <2>1 DEF BatchInv
  <2>3. /\ JobOK(request[w], batch[b], made[b]) /\ batch[b] \in BatchRow
        /\ RowOK(batch[b], made[b])
        /\ b \notin contested => AloneJobOK(request[w], batch[b], made[b], orphans[b])
    BY <2>1, <2>2, WorkFacts, BatchTypes
  <2>4. CASE WriteValidation(w)
    <3>1. PICK good \in SUBSET CanBeGood(b, request[w].read) :
            batch' = [batch EXCEPT ![b] =
                 [status |-> IF good = {} THEN "FAILED" ELSE "VALIDATED",
                  raw |-> FALSE, good |-> good, report |-> Line \ good,
                  processed |-> batch[b].processed]]
      BY <2>2, <2>4 DEF WriteValidation
    <3> DEFINE row == [status |-> IF good = {} THEN "FAILED" ELSE "VALIDATED",
                       raw |-> FALSE, good |-> good, report |-> Line \ good,
                       processed |-> batch[b].processed]
    <3>2. row.status = IF good = {} THEN "FAILED" ELSE "VALIDATED"
      OBVIOUS
    <3>3. batch' = [batch EXCEPT ![b] = row] /\ UNCHANGED <<made, contested>>
      BY <2>4, <3>1 DEF WriteValidation
    <3>4. good # {} => PhaseOf(b) = "open" \/ b \in contested
      <4>1. good # {} => request[w].read.raw
        BY DEF CanBeGood
      <4>2. request[w].step = "validate"
        BY <2>4 DEF WriteValidation
      <4>3. good # {} /\ b \notin contested => batch[b].status \in {"ABSENT", "UPLOADED"}
        BY <2>3, <4>1, <4>2 DEF AloneJobOK, RowOK
      <4>4. QED BY <4>3, PhaseValues
    <3> HIDE DEF row
    <3>5. QED BY <3>2, <3>3, <3>4, PhaseStep
  <2>5. CASE WriteProcessing(w)
    <3> DEFINE row == [batch[b] EXCEPT !.status = "PROCESSING"]
    <3>1. batch' = [batch EXCEPT ![b] = row] /\ UNCHANGED <<made, contested>>
      BY <2>2, <2>5 DEF WriteProcessing
    <3>2. row.status = "PROCESSING"
      BY <2>3 DEF BatchRow
    <3>3. PhaseOf(b) = "open" \/ b \in contested
      <4>1. request[w].step = "confirm"
        BY <2>5 DEF WriteProcessing
      <4>2. b \notin contested => batch[b].status = "VALIDATED"
        BY <2>3, <4>1 DEF AloneJobOK
      <4>3. QED BY <4>2, PhaseValues
    <3> HIDE DEF row
    <3>4. QED BY <3>1, <3>2, <3>3, PhaseStep
  <2>6. CASE WriteFinal(w)
    <3> DEFINE job == request[w]
               report == IF job.failed = {} THEN job.read.report ELSE job.failed
               row == [batch[b] EXCEPT !.status = FinalStatus(job),
                                       !.processed = Processed(job), !.report = report]
    <3>1. batch' = [batch EXCEPT ![b] = row] /\ UNCHANGED <<made, contested>>
      BY <2>2, <2>6 DEF WriteFinal
    <3>2. row.status = FinalStatus(job)
      BY <2>3 DEF BatchRow
    <3>3. FinalStatus(job) \in {"PROCESSED", "PARTIAL", "FAILED"}
      BY DEF FinalStatus
    <3> HIDE DEF row
    <3>4. QED BY <3>1, <3>2, <3>3, PhaseStep
  <2>7. ASSUME NEW l \in Line, RowMade(w, l)
        PROVE  [Delivery!DeliveryNext]_(Delivery!deliveryVars)
    <3>1. Delivery!Deliver(b, l)
      BY <2>2, <2>7, DeliverStep
    <3>2. QED BY <3>1 DEF Delivery!DeliveryNext
  <2>8. ASSUME NEW l \in Line, RowBegun(w, l) \/ RowFails(w, l)
        PROVE  [Delivery!DeliveryNext]_(Delivery!deliveryVars)
    BY <1>1, <2>8 DEF RowBegun, RowFails
  <2>9. QED BY <1>2, <2>4, <2>5, <2>6, <2>7, <2>8 DEF RequestStep
<1>3. ASSUME NEW w \in Request, NEW b \in Batch, NEW step \in {"validate", "confirm"},
             Start(w, b, step)
      PROVE  [Delivery!DeliveryNext]_(Delivery!deliveryVars)
  <2>1. UNCHANGED <<batch, made>> /\ contested' \in {contested, contested \cup {b}}
    BY <1>3 DEF Start
  <2>2. CASE contested' = contested
    BY <1>1, <2>1, <2>2
  <2>3. CASE contested' = contested \cup {b}
    <3>1. [c \in Batch |-> PhaseOf(c)]' = [c \in Batch |-> PhaseOf(c)]
      BY <2>1 DEF PhaseOf
    <3>2. Delivery!Contest(b)
      BY <2>1, <2>3, <3>1 DEF Delivery!Contest
    <3>3. QED BY <3>2 DEF Delivery!DeliveryNext
  <2>4. QED BY <2>1, <2>2, <2>3
<1>4. ASSUME NEW b \in Batch, Upload(b)
      PROVE  [Delivery!DeliveryNext]_(Delivery!deliveryVars)
  <2> DEFINE row == [NoBatch EXCEPT !.status = "UPLOADED"]
  <2>1. /\ batch[b].status = "ABSENT" /\ batch' = [batch EXCEPT ![b] = row]
        /\ UNCHANGED <<made, contested>>
    BY <1>4 DEF Upload
  <2>2. row.status = "UPLOADED"
    BY DEF NoBatch
  <2>3. PhaseOf(b) = "open"
    BY <2>1, PhaseValues
  <2> HIDE DEF row
  <2>4. QED BY <2>1, <2>2, <2>3, PhaseStep
<1>5. ASSUME NEW w \in Request, Crash(w)
      PROVE  [Delivery!DeliveryNext]_(Delivery!deliveryVars)
  BY <1>1, <1>5 DEF Crash
<1>6. CASE UNCHANGED batchVars
  BY <1>1, <1>6 DEF batchVars
<1>7. QED BY <1>2, <1>3, <1>4, <1>5, <1>6 DEF BatchNext

LEMMA DeliveryStart == BatchInit => Delivery!DeliveryInit
BY DEF BatchInit, NoBatch, PhaseOf, Delivery!DeliveryInit

(* The batches implement the delivery they promise, of contested batches   *)
(* what it promises of those.                                              *)
THEOREM ImplementsDelivery == BatchSpec => Delivered
<1>1. BatchSpec => BatchInit /\ [][BatchNext]_batchVars
  BY DEF BatchSpec
<1>2. BatchInv /\ BatchInv' /\ [BatchNext]_batchVars =>
        [Delivery!DeliveryNext]_(Delivery!deliveryVars)
  BY DeliveryStep
<1>3. QED BY <1>1, <1>2, BatchInvariant, DeliveryStart, PTL DEF Delivered, Delivery!DeliverySpec
=============================================================================
