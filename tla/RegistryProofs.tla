--------------------------- MODULE RegistryProofs ---------------------------
(***************************************************************************)
(* The registers, for any numbers of rows and of overlapping requests:     *)
(* uploads of bank statements with failing rows and crashes, handovers     *)
(* between residents, switched accounts and mailed links, the exchange of  *)
(* meters and the loading of tariffs.                                      *)
(***************************************************************************)
EXTENDS Registry, FiniteSetTheorems, TLAPS

-----------------------------------------------------------------------------
(* Uploads of bank statements                                              *)

(* The columns of an upload, with the files left abstract.                 *)
LEMMA UploadColumns ==
  \E F : /\ Files \subseteq F /\ <<>> \in F
         /\ UploadRow = [file : F, pos : Nat \ {0},
                         step : {"idle", "lookup", "insert"}, failed : SUBSET Nat]
<1> WITNESS Files \cup {<<>>}
<1> QED BY DEF UploadRow

(* An upload about to insert still has the row it looked up.               *)
InsertHasRow ==
  \A w \in Uploader : upload[w].step = "insert" => HasRow(w)

ImportTyped == ImportTypeOK /\ InsertHasRow

LEMMA NoUploadType == NoUpload \in UploadRow /\ NoUpload.pos = Len(NoUpload.file) + 1
BY DEF NoUpload, UploadRow

LEMMA RowInContent ==
  ASSUME ImportTyped, NEW w \in Uploader, HasRow(w)
  PROVE  /\ upload[w].file \in Seq(Content)
         /\ upload[w].pos \in 1..Len(upload[w].file)
         /\ Row(w) \in Content
<1>1. upload[w] \in UploadRow
  BY DEF ImportTyped, ImportTypeOK
<1>2. upload[w].file \in Seq(Content)
  <2>1. upload[w].file \in Files \cup {<<>>}
    BY <1>1 DEF UploadRow
  <2>2. <<>> \in Seq(Content)
    OBVIOUS
  <2>3. QED BY <2>1, <2>2, ImportAssumption
<1>3. upload[w].pos \in 1..Len(upload[w].file)
  BY <1>1, <1>2 DEF UploadRow, HasRow
<1>4. QED BY <1>2, <1>3 DEF Row

(* What a step stores for the upload that takes it.                        *)
NextUpload(u, r) ==
  /\ r \in UploadRow
  /\ r.pos <= Len(r.file) + 1
  /\ r.step = "insert" => r.pos <= Len(r.file) /\ u.step = "lookup"

LEMMA RowAdvances ==
  ASSUME NEW u \in UploadRow, u.pos + 1 <= Len(u.file) + 1
  PROVE  /\ NextUpload(u, RowDone(u)) /\ RowDone(u).step = "lookup"
         /\ NextUpload(u, RowFails(u)) /\ RowFails(u).step = "lookup"
<1> PICK F : UploadRow = [file : F, pos : Nat \ {0},
                          step : {"idle", "lookup", "insert"}, failed : SUBSET Nat]
  BY UploadColumns
<1>1. u \in [file : F, pos : Nat \ {0}, step : {"idle", "lookup", "insert"},
             failed : SUBSET Nat]
  OBVIOUS
<1>2. u.pos \in Nat /\ u.failed \cup {u.pos} \in SUBSET Nat
  BY <1>1
<1>3. /\ RowDone(u) \in UploadRow
      /\ RowDone(u).file = u.file /\ RowDone(u).pos = u.pos + 1
      /\ RowDone(u).step = "lookup"
  <2>1. u.pos + 1 \in Nat \ {0}
    BY <1>1
  <2>2. RowDone(u) \in [file : F, pos : Nat \ {0},
                        step : {"idle", "lookup", "insert"}, failed : SUBSET Nat]
    BY <1>1, <2>1 DEF RowDone
  <2>3. RowDone(u).file = u.file /\ RowDone(u).pos = u.pos + 1
    BY <1>1 DEF RowDone
  <2>4. RowDone(u).step = "lookup"
    BY <1>1 DEF RowDone
  <2>5. QED BY <2>2, <2>3, <2>4
<1>4. /\ RowFails(u) \in UploadRow
      /\ RowFails(u).file = u.file /\ RowFails(u).pos = u.pos + 1
      /\ RowFails(u).step = "lookup"
  <2> DEFINE d == RowDone(u)
  <2>1. d \in [file : F, pos : Nat \ {0}, step : {"idle", "lookup", "insert"},
               failed : SUBSET Nat]
    BY <1>3
  <2> HIDE DEF d
  <2>2. RowFails(u) = [d EXCEPT !.failed = u.failed \cup {u.pos}]
    BY DEF RowFails, d
  <2>3. /\ RowFails(u) \in UploadRow /\ RowFails(u).file = d.file
        /\ RowFails(u).pos = d.pos /\ RowFails(u).step = d.step
    BY <1>2, <2>1, <2>2
  <2>4. QED BY <1>3, <2>3 DEF d
<1>5. QED BY <1>3, <1>4 DEF NextUpload

LEMMA RowDoneType ==
  ASSUME ImportTyped, NEW w \in Uploader, HasRow(w)
  PROVE  /\ NextUpload(upload[w], RowDone(upload[w]))
         /\ NextUpload(upload[w], RowFails(upload[w]))
         /\ RowDone(upload[w]).step = "lookup"
         /\ RowFails(upload[w]).step = "lookup"
<1>1. upload[w] \in UploadRow
  BY DEF ImportTyped, ImportTypeOK
<1>2. upload[w].pos + 1 <= Len(upload[w].file) + 1
  BY RowInContent
<1>3. QED BY <1>1, <1>2, RowAdvances

(* Every step of an upload stores a well-typed row for it; only a lookup   *)
(* that found nothing makes it insert, and only an insertion adds a row.   *)
LEMMA UploadStep ==
  ASSUME ImportTyped, NEW w \in Uploader, UploadNext(w)
  PROVE  \E r : /\ upload' = [upload EXCEPT ![w] = r]
                /\ NextUpload(upload[w], r)
                /\ \/ /\ hashed' = hashed
                      /\ r.step = "insert" =>
                           /\ hashed[Row(w)] = 0
                           /\ r.file = upload[w].file /\ r.pos = upload[w].pos
                   \/ /\ upload[w].step = "insert" /\ r.step = "lookup"
                      /\ hashed' = [hashed EXCEPT ![Row(w)] = hashed[Row(w)] + 1]
<1> DEFINE u == upload[w]
<1>1. u \in UploadRow /\ hashed \in [Content -> Nat]
  BY DEF ImportTyped, ImportTypeOK
<1>2. ASSUME NEW file \in Files, StartUpload(w, file)
      PROVE  \E r : /\ upload' = [upload EXCEPT ![w] = r]
                    /\ NextUpload(u, r) /\ hashed' = hashed /\ r.step # "insert"
  <2> DEFINE r == [file |-> file, pos |-> 1, step |-> "lookup", failed |-> {}]
  <2>1. file \in Seq(Content)
    BY ImportAssumption
  <2>2. NextUpload(u, r) /\ r.step # "insert"
    BY <2>1 DEF NextUpload, UploadRow
  <2>3. QED BY <2>2, <1>2 DEF StartUpload
<1>3. CASE LookUp(w)
  <2>1. HasRow(w) /\ u.step = "lookup" /\ hashed' = hashed
    BY <1>3 DEF LookUp
  <2>2. hashed[Row(w)] \in Nat
    BY <1>1, <2>1, RowInContent
  <2>3. upload' = [upload EXCEPT ![w] = AfterLookup(u, Row(w), hashed[Row(w)])]
    BY <1>3 DEF LookUp
  <2>4. CASE Row(w) \in Broken \/ hashed[Row(w)] > 0
    BY <2>1, <2>3, <2>4, RowDoneType DEF AfterLookup
  <2>5. CASE ~(Row(w) \in Broken \/ hashed[Row(w)] > 0)
    <3> DEFINE r == [u EXCEPT !.step = "insert"]
    <3> PICK F : UploadRow = [file : F, pos : Nat \ {0},
                              step : {"idle", "lookup", "insert"},
                              failed : SUBSET Nat]
      BY UploadColumns
    <3>1. r \in UploadRow /\ r.file = u.file /\ r.pos = u.pos
      BY <1>1
    <3>2. NextUpload(u, r)
      BY <2>1, <3>1, RowInContent DEF NextUpload
    <3>3. hashed[Row(w)] = 0
      BY <2>2, <2>5
    <3>4. upload' = [upload EXCEPT ![w] = r]
      BY <2>3, <2>5 DEF AfterLookup
    <3>5. QED BY <2>1, <3>1, <3>2, <3>3, <3>4
  <2>6. QED BY <2>4, <2>5
<1>4. CASE InsertRow(w)
  <2>1. HasRow(w) /\ u.step = "insert"
    BY <1>4 DEF InsertRow, ImportTyped, InsertHasRow
  <2>2. /\ upload' = [upload EXCEPT ![w] = RowDone(u)]
        /\ hashed' = [hashed EXCEPT ![Row(w)] = hashed[Row(w)] + 1]
    BY <1>4 DEF InsertRow, AfterInsert
  <2>3. QED BY <2>1, <2>2, RowDoneType
<1>5. CASE InsertFails(w)
  <2>1. HasRow(w) /\ u.step = "insert"
    BY <1>5 DEF InsertFails, ImportTyped, InsertHasRow
  <2>2. QED BY <1>5, <2>1, RowDoneType DEF InsertFails
<1>6. CASE EndUpload(w) \/ Crash(w)
  <2>1. NextUpload(u, NoUpload) /\ NoUpload.step # "insert"
    BY NoUploadType DEF NextUpload, NoUpload
  <2>2. QED BY <1>6, <2>1 DEF EndUpload, Crash
<1>7. QED BY <1>2, <1>3, <1>4, <1>5, <1>6 DEF UploadNext
-----------------------------------------------------------------------------
LEMMA InitTyped == ImportInit => ImportTyped
BY NoUploadType DEF ImportInit, ImportTyped, ImportTypeOK, InsertHasRow, NoUpload

LEMMA NextTyped ==
  ASSUME ImportTyped, [ImportNext]_importVars
  PROVE  ImportTyped'
<1>1. /\ hashed \in [Content -> Nat] /\ byHand \in [Content -> Nat]
      /\ upload \in [Uploader -> UploadRow]
      /\ \A w \in Uploader : upload[w].pos <= Len(upload[w].file) + 1
      /\ \A w \in Uploader :
           upload[w].step = "insert" => upload[w].pos <= Len(upload[w].file)
  BY DEF ImportTyped, ImportTypeOK, InsertHasRow, HasRow
<1>2. ASSUME NEW w \in Uploader, UploadNext(w)
      PROVE  ImportTyped'
  <2>1. PICK r : /\ upload' = [upload EXCEPT ![w] = r]
                 /\ NextUpload(upload[w], r)
                 /\ hashed' # hashed =>
                      /\ upload[w].step = "insert"
                      /\ hashed' = [hashed EXCEPT ![Row(w)] = hashed[Row(w)] + 1]
    BY <1>2, UploadStep
  <2>2. hashed' \in [Content -> Nat]
    <3>1. CASE hashed' = hashed
      BY <1>1, <3>1
    <3>2. CASE hashed' # hashed
      <4>1. Row(w) \in Content
        BY <2>1, <3>2, RowInContent DEF ImportTyped, InsertHasRow
      <4>2. QED BY <1>1, <2>1, <3>2, <4>1
    <3>3. QED BY <3>1, <3>2
  <2>3. byHand' = byHand
    BY <1>2 DEF UploadNext, StartUpload, LookUp, InsertRow, InsertFails, EndUpload, Crash
  <2>4. /\ upload' \in [Uploader -> UploadRow]
        /\ \A v \in Uploader : upload'[v].pos <= Len(upload'[v].file) + 1
        /\ \A v \in Uploader :
             upload'[v].step = "insert" => upload'[v].pos <= Len(upload'[v].file)
    BY <1>1, <2>1 DEF NextUpload
  <2>5. QED BY <1>1, <2>2, <2>3, <2>4 DEF ImportTyped, ImportTypeOK, InsertHasRow, HasRow
<1>3. ASSUME NEW c \in Content, EnterByHand(c)
      PROVE  ImportTyped'
  <2>1. byHand' \in [Content -> Nat] /\ UNCHANGED <<hashed, upload>>
    BY <1>1, <1>3 DEF EnterByHand
  <2>2. QED BY <1>1, <2>1 DEF ImportTyped, ImportTypeOK, InsertHasRow, HasRow
<1>4. CASE UNCHANGED importVars
  BY <1>1, <1>4 DEF importVars, ImportTyped, ImportTypeOK, InsertHasRow, HasRow
<1>5. QED BY <1>2, <1>3, <1>4 DEF ImportNext

(* Columns keep their types; an upload never reads beyond its file.        *)
THEOREM ImportTypeCorrect == ImportSpec => []ImportTypeOK
<1>1. ImportTyped => ImportTypeOK
  BY DEF ImportTyped
<1>2. QED BY InitTyped, NextTyped, <1>1, PTL DEF ImportSpec

-----------------------------------------------------------------------------
LEMMA InitBounded == ImportInit => InsertsBounded
<1> SUFFICES ASSUME ImportInit, NEW c \in Content
             PROVE  hashed[c] + Cardinality(Inserting(c)) <= Cardinality(Uploader)
  BY DEF InsertsBounded
<1>1. Inserting(c) = {} /\ hashed[c] = 0
  BY DEF ImportInit, Inserting, NoUpload
<1>2. Cardinality(Uploader) \in Nat
  BY ImportAssumption, FS_CardinalityType
<1>3. QED BY <1>1, <1>2, FS_EmptySet

(* One step of an upload, for one content.                                 *)
LEMMA StepBounded ==
  ASSUME ImportTyped, InsertsBounded, NEW w \in Uploader, UploadNext(w),
         NEW c \in Content
  PROVE  hashed'[c] + Cardinality(Inserting(c)') <= Cardinality(Uploader)
<1> DEFINE I == Inserting(c)
           J == Inserting(c)'
<1>1. PICK r : /\ upload' = [upload EXCEPT ![w] = r]
               /\ \/ /\ hashed' = hashed
                     /\ r.step = "insert" =>
                          /\ hashed[Row(w)] = 0
                          /\ r.file = upload[w].file /\ r.pos = upload[w].pos
                  \/ /\ upload[w].step = "insert" /\ r.step = "lookup"
                     /\ hashed' = [hashed EXCEPT ![Row(w)] = hashed[Row(w)] + 1]
  BY UploadStep
<1>2. hashed \in [Content -> Nat] /\ upload \in [Uploader -> UploadRow]
  BY DEF ImportTyped, ImportTypeOK
<1>3. /\ IsFiniteSet(I) /\ IsFiniteSet(J)
      /\ Cardinality(I) \in Nat /\ Cardinality(J) \in Nat
      /\ Cardinality(Uploader) \in Nat /\ Cardinality(J) <= Cardinality(Uploader)
  <2>1. I \subseteq Uploader /\ J \subseteq Uploader
    BY DEF Inserting
  <2>2. QED BY <2>1, ImportAssumption, FS_Subset, FS_CardinalityType
<1>4. hashed[c] + Cardinality(I) <= Cardinality(Uploader)
  BY DEF InsertsBounded
<1>5. J \ {w} = I \ {w}
  BY <1>1, <1>2 DEF Inserting, Row
<1>6. ASSUME J \subseteq I, hashed'[c] = hashed[c]
      PROVE  hashed'[c] + Cardinality(J) <= Cardinality(Uploader)
  <2>1. Cardinality(J) <= Cardinality(I)
    BY <1>3, <1>6, FS_Subset
  <2>2. QED BY <1>2, <1>3, <1>4, <1>6, <2>1
<1>7. CASE hashed' = hashed
  <2>1. CASE w \in J
    <3>1. hashed'[c] = 0
      BY <1>1, <1>2, <1>7, <2>1 DEF Inserting, Row
    <3>2. QED BY <1>3, <3>1
  <2>2. CASE w \notin J
    <3>1. J \subseteq I
      BY <1>5, <2>2
    <3>2. QED BY <1>6, <1>7, <3>1
  <2>3. QED BY <2>1, <2>2
<1>8. CASE /\ upload[w].step = "insert" /\ r.step = "lookup"
           /\ hashed' = [hashed EXCEPT ![Row(w)] = hashed[Row(w)] + 1]
  <2>1. w \notin J
    BY <1>1, <1>2, <1>8 DEF Inserting
  <2>2. CASE Row(w) = c
    <3>1. w \in I
      BY <1>8, <2>2 DEF Inserting
    <3>2. J = I \ {w}
      BY <1>5, <2>1
    <3>3. Cardinality(J) = Cardinality(I) - 1
      BY <1>3, <3>1, <3>2, FS_RemoveElement
    <3>4. hashed'[c] = hashed[c] + 1
      BY <1>2, <1>8, <2>2
    <3>5. QED BY <1>2, <1>3, <1>4, <3>3, <3>4
  <2>3. CASE Row(w) # c
    <3>1. J \subseteq I /\ hashed'[c] = hashed[c]
      BY <1>2, <1>5, <1>8, <2>1, <2>3
    <3>2. QED BY <1>6, <3>1
  <2>4. QED BY <2>2, <2>3
<1>9. QED BY <1>1, <1>7, <1>8

LEMMA NextBounded ==
  ASSUME ImportTyped, InsertsBounded, [ImportNext]_importVars
  PROVE  InsertsBounded'
<1>1. ASSUME UNCHANGED <<hashed, upload>>
      PROVE  InsertsBounded'
  BY <1>1 DEF InsertsBounded, Inserting, Row
<1>2. ASSUME NEW c \in Content, EnterByHand(c)
      PROVE  InsertsBounded'
  BY <1>1, <1>2 DEF EnterByHand
<1>3. ASSUME NEW w \in Uploader, UploadNext(w)
      PROVE  InsertsBounded'
  BY <1>3, StepBounded DEF InsertsBounded
<1>4. QED BY <1>1, <1>2, <1>3 DEF ImportNext, importVars

(* The rows of a content, with the insertions that have passed their       *)
(* lookup, are never more than the uploads that run at a time.             *)
THEOREM BoundedInserts == ImportSpec => []InsertsBounded
<1>1. ImportInit => ImportTyped /\ InsertsBounded
  BY InitTyped, InitBounded
<1>2. ImportTyped /\ InsertsBounded /\ [ImportNext]_importVars
        => (ImportTyped /\ InsertsBounded)'
  BY NextTyped, NextBounded
<1>3. QED BY <1>1, <1>2, PTL DEF ImportSpec

(* Uploads that do not overlap leave one row of a content.                 *)
THEOREM NoDuplicatesAlone ==
  ASSUME \A v, w \in Uploader : v = w
  PROVE  ImportSpec => [](\A c \in Content : hashed[c] <= 1)
<1>1. Cardinality(Uploader) <= 1
  <2>1. CASE Uploader = {}
    BY <2>1, FS_EmptySet
  <2>2. CASE Uploader # {}
    <3>1. PICK w \in Uploader : Uploader = {w}
      BY <2>2
    <3>2. QED BY <3>1, FS_Singleton
  <2>3. QED BY <2>1, <2>2
<1>2. ASSUME ImportTyped, InsertsBounded, NEW c \in Content
      PROVE  hashed[c] <= 1
  <2>1. hashed[c] \in Nat
    BY <1>2 DEF ImportTyped, ImportTypeOK
  <2>2. hashed[c] + Cardinality(Inserting(c)) <= Cardinality(Uploader)
    BY <1>2 DEF InsertsBounded
  <2>3. Inserting(c) \subseteq Uploader
    BY DEF Inserting
  <2>4. Cardinality(Inserting(c)) \in Nat /\ Cardinality(Uploader) \in Nat
    BY <2>3, ImportAssumption, FS_Subset, FS_CardinalityType
  <2>5. QED BY <1>1, <2>1, <2>2, <2>4
<1>3. ImportTyped /\ InsertsBounded => \A c \in Content : hashed[c] <= 1
  BY <1>2
<1>4. ImportSpec => []ImportTyped
  BY InitTyped, NextTyped, PTL DEF ImportSpec
<1>5. QED BY <1>3, <1>4, BoundedInserts, PTL

-----------------------------------------------------------------------------
(* Every row an upload has passed is stored, unless it is reported.        *)
Passed(u, rows) ==
  \A i \in 1..(u.pos - 1) : i \notin u.failed => rows[u.file[i]] > 0

PassedStored == \A w \in Uploader : Passed(upload[w], hashed)

LEMMA RowColumns ==
  ASSUME NEW u \in UploadRow
  PROVE  /\ RowDone(u).file = u.file /\ RowFails(u).file = u.file
         /\ RowDone(u).pos = u.pos + 1 /\ RowFails(u).pos = u.pos + 1
         /\ RowDone(u).failed = u.failed
         /\ RowFails(u).failed = u.failed \cup {u.pos}
<1> PICK F : UploadRow = [file : F, pos : Nat \ {0},
                          step : {"idle", "lookup", "insert"}, failed : SUBSET Nat]
  BY UploadColumns
<1>1. u \in [file : F, pos : Nat \ {0}, step : {"idle", "lookup", "insert"},
             failed : SUBSET Nat]
  OBVIOUS
<1>2. /\ RowDone(u).file = u.file /\ RowDone(u).pos = u.pos + 1
      /\ RowDone(u).failed = u.failed
  BY <1>1 DEF RowDone
<1>3. /\ RowFails(u).file = u.file /\ RowFails(u).pos = u.pos + 1
      /\ RowFails(u).failed = u.failed \cup {u.pos}
  BY <1>1 DEF RowFails, RowDone
<1>4. QED BY <1>2, <1>3

(* Passing one more row: it is stored or reported.                         *)
LEMMA PassOne ==
  ASSUME NEW u \in UploadRow, NEW rows \in [Content -> Nat],
         NEW more \in [Content -> Nat],
         \A c \in Content : more[c] >= rows[c],
         u.file \in Seq(Content), u.pos \in 1..Len(u.file),
         Passed(u, rows)
  PROVE  /\ more[u.file[u.pos]] > 0 => Passed(RowDone(u), more)
         /\ Passed(RowFails(u), more)
<1>1. u.pos \in Nat /\ Len(u.file) \in Nat
  BY DEF UploadRow
<1>2. \A i \in 1..(u.pos - 1) : i \notin u.failed => more[u.file[i]] > 0
  <2> SUFFICES ASSUME NEW i \in 1..(u.pos - 1), i \notin u.failed
               PROVE  more[u.file[i]] > 0
    OBVIOUS
  <2>1. u.file[i] \in Content
    BY <1>1
  <2>2. rows[u.file[i]] > 0
    BY DEF Passed
  <2>3. rows[u.file[i]] \in Nat /\ more[u.file[i]] \in Nat
    BY <2>1
  <2>4. more[u.file[i]] >= rows[u.file[i]]
    BY <2>1
  <2>5. QED BY <2>2, <2>3, <2>4
<1>3. \A i \in 1..((u.pos + 1) - 1) : i = u.pos \/ i \in 1..(u.pos - 1)
  BY <1>1
<1>4. QED BY <1>2, <1>3, RowColumns DEF Passed

LEMMA StepPassed ==
  ASSUME ImportTyped, PassedStored, NEW w \in Uploader, UploadNext(w)
  PROVE  /\ \A c \in Content : hashed'[c] >= hashed[c]
         /\ hashed' \in [Content -> Nat]
         /\ \E r : upload' = [upload EXCEPT ![w] = r] /\ Passed(r, hashed')
<1> DEFINE u == upload[w]
<1>1. hashed \in [Content -> Nat] /\ u \in UploadRow /\ Passed(u, hashed)
  BY DEF ImportTyped, ImportTypeOK, PassedStored
<1>2. \A c \in Content : hashed[c] >= hashed[c]
  BY <1>1
<1>3. ASSUME UNCHANGED hashed, HasRow(w)
      PROVE  /\ hashed[Row(w)] > 0 => Passed(RowDone(u), hashed')
             /\ Passed(RowFails(u), hashed')
  <2>1. u.file \in Seq(Content) /\ u.pos \in 1..Len(u.file)
    BY <1>3, RowInContent
  <2>2. /\ hashed[u.file[u.pos]] > 0 => Passed(RowDone(u), hashed)
        /\ Passed(RowFails(u), hashed)
    BY <1>1, <1>2, <2>1, PassOne
  <2>3. QED BY <1>3, <2>2 DEF Row
<1>4. ASSUME NEW file \in Files, StartUpload(w, file)
      PROVE  /\ hashed' = hashed
             /\ \E r : upload' = [upload EXCEPT ![w] = r] /\ Passed(r, hashed')
  <2> DEFINE r == [file |-> file, pos |-> 1, step |-> "lookup", failed |-> {}]
  <2>1. Passed(r, hashed')
    BY DEF Passed
  <2>2. QED BY <1>4, <2>1 DEF StartUpload
<1>5. CASE LookUp(w)
  <2>1. HasRow(w) /\ hashed' = hashed /\ u.step = "lookup"
        /\ upload' = [upload EXCEPT ![w] = AfterLookup(u, Row(w), hashed[Row(w)])]
    BY <1>5 DEF LookUp
  <2>2. CASE Row(w) \in Broken \/ hashed[Row(w)] > 0
    BY <1>1, <1>2, <1>3, <2>1, <2>2 DEF AfterLookup
  <2>3. CASE ~(Row(w) \in Broken \/ hashed[Row(w)] > 0)
    <3> DEFINE r == [u EXCEPT !.step = "insert"]
    <3>1. r.file = u.file /\ r.pos = u.pos /\ r.failed = u.failed
      BY <1>1 DEF UploadRow
    <3>2. upload' = [upload EXCEPT ![w] = r]
      BY <2>1, <2>3 DEF AfterLookup
    <3>3. Passed(r, hashed')
      BY <1>1, <2>1, <3>1 DEF Passed
    <3>4. QED BY <1>1, <1>2, <2>1, <3>2, <3>3
  <2>4. QED BY <2>2, <2>3
<1>6. CASE InsertRow(w)
  <2>1. /\ HasRow(w) /\ upload' = [upload EXCEPT ![w] = RowDone(u)]
        /\ hashed' = [hashed EXCEPT ![Row(w)] = hashed[Row(w)] + 1]
    BY <1>6 DEF InsertRow, AfterInsert, ImportTyped, InsertHasRow
  <2>2. /\ u.file \in Seq(Content) /\ u.pos \in 1..Len(u.file) /\ Row(w) \in Content
    BY <2>1, RowInContent
  <2>3. /\ hashed' \in [Content -> Nat]
        /\ \A c \in Content : hashed'[c] >= hashed[c]
        /\ hashed'[Row(w)] > 0
    BY <1>1, <2>1, <2>2
  <2>4. Passed(RowDone(u), hashed')
    BY <1>1, <2>2, <2>3, PassOne DEF Row
  <2>5. QED BY <2>1, <2>3, <2>4
<1>7. CASE InsertFails(w)
  <2>1. HasRow(w) /\ hashed' = hashed
        /\ upload' = [upload EXCEPT ![w] = RowFails(u)]
    BY <1>7 DEF InsertFails, ImportTyped, InsertHasRow
  <2>2. QED BY <1>1, <1>2, <1>3, <2>1
<1>8. CASE EndUpload(w) \/ Crash(w)
  <2>1. Passed(NoUpload, hashed')
    BY DEF Passed, NoUpload
  <2>2. QED BY <1>1, <1>2, <1>8, <2>1 DEF EndUpload, Crash
<1>9. QED BY <1>1, <1>2, <1>4, <1>5, <1>6, <1>7, <1>8 DEF UploadNext

LEMMA NextPassed ==
  ASSUME ImportTyped, PassedStored, [ImportNext]_importVars
  PROVE  PassedStored'
<1>1. ASSUME UNCHANGED <<hashed, upload>>
      PROVE  PassedStored'
  BY <1>1 DEF PassedStored
<1>2. ASSUME NEW c \in Content, EnterByHand(c)
      PROVE  PassedStored'
  BY <1>1, <1>2 DEF EnterByHand
<1>3. ASSUME NEW w \in Uploader, UploadNext(w), NEW v \in Uploader
      PROVE  Passed(upload[v], hashed)'
  <2>1. PICK r : upload' = [upload EXCEPT ![w] = r] /\ Passed(r, hashed')
    BY <1>3, StepPassed
  <2>2. upload \in [Uploader -> UploadRow] /\ hashed \in [Content -> Nat]
    BY DEF ImportTyped, ImportTypeOK
  <2>3. CASE v = w
    BY <2>1, <2>2, <2>3
  <2>4. CASE v # w
    <3>1. upload'[v] = upload[v] /\ upload[v] \in UploadRow
      BY <2>1, <2>2, <2>4
    <3>2. ASSUME NEW i \in 1..(upload[v].pos - 1), i \notin upload[v].failed
          PROVE  hashed'[upload[v].file[i]] > 0
      <4>1. upload[v].file \in Seq(Content) /\ upload[v].file[i] \in Content
        <5>1. upload[v].file \in Files \cup {<<>>} /\ upload[v].pos \in Nat
          BY <3>1 DEF UploadRow
        <5>2. <<>> \in Seq(Content)
          OBVIOUS
        <5>3. upload[v].file \in Seq(Content)
          BY <5>1, <5>2, ImportAssumption
        <5>4. upload[v].pos <= Len(upload[v].file) + 1
          BY DEF ImportTyped, ImportTypeOK
        <5>5. i \in 1..Len(upload[v].file)
          BY <5>1, <5>3, <5>4
        <5>6. QED BY <5>3, <5>5
      <4>2. hashed[upload[v].file[i]] > 0
        BY <3>2 DEF PassedStored, Passed
      <4>3. hashed'[upload[v].file[i]] >= hashed[upload[v].file[i]]
            /\ hashed' \in [Content -> Nat]
        BY <1>3, <4>1, StepPassed
      <4>4. hashed'[upload[v].file[i]] \in Nat /\ hashed[upload[v].file[i]] \in Nat
        BY <2>2, <4>1, <4>3
      <4>5. QED BY <4>2, <4>3, <4>4
    <3>3. QED BY <3>1, <3>2 DEF Passed
  <2>5. QED BY <2>3, <2>4
<1>4. QED BY <1>1, <1>2, <1>3 DEF ImportNext, importVars, PassedStored

(* An upload that ends has stored every row it does not report, however    *)
(* many uploads overlap, fail or stop.                                     *)
THEOREM StoredWhenFinished == ImportSpec => []FinishedIsStored
<1>1. ImportInit => ImportTyped /\ PassedStored
  <2>1. ASSUME ImportInit PROVE PassedStored
    BY <2>1 DEF ImportInit, PassedStored, Passed, NoUpload
  <2>2. QED BY <2>1, InitTyped
<1>2. ImportTyped /\ PassedStored /\ [ImportNext]_importVars
        => (ImportTyped /\ PassedStored)'
  BY NextTyped, NextPassed
<1>3. ASSUME ImportTyped, PassedStored
      PROVE  FinishedIsStored
  <2> SUFFICES ASSUME NEW w \in Uploader, Finished(w),
                      NEW i \in 1..Len(upload[w].file), i \notin upload[w].failed
               PROVE  hashed[upload[w].file[i]] > 0
    BY DEF FinishedIsStored
  <2>1. upload[w] \in UploadRow /\ upload[w].pos <= Len(upload[w].file) + 1
    BY <1>3 DEF ImportTyped, ImportTypeOK
  <2>2. upload[w].file \in Seq(Content) /\ upload[w].pos \in Nat
    <3>1. upload[w].file \in Files \cup {<<>>} /\ upload[w].pos \in Nat
      BY <2>1 DEF UploadRow
    <3>2. <<>> \in Seq(Content)
      OBVIOUS
    <3>3. QED BY <3>1, <3>2, ImportAssumption
  <2>3. Len(upload[w].file) \in Nat /\ ~(upload[w].pos <= Len(upload[w].file))
    BY <2>2 DEF Finished, HasRow
  <2>4. i \in 1..(upload[w].pos - 1)
    BY <2>1, <2>2, <2>3
  <2>5. QED BY <1>3, <2>4 DEF PassedStored, Passed
<1>4. ImportTyped /\ PassedStored => FinishedIsStored
  BY <1>3
<1>5. QED BY <1>1, <1>2, <1>4, PTL DEF ImportSpec

-----------------------------------------------------------------------------
(* Primary residents                                                       *)

Relation == [status : {"ABSENT", "ACTIVE", "ENDED"}, unit : Unit \cup {None},
             resident : Resident \cup {None}, primary : BOOLEAN]
NewRelation == [status : {"ACTIVE"}, unit : Unit, resident : Resident,
                primary : BOOLEAN]

RelationTyped ==
  /\ link \in [Link -> Relation]
  /\ request \in [Request -> [step : {"idle", "demote", "write"},
                              link : Link \cup {None},
                              change : Changes \cup NewRelation \cup {<<>>}]]

Writes(w) == request[w].step # "idle"
Inserts(w) == "unit" \in DOMAIN request[w].change

(* A request that inserts has its row for itself; one that edits finds it. *)
RequestsFit ==
  \A w \in Request :
    Writes(w) =>
      /\ request[w].link \in Link
      /\ request[w].change \in Changes \cup NewRelation
      /\ request[w].step = "demote" => Handover(request[w].change)
      /\ IF Inserts(w)
         THEN /\ link[request[w].link].status = "ABSENT"
              /\ \A v \in Request \ {w} :
                   Writes(v) => request[v].link # request[w].link
         ELSE link[request[w].link].status # "ABSENT"

(* The relations of a unit some request is about to make primary, having   *)
(* demoted the others.                                                     *)
Handed(u) ==
  {k \in Link : \E w \in Request : /\ request[w].step = "write"
                                   /\ Handover(request[w].change)
                                   /\ request[w].link = k
                                   /\ UnitOf(w) = u}

Coming(u) == (Primaries(link, u) \ unasked) \cup Handed(u)

(* Counting what is still to be written, primaries never exceed requests.  *)
HandoversBounded ==
  \A u \in Unit : Cardinality(Coming(u)) <= Cardinality(Request)

ResidentInv == RelationTyped /\ RequestsFit /\ HandoversBounded

LEMMA ChangeColumns ==
  ASSUME NEW change \in Changes \cup NewRelation
  PROVE  /\ "unit" \in DOMAIN change => change.unit \in Unit
         /\ "resident" \in DOMAIN change => change.resident \in Resident
         /\ "primary" \in DOMAIN change => change.primary \in BOOLEAN
         /\ "status" \in DOMAIN change => change.status \in {"ACTIVE", "ENDED"}
         /\ "unit" \in DOMAIN change <=> change \in NewRelation
         /\ "unit" \in DOMAIN change => "status" \in DOMAIN change
<1>1. CASE change \in NewRelation
  BY <1>1 DEF NewRelation
<1>2. CASE change \in UNION {[D -> BOOLEAN] : D \in {{}, {"primary"}}}
  BY <1>2 DEF NewRelation
<1>3. CASE change \in {[status |-> s] : s \in {"ACTIVE", "ENDED"}}
  BY <1>3 DEF NewRelation
<1>4. CASE change \in {[status |-> s, primary |-> p] :
                          s \in {"ACTIVE", "ENDED"}, p \in BOOLEAN}
  <2>1. PICK s, p : /\ s \in {"ACTIVE", "ENDED"} /\ p \in BOOLEAN
                    /\ change = [status |-> s, primary |-> p]
    BY <1>4
  <2>2. DOMAIN change = {"status", "primary"} /\ change.status = s /\ change.primary = p
    BY <2>1
  <2>3. "unit" \notin {"status", "primary"} /\ "resident" \notin {"status", "primary"}
    OBVIOUS
  <2>4. change \notin NewRelation
    BY <2>2, <2>3 DEF NewRelation
  <2>5. QED BY <2>1, <2>2, <2>3, <2>4
<1>5. QED BY <1>1, <1>2, <1>3, <1>4 DEF Changes

LEMMA ChangeValues ==
  ASSUME NEW change \in Changes \cup NewRelation, NEW row \in Relation, NEW new,
         new = Changed(row, change)
  PROVE  /\ new \in Relation
         /\ new.unit = IF "unit" \in DOMAIN change THEN change.unit ELSE row.unit
         /\ new.primary = IF "primary" \in DOMAIN change THEN change.primary
                          ELSE row.primary
         /\ new.status = IF "status" \in DOMAIN change THEN change.status
                         ELSE row.status
<1>1. DOMAIN row = {"status", "unit", "resident", "primary"}
  BY DEF Relation
<1>2. new.unit = IF "unit" \in DOMAIN change THEN change.unit ELSE row.unit
  BY <1>1 DEF Changed
<1>3. new.primary = IF "primary" \in DOMAIN change THEN change.primary
                    ELSE row.primary
  BY <1>1 DEF Changed
<1>4. new.status = IF "status" \in DOMAIN change THEN change.status
                   ELSE row.status
  BY <1>1 DEF Changed
<1>5. new.resident = IF "resident" \in DOMAIN change THEN change.resident
                     ELSE row.resident
  BY <1>1 DEF Changed
<1>6. /\ row.status \in {"ABSENT", "ACTIVE", "ENDED"} /\ row.unit \in Unit \cup {None}
      /\ row.resident \in Resident \cup {None} /\ row.primary \in BOOLEAN
  BY DEF Relation
<1>7. /\ new.status \in {"ABSENT", "ACTIVE", "ENDED"} /\ new.unit \in Unit \cup {None}
      /\ new.resident \in Resident \cup {None} /\ new.primary \in BOOLEAN
  BY <1>2, <1>3, <1>4, <1>5, <1>6, ChangeColumns
<1>8. new = [status |-> new.status, unit |-> new.unit,
             resident |-> new.resident, primary |-> new.primary]
  BY <1>1 DEF Changed
<1>9. new \in Relation
  BY <1>7, <1>8 DEF Relation
<1>10. QED BY <1>2, <1>3, <1>4, <1>9

LEMMA ComingShrinks ==
  ASSUME HandoversBounded, \A u \in Unit : Coming(u)' \subseteq Coming(u)
  PROVE  HandoversBounded'
<1>1. SUFFICES ASSUME NEW u \in Unit
               PROVE  Cardinality(Coming(u)') <= Cardinality(Request)
  BY DEF HandoversBounded
<1>2. PICK S : S = Coming(u)
  OBVIOUS
<1>3. PICK T : T = Coming(u)'
  OBVIOUS
<1>4. S \subseteq Link /\ T \subseteq S
  BY <1>2, <1>3 DEF Coming, Primaries, Handed
<1>5. IsFiniteSet(S) /\ Cardinality(S) \in Nat
  BY <1>4, ResidentAssumption, FS_Subset, FS_CardinalityType
<1>6. Cardinality(T) <= Cardinality(S) /\ Cardinality(T) \in Nat
  BY <1>4, <1>5, FS_Subset, FS_CardinalityType
<1>7. Cardinality(Request) \in Nat
  BY ResidentAssumption, FS_CardinalityType
<1>8. QED BY <1>2, <1>3, <1>5, <1>6, <1>7 DEF HandoversBounded

(* One relation for each request at most is on its way.                    *)
LEMMA OnePerRequest ==
  ASSUME NEW S, NEW requests, \A k \in S : \E w \in Request : requests[w].link = k
  PROVE  Cardinality(S) <= Cardinality(Request)
<1>1. PICK by : by = [k \in S |-> CHOOSE w \in Request : requests[w].link = k]
  OBVIOUS
<1>2. \A k \in S : by[k] \in Request /\ requests[by[k]].link = k
  BY <1>1
<1>3. by \in Injection(S, Request)
  BY <1>1, <1>2 DEF Injection, IsInjective
<1>4. QED BY <1>3, ResidentAssumption, FS_Injection

LEMMA InitRelations == ResidentInit => ResidentInv
<1> SUFFICES ASSUME ResidentInit PROVE ResidentInv
  OBVIOUS
<1>1. RelationTyped
  BY DEF ResidentInit, RelationTyped, NoLink, Free, Relation
<1>2. \A w \in Request : ~Writes(w)
  BY DEF ResidentInit, Writes, Free
<1>3. \A u \in Unit : Coming(u) = {}
  BY DEF ResidentInit, Coming, Primaries, Handed, NoLink, Free
<1>4. HandoversBounded
  <2>1. Cardinality(Request) \in Nat
    BY FS_CardinalityType, ResidentAssumption
  <2>2. \A u \in Unit : Cardinality(Coming(u)) = 0
    BY <1>3, FS_EmptySet
  <2>3. QED BY <2>1, <2>2 DEF HandoversBounded
<1>5. QED BY <1>1, <1>2, <1>4 DEF ResidentInv, RequestsFit

LEMMA UntouchedRelations ==
  ASSUME ResidentInv, UNCHANGED <<link, request, unasked>>
  PROVE  ResidentInv'
<1>1. RelationTyped'
  BY DEF ResidentInv, RelationTyped
<1>2. RequestsFit'
  BY DEF ResidentInv, RequestsFit, Writes, Inserts
<1>3. \A u \in Unit : Coming(u)' = Coming(u)
  BY DEF Coming, Primaries, Handed, UnitOf
<1>4. QED BY <1>1, <1>2, <1>3, ComingShrinks DEF ResidentInv

LEMMA StartKeeps ==
  ASSUME ResidentInv, NEW w \in Request, NEW k \in Link,
         NEW change \in Changes \cup NewRelation, Start(w, k, change),
         IF "unit" \in DOMAIN change THEN Fresh(k) ELSE link[k].status # "ABSENT"
  PROVE  ResidentInv'
<1> PICK r : r = [step |-> IF Handover(change) THEN "demote" ELSE "write",
                  link |-> k, change |-> change]
  OBVIOUS
<1>1. /\ request' = [request EXCEPT ![w] = r]
      /\ r.step = IF Handover(change) THEN "demote" ELSE "write"
      /\ r.link = k /\ r.change = change
      /\ r \in [step : {"idle", "demote", "write"}, link : Link \cup {None},
                change : Changes \cup NewRelation \cup {<<>>}]
  BY DEF Start
<1>2. UNCHANGED <<link, unasked>>
  BY DEF Start
<1>3. /\ RelationTyped' /\ request'[w] = r
      /\ \A v \in Request \ {w} : request'[v] = request[v]
  BY <1>1, <1>2 DEF ResidentInv, RelationTyped
<1>4. RequestsFit'
  <2> SUFFICES ASSUME NEW v \in Request, Writes(v)'
               PROVE  /\ request'[v].link \in Link
                      /\ request'[v].change \in Changes \cup NewRelation
                      /\ request'[v].step = "demote" => Handover(request'[v].change)
                      /\ IF Inserts(v)'
                         THEN /\ link[request'[v].link].status = "ABSENT"
                              /\ \A x \in Request \ {v} :
                                   Writes(x)' => request'[x].link # request'[v].link
                         ELSE link[request'[v].link].status # "ABSENT"
    BY <1>2 DEF RequestsFit
  <2>1. CASE v = w
    BY <1>1, <1>3, <2>1 DEF Inserts, Writes, Fresh, ResidentInv, RelationTyped
  <2>2. CASE v # w
    <3>1. /\ request'[v] = request[v] /\ Writes(v) /\ Inserts(v)' <=> Inserts(v)
      BY <1>3, <2>2 DEF Writes, Inserts
    <3>2. request[v].link # k \/ ~Inserts(v)
      BY <3>1 DEF Fresh, ResidentInv, RequestsFit
    <3>3. QED BY <1>1, <1>3, <2>2, <3>1, <3>2 DEF ResidentInv, RequestsFit, Writes
  <2>3. QED BY <2>1, <2>2
<1>5. ASSUME NEW u \in Unit PROVE Coming(u)' \subseteq Coming(u)
  <2>1. Primaries(link, u)' = Primaries(link, u)
    BY <1>2 DEF Primaries
  <2>2. Handed(u)' \subseteq Handed(u)
    BY <1>1, <1>2, <1>3 DEF Handed, UnitOf
  <2>3. QED BY <1>2, <2>1, <2>2 DEF Coming
<1>6. QED BY <1>3, <1>4, <1>5, ComingShrinks DEF ResidentInv

LEMMA ImportKeeps ==
  ASSUME ResidentInv, NEW r \in Resident, NEW k \in Link, NEW u \in Unit,
         ImportResident(r, k, u)
  PROVE  ResidentInv'
<1> PICK row : row = [status |-> "ACTIVE", unit |-> u, resident |-> r, primary |-> TRUE]
  OBVIOUS
<1>1. row \in Relation /\ row.status # "ABSENT"
  BY DEF Relation
<1>2. link' = [link EXCEPT ![k] = row] /\ UNCHANGED request
      /\ unasked' = unasked \cup {k} /\ \A w \in Request : request[w].link # k
  BY DEF ImportResident, Fresh
<1>3. RelationTyped' /\ \A j \in Link \ {k} : link'[j] = link[j]
  BY <1>1, <1>2 DEF ResidentInv, RelationTyped
<1>4. RequestsFit'
  BY <1>2, <1>3 DEF ResidentInv, RequestsFit, Writes, Inserts
<1>5. ASSUME NEW v \in Unit PROVE Coming(v)' \subseteq Coming(v)
  <2>1. (Primaries(link, v) \ unasked)' \subseteq Primaries(link, v) \ unasked
    BY <1>2, <1>3 DEF Primaries
  <2>2. Handed(v)' \subseteq Handed(v)
    BY <1>2, <1>3 DEF Handed, UnitOf
  <2>3. QED BY <2>1, <2>2 DEF Coming
<1>6. QED BY <1>3, <1>4, <1>5, ComingShrinks DEF ResidentInv

LEMMA AbandonKeeps ==
  ASSUME ResidentInv, NEW w \in Request, UNCHANGED <<link, unasked>>,
         request' = [request EXCEPT ![w] = Free]
  PROVE  ResidentInv'
<1>1. RelationTyped' /\ request'[w] = Free
      /\ \A v \in Request \ {w} : request'[v] = request[v]
  BY DEF ResidentInv, RelationTyped, Free
<1>2. RequestsFit'
  BY <1>1 DEF ResidentInv, RequestsFit, Writes, Inserts, Free
<1>3. \A v \in Unit : Coming(v)' \subseteq Coming(v)
  BY <1>1 DEF Coming, Primaries, Handed, UnitOf, Free
<1>4. QED BY <1>1, <1>2, <1>3, ComingShrinks DEF ResidentInv

LEMMA CloseKeeps ==
  ASSUME ResidentInv, NEW k \in Link, Close(k)
  PROVE  ResidentInv'
<1>1. /\ RelationTyped' /\ UNCHANGED <<request, unasked>>
      /\ link'[k].status = "ENDED" /\ link[k].status # "ABSENT"
      /\ link'[k].unit = link[k].unit /\ link'[k].primary = link[k].primary
      /\ \A j \in Link \ {k} : link'[j] = link[j]
  BY DEF ResidentInv, RelationTyped, Close, Relation
<1>2. RequestsFit'
  BY <1>1 DEF ResidentInv, RequestsFit, Writes, Inserts
<1>3. ASSUME NEW v \in Unit PROVE Coming(v)' \subseteq Coming(v)
  <2>1. Primaries(link, v)' \subseteq Primaries(link, v)
    BY <1>1 DEF Primaries
  <2>2. Handed(v)' \subseteq Handed(v)
    <3>1. \A w \in Request : request[w].link \in Link => UnitOf(w)' = UnitOf(w)
      BY <1>1 DEF UnitOf, Changed, ResidentInv, RelationTyped, Relation
    <3>2. QED BY <1>1, <3>1 DEF Handed
  <2>3. QED BY <1>1, <2>1, <2>2 DEF Coming
<1>4. QED BY <1>1, <1>2, <1>3, ComingShrinks DEF ResidentInv

(* The units requests write to do not change under them.                   *)
LEMMA UnitKept ==
  ASSUME RelationTyped, RelationTyped', NEW w \in Request,
         request'[w].link = request[w].link, request'[w].change = request[w].change,
         \/ link'[request[w].link].unit = link[request[w].link].unit
         \/ Inserts(w)
  PROVE  request[w].link \in Link => UnitOf(w)' = UnitOf(w)
<1> SUFFICES ASSUME request[w].link \in Link PROVE UnitOf(w)' = UnitOf(w)
  OBVIOUS
<1>1. PICK k \in Link : k = request[w].link
  OBVIOUS
<1>2. "unit" \in DOMAIN link[k] /\ "unit" \in DOMAIN link'[k]
  BY DEF RelationTyped, Relation
<1>3. QED BY <1>1, <1>2 DEF UnitOf, Changed, Inserts

LEMMA DemoteKeeps ==
  ASSUME ResidentInv, NEW w \in Request, Demote(w)
  PROVE  ResidentInv'
<1>1. PICK k \in Link : /\ k = request[w].link
                        /\ link' = Demoted(link, UnitOf(w), k)
  BY DEF Demote, ResidentInv, RequestsFit, Writes
<1>2. \A j \in Link :
        /\ link'[j] \in Relation
        /\ link'[j].status = link[j].status /\ link'[j].unit = link[j].unit
        /\ link'[j].primary <=> /\ link[j].primary
                                /\ j \notin Primaries(link, UnitOf(w)) \ {k}
  BY <1>1 DEF Demoted, ResidentInv, RelationTyped, Relation, Primaries
<1>3. /\ request'[w].step = "write" /\ request'[w].link = k
      /\ request'[w].change = request[w].change
      /\ \A v \in Request \ {w} : request'[v] = request[v]
      /\ request' \in [Request -> [step : {"idle", "demote", "write"},
                                   link : Link \cup {None},
                                   change : Changes \cup NewRelation \cup {<<>>}]]
  BY <1>1 DEF ResidentInv, RelationTyped, Demote
<1>4. RelationTyped'
  BY <1>1, <1>2, <1>3 DEF RelationTyped, Demoted
<1>5. Writes(w) /\ \A v \in Request : Writes(v)' <=> Writes(v)
  BY <1>3 DEF Writes, Demote
<1>6. \A v \in Request : /\ request'[v].link = request[v].link
                         /\ request'[v].change = request[v].change
                         /\ request'[v].step = "demote" => request[v].step = "demote"
  BY <1>1, <1>3
<1>7. RequestsFit'
  BY <1>2, <1>5, <1>6 DEF ResidentInv, RequestsFit, Inserts
<1>8. \A v \in Request : request[v].link \in Link => UnitOf(v)' = UnitOf(v)
  BY <1>2, <1>4, <1>6, UnitKept DEF ResidentInv
<1>9. Handover(request[w].change)
  BY <1>5 DEF ResidentInv, RequestsFit, Demote
<1>10. unasked' = {j \in unasked : link'[j].primary}
  BY DEF Demote
<1>11. ASSUME NEW u \in Unit, u # UnitOf(w) PROVE Coming(u)' \subseteq Coming(u)
  <2>1. (Primaries(link, u) \ unasked)' \subseteq Primaries(link, u) \ unasked
    BY <1>2, <1>10 DEF Primaries
  <2>2. Handed(u)' \subseteq Handed(u)
    BY <1>1, <1>3, <1>8, <1>11 DEF Handed
  <2>3. QED BY <2>1, <2>2 DEF Coming
<1>12. ASSUME NEW u \in Unit, u = UnitOf(w) PROVE Coming(u)' \subseteq Handed(u)'
  <2>1. Primaries(link, u)' \subseteq {k}
    BY <1>2, <1>12 DEF Primaries
  <2>2. k \in Handed(u)'
    BY <1>1, <1>3, <1>8, <1>9, <1>12 DEF Handed
  <2>3. QED BY <2>1, <2>2 DEF Coming
<1>13. HandoversBounded'
  <2> SUFFICES ASSUME NEW u \in Unit
               PROVE  Cardinality(Coming(u)') <= Cardinality(Request)
    BY DEF HandoversBounded
  <2>1. CASE u = UnitOf(w)
    <3>1. \A j \in Coming(u)' : \E v \in Request : request'[v].link = j
      BY <1>12, <2>1 DEF Handed
    <3>2. PICK S : S = Coming(u)'
      OBVIOUS
    <3>3. QED BY <3>1, <3>2, OnePerRequest
  <2>2. CASE u # UnitOf(w)
    <3>1. PICK S, T : S = Coming(u) /\ T = Coming(u)'
      OBVIOUS
    <3>2. T \subseteq S /\ S \subseteq Link
      BY <1>11, <2>2, <3>1 DEF Coming, Primaries, Handed
    <3>3. IsFiniteSet(S) /\ IsFiniteSet(T) /\ Cardinality(T) <= Cardinality(S)
      BY <3>2, ResidentAssumption, FS_Subset
    <3>4. Cardinality(S) <= Cardinality(Request)
      BY <3>1 DEF ResidentInv, HandoversBounded
    <3>5. QED BY <3>1, <3>3, <3>4, ResidentAssumption, FS_CardinalityType
  <2>3. QED BY <2>1, <2>2
<1>14. QED BY <1>4, <1>7, <1>13 DEF ResidentInv

LEMMA WriteKeeps ==
  ASSUME ResidentInv, NEW w \in Request, WriteLink(w)
  PROVE  ResidentInv'
<1> PICK k, change, new : /\ k = request[w].link /\ change = request[w].change
                          /\ new = Changed(link[k], change)
  OBVIOUS
<1>1. /\ request[w].step = "write" /\ link' = [link EXCEPT ![k] = new]
      /\ unasked' = IF BroughtBack(k, change) THEN unasked \cup {k} ELSE unasked \ {k}
      /\ request' = [request EXCEPT ![w] = Free]
  BY DEF WriteLink
<1>2. /\ k \in Link /\ change \in Changes \cup NewRelation /\ Writes(w)
      /\ IF Inserts(w) THEN link[k].status = "ABSENT" ELSE link[k].status # "ABSENT"
      /\ Inserts(w) => \A v \in Request \ {w} : Writes(v) => request[v].link # k
  BY <1>1 DEF ResidentInv, RequestsFit, Writes
<1>3. /\ new \in Relation
      /\ new.unit = IF "unit" \in DOMAIN change THEN change.unit ELSE link[k].unit
      /\ new.primary = IF "primary" \in DOMAIN change THEN change.primary
                       ELSE link[k].primary
      /\ new.status = IF "status" \in DOMAIN change THEN change.status
                      ELSE link[k].status
  BY <1>2, ChangeValues DEF ResidentInv, RelationTyped
<1>4. /\ RelationTyped' /\ link'[k] = new /\ \A j \in Link \ {k} : link'[j] = link[j]
      /\ request'[w] = Free /\ \A v \in Request \ {w} : request'[v] = request[v]
  BY <1>1, <1>2, <1>3 DEF ResidentInv, RelationTyped, Free
<1>5. new.status # "ABSENT"
  BY <1>2, <1>3, ChangeColumns DEF Inserts
<1>6. \A v \in Request \ {w} :
        Writes(v) /\ request[v].link = k => ~Inserts(v) /\ ~Inserts(w)
  BY <1>2 DEF ResidentInv, RequestsFit
<1>7. RequestsFit'
  <2> SUFFICES ASSUME NEW v \in Request \ {w}, Writes(v)
               PROVE  /\ request[v].link \in Link
                      /\ request[v].change \in Changes \cup NewRelation
                      /\ request[v].step = "demote" => Handover(request[v].change)
                      /\ IF Inserts(v)
                         THEN /\ link'[request[v].link].status = "ABSENT"
                              /\ \A x \in Request \ {v} :
                                   Writes(x) => request[x].link # request[v].link
                         ELSE link'[request[v].link].status # "ABSENT"
    BY <1>4 DEF RequestsFit, Writes, Inserts, Free
  <2>1. CASE request[v].link = k
    BY <1>4, <1>5, <1>6, <2>1 DEF ResidentInv, RequestsFit
  <2>2. CASE request[v].link # k
    BY <1>4, <2>2 DEF ResidentInv, RequestsFit
  <2>3. QED BY <2>1, <2>2
<1>8. ASSUME NEW v \in Request \ {w}, Writes(v)
      PROVE  request[v].link \in Link /\ UnitOf(v)' = UnitOf(v)
  <2>1. request[v].link \in Link
    BY <1>8 DEF ResidentInv, RequestsFit
  <2>2. \/ link'[request[v].link].unit = link[request[v].link].unit
        \/ Inserts(v)
    BY <1>3, <1>4, <1>6, <1>8, <2>1 DEF Inserts
  <2>3. QED BY <1>4, <2>1, <2>2, UnitKept DEF ResidentInv
<1>9. ASSUME NEW u \in Unit PROVE Coming(u)' \subseteq Coming(u)
  <2>1. Handed(u)' \subseteq Handed(u)
    BY <1>4, <1>8 DEF Handed, Free, Writes
  <2>2. ASSUME NEW j \in (Primaries(link, u) \ unasked)', j # k
        PROVE  j \in Primaries(link, u) \ unasked
    BY <1>1, <1>4, <2>2 DEF Primaries
  <2>3. ASSUME k \in (Primaries(link, u) \ unasked)', "primary" \in DOMAIN change
        PROVE  k \in Handed(u)
    <3>1. new.primary /\ new.unit = u
      BY <1>4, <2>3 DEF Primaries
    <3>2. UnitOf(w) = u
      BY <3>1 DEF UnitOf
    <3>3. QED BY <1>1, <1>2, <1>3, <2>3, <3>1, <3>2 DEF Handed, Handover
  <2>4. ASSUME k \in (Primaries(link, u) \ unasked)', "primary" \notin DOMAIN change
        PROVE  k \in Primaries(link, u) \ unasked
    <3>1. new.primary /\ new.unit = u /\ new.status = "ACTIVE" /\ k \notin unasked'
      BY <1>4, <2>4 DEF Primaries
    <3>2. "unit" \notin DOMAIN change
      BY <1>2, <2>4, ChangeColumns DEF NewRelation
    <3>3. ~BroughtBack(k, change)
      BY <1>1, <3>1
    <3>4. QED BY <1>2, <1>3, <2>4, <3>1, <3>2, <3>3 DEF BroughtBack, Primaries
  <2>5. QED BY <2>1, <2>2, <2>3, <2>4 DEF Coming
<1>10. QED BY <1>4, <1>7, <1>9, ComingShrinks DEF ResidentInv

LEMMA NextRelations == ResidentInv /\ [ResidentNext]_residentVars => ResidentInv'
<1> SUFFICES ASSUME ResidentInv, [ResidentNext]_residentVars PROVE ResidentInv'
  OBVIOUS
<1>1. CASE UNCHANGED <<link, request, unasked>>
  BY <1>1, UntouchedRelations
<1>2. CASE \E u \in Unit : CreateUnit(u) \/ RemoveUnit(u)
  BY <1>1, <1>2 DEF CreateUnit, RemoveUnit
<1>3. CASE \E r \in Resident : CreateResident(r) \/ RemoveResident(r)
  BY <1>1, <1>3 DEF CreateResident, RemoveResident
<1>4. CASE \E r \in Resident, k \in Link, u \in Unit : ImportResident(r, k, u)
  BY <1>4, ImportKeeps
<1>5. CASE \E k \in Link : Close(k)
  BY <1>5, CloseKeeps
<1>6. ASSUME NEW w \in Request, RequestNext(w) PROVE ResidentInv'
  <2>1. ASSUME NEW k \in Link, NEW u \in Unit, NEW r \in Resident,
               NEW primary \in BOOLEAN, StartLink(w, k, u, r, primary)
        PROVE  ResidentInv'
    <3> PICK change : change = [status |-> "ACTIVE", unit |-> u, resident |-> r,
                                primary |-> primary]
      OBVIOUS
    <3>1. change \in NewRelation /\ "unit" \in DOMAIN change
      BY DEF NewRelation
    <3>2. Start(w, k, change) /\ Fresh(k)
      BY <2>1 DEF StartLink
    <3>3. QED BY <3>1, <3>2, StartKeeps
  <2>2. ASSUME NEW k \in Link, NEW change \in Changes, StartUpdate(w, k, change)
        PROVE  ResidentInv'
    <3>1. "unit" \notin DOMAIN change
      <4>1. "unit" \notin {"status", "primary"}
        OBVIOUS
      <4>2. \A s, p : DOMAIN [status |-> s, primary |-> p] = {"status", "primary"}
        OBVIOUS
      <4>3. QED BY <4>1, <4>2 DEF Changes
    <3>2. QED BY <2>2, <3>1, StartKeeps DEF StartUpdate
  <2>3. CASE Demote(w)
    BY <2>3, DemoteKeeps
  <2>4. CASE WriteLink(w)
    BY <2>4, WriteKeeps
  <2>5. CASE Abandon(w)
    BY <2>5, AbandonKeeps DEF Abandon
  <2>6. QED BY <1>6, <2>1, <2>2, <2>3, <2>4, <2>5 DEF RequestNext
<1>7. QED BY <1>1, <1>2, <1>3, <1>4, <1>5, <1>6 DEF ResidentNext, residentVars

(* Whatever requests overlap or stop, and whatever imports and             *)
(* reactivations come between the demotion of the others and the write of  *)
(* the relation, a unit has no more primary residents than requests run at *)
(* a time, beside those nobody was demoted for.                            *)
THEOREM PrimariesBounded == ResidentSpec => []PrimariesNeedOverlap
<1>1. ASSUME ResidentInv PROVE PrimariesNeedOverlap
  <2> SUFFICES ASSUME NEW u \in Unit
               PROVE  Cardinality(Primaries(link, u) \ unasked) <= Cardinality(Request)
    BY DEF PrimariesNeedOverlap
  <2>1. PICK S, T : S = Coming(u) /\ T = Primaries(link, u) \ unasked
    OBVIOUS
  <2>2. T \subseteq S /\ S \subseteq Link
    BY <2>1 DEF Coming, Primaries, Handed
  <2>3. IsFiniteSet(S) /\ IsFiniteSet(T) /\ Cardinality(T) <= Cardinality(S)
    BY <2>2, ResidentAssumption, FS_Subset
  <2>4. Cardinality(S) <= Cardinality(Request)
    BY <1>1, <2>1 DEF ResidentInv, HandoversBounded
  <2>5. QED BY <2>1, <2>3, <2>4, ResidentAssumption, FS_CardinalityType
<1>2. ResidentInv => PrimariesNeedOverlap
  BY <1>1
<1>3. QED BY <1>2, InitRelations, NextRelations, PTL DEF ResidentSpec

-----------------------------------------------------------------------------
(* Accounts                                                                *)

AccountRow == [status : AccountStatus, role : Role, password : BOOLEAN,
               off : BOOLEAN, spent : Token \cup {None}]
VisitRow   == [step : {"idle", "switch", "password"}, email : Email \cup {None},
               token : Token \cup {None}, read : AccountRow]

AccountTyped ==
  /\ account \in [Email -> AccountRow]
  /\ mailed \in [Token -> Email \cup {None}]
  /\ visit \in [Visitor -> VisitRow]
  /\ uses \in [Token -> Nat]

(* What a request has read names an account and a link mailed to it.       *)
VisitsFit ==
  \A w \in Visitor :
    /\ visit[w].step # "idle" => visit[w].email \in Email
    /\ visit[w].step = "password" => /\ visit[w].token \in Token
                                     /\ mailed[visit[w].token] = visit[w].email
                                     /\ mailed[visit[w].token] # None

ShutIsOff ==
  \A e \in shut : e \in Email /\ account[e].status = "INACTIVE" /\ account[e].off

AccountInv == AccountTyped /\ VisitsFit /\ ShutIsOff

(* The requests about to set a password through a link.                    *)
Setting(k) == {w \in Visitor : visit[w].step = "password" /\ visit[w].token = k}

MailedKnown ==
  \A k \in Token :
    IF mailed[k] = None THEN uses[k] = 0 /\ Setting(k) = {} ELSE Known(mailed[k])

(* A link works for the requests that have passed its check, which are no  *)
(* more than run at a time; for others only when the account remembers     *)
(* another link, which has then been used since.                           *)
UseBounded(k) ==
  /\ uses[k] + Cardinality(Setting(k))
       <= Cardinality(Visitor) * (1 + Cardinality(OthersUsed(k)))
  /\ mailed[k] # None /\ account[mailed[k]].spent # k
       => uses[k] <= Cardinality(Visitor) * Cardinality(OthersUsed(k))

UsesBounded == \A k \in Token : UseBounded(k)

LinkInv == AccountInv /\ MailedKnown /\ UsesBounded

LEMMA AccountValues ==
  /\ NoAccount \in AccountRow /\ NoAccount.status = "ABSENT"
  /\ NoVisit \in VisitRow /\ NoVisit.step = "idle"
  /\ \A status \in {"ACTIVE", "INACTIVE"}, role \in Role, password \in BOOLEAN :
       NewAccount(status, role, password) \in AccountRow
BY DEF NoAccount, NoVisit, NewAccount, AccountRow, VisitRow, AccountStatus, Role

(* The two ways an account's row changes: it is inserted, or some columns  *)
(* are written to a row that stays known.                                  *)
RowInserted(e) ==
  /\ ~Known(e)
  /\ \E row \in AccountRow : /\ row.status # "ABSENT"
                             /\ account' = [account EXCEPT ![e] = row]
  /\ \E k \in Token : Mailed(e, k)
  /\ UNCHANGED <<visit, uses, shut>>

RowWritten(e, row) ==
  /\ row \in AccountRow
  /\ account[e].status # "ABSENT" => row.status # "ABSENT"
  /\ account' = [account EXCEPT ![e] = row]

LEMMA InsertsAccount ==
  ASSUME NEW e \in Email, NEW k \in Token,
         \/ RegisterAccount(e, k)
         \/ \E role \in Role, status \in {"ACTIVE", "INACTIVE"} :
              CreateUser(e, role, status, k)
  PROVE  RowInserted(e)
<1>1. CASE RegisterAccount(e, k)
  <2> PICK row : row = NewAccount("INACTIVE", "Fulfillment", FALSE)
    OBVIOUS
  <2>1. row \in AccountRow /\ row.status # "ABSENT"
    BY DEF NewAccount, AccountRow, AccountStatus, Role
  <2>2. QED BY <1>1, <2>1 DEF RegisterAccount, RowInserted
<1>2. ASSUME NEW role \in Role, NEW status \in {"ACTIVE", "INACTIVE"},
             CreateUser(e, role, status, k)
      PROVE  RowInserted(e)
  <2> PICK row : row = NewAccount(status, role, TRUE)
    OBVIOUS
  <2>1. row \in AccountRow /\ row.status # "ABSENT"
    BY DEF NewAccount, AccountRow, AccountStatus, Role
  <2>2. QED BY <1>2, <2>1 DEF CreateUser, RowInserted
<1>3. QED BY <1>1, <1>2

LEMMA VisitorCount ==
  /\ Cardinality(Visitor) \in Nat
  /\ \A s \in Nat : /\ Cardinality(Visitor) * s \in Nat
                    /\ Cardinality(Visitor) * (1 + s)
                         = Cardinality(Visitor) * s + Cardinality(Visitor)
<1>1. PICK n : n = Cardinality(Visitor)
  OBVIOUS
<1>2. n \in Nat
  BY <1>1, RegistryAssumption, FS_CardinalityType
<1>3. \A s \in Nat : n * s \in Nat /\ n * (1 + s) = n * s + n
  BY <1>2
<1>4. QED BY <1>1, <1>2, <1>3

LEMMA SettingCount ==
  ASSUME NEW k, NEW visits, NEW S,
         S = {w \in Visitor : visits[w].step = "password" /\ visits[w].token = k}
  PROVE  IsFiniteSet(S) /\ Cardinality(S) \in Nat
         /\ Cardinality(S) <= Cardinality(Visitor)
BY RegistryAssumption, FS_Subset, FS_CardinalityType

LEMMA OthersFinite ==
  ASSUME NEW used, \A j \in Token : used[j] \in Nat, NEW T \in SUBSET Token, NEW U,
         U = UNION {{j} \X (1..used[j]) : j \in T}
  PROVE  IsFiniteSet(U) /\ Cardinality(U) \in Nat
<1> DEFINE piles == {{j} \X (1..used[j]) : j \in T}
<1>1. PICK pile : pile = [j \in T |-> {j} \X (1..used[j])]
  OBVIOUS
<1>2. pile \in Surjection(T, piles)
  BY <1>1 DEF Surjection
<1>3. IsFiniteSet(T)
  BY RegistryAssumption, FS_Subset
<1>4. IsFiniteSet(piles)
  BY <1>2, <1>3, FS_Surjection
<1>5. ASSUME NEW j \in T PROVE IsFiniteSet({j} \X (1..used[j]))
  <2>1. IsFiniteSet({j})
    BY FS_Singleton
  <2>2. used[j] \in Int
    BY <1>5
  <2>3. IsFiniteSet(1..used[j])
    BY <2>2, FS_Interval
  <2>4. QED BY <2>1, <2>3, FS_Product
<1>6. IsFiniteSet(UNION piles)
  BY <1>4, <1>5, FS_UNION
<1>7. QED BY <1>6, FS_CardinalityType

LEMMA OthersCount ==
  ASSUME AccountTyped
  PROVE  \A k \in Token : IsFiniteSet(OthersUsed(k))
                          /\ Cardinality(OthersUsed(k)) \in Nat
<1> SUFFICES ASSUME NEW k \in Token
             PROVE  IsFiniteSet(OthersUsed(k)) /\ Cardinality(OthersUsed(k)) \in Nat
  OBVIOUS
<1>1. PICK T : T = {j \in Token \ {k} : mailed[j] = mailed[k]}
  OBVIOUS
<1>2. OthersUsed(k) = UNION {{j} \X (1..uses[j]) : j \in T}
  BY <1>1 DEF OthersUsed
<1>3. T \in SUBSET Token /\ \A j \in Token : uses[j] \in Nat
  BY <1>1 DEF AccountTyped
<1>4. PICK U : U = OthersUsed(k)
  OBVIOUS
<1>5. IsFiniteSet(U) /\ Cardinality(U) \in Nat
  BY <1>2, <1>3, <1>4, OthersFinite
<1>6. QED BY <1>4, <1>5

(* A link whose uses, and those of the others of its account, stay.        *)
LEMMA UseKept ==
  ASSUME LinkInv, NEW k \in Token, uses'[k] = uses[k],
         OthersUsed(k)' = OthersUsed(k), Setting(k)' \subseteq Setting(k),
         mailed'[k] # None /\ account'[mailed'[k]].spent # k
           => mailed[k] # None /\ account[mailed[k]].spent # k
  PROVE  UseBounded(k)'
<1>1. UseBounded(k) /\ uses[k] \in Nat
  BY DEF LinkInv, AccountInv, AccountTyped, UsesBounded
<1>2. PICK S, T, U : S = Setting(k) /\ T = Setting(k)' /\ U = OthersUsed(k)
  OBVIOUS
<1>3. IsFiniteSet(S) /\ Cardinality(S) \in Nat
  BY <1>2, SettingCount DEF Setting
<1>4. T \subseteq S
  BY <1>2
<1>5. Cardinality(T) \in Nat /\ Cardinality(T) <= Cardinality(S)
  BY <1>3, <1>4, FS_Subset, FS_CardinalityType
<1>6. Cardinality(U) \in Nat
  BY <1>2, OthersCount DEF LinkInv, AccountInv
<1>7. Cardinality(Visitor) * (1 + Cardinality(U)) \in Nat
  <2>1. PICK n \in Nat : n = Cardinality(U)
    BY <1>6
  <2>2. Cardinality(Visitor) * (1 + n) = Cardinality(Visitor) * n + Cardinality(Visitor)
    BY VisitorCount
  <2>3. QED BY <2>1, <2>2, VisitorCount
<1>8. uses[k] + Cardinality(T) <= Cardinality(Visitor) * (1 + Cardinality(U))
  BY <1>1, <1>2, <1>3, <1>5, <1>7 DEF UseBounded
<1>9. QED BY <1>1, <1>2, <1>6, <1>8 DEF UseBounded

LEMMA InitAccounts == AccountInit => LinkInv
<1> SUFFICES ASSUME AccountInit PROVE LinkInv
  OBVIOUS
<1>1. AccountTyped
  BY AccountValues DEF AccountInit, AccountTyped
<1>2. VisitsFit /\ ShutIsOff
  BY AccountValues DEF AccountInit, VisitsFit, ShutIsOff
<1>3. \A k \in Token : uses[k] = 0 /\ mailed[k] = None /\ Setting(k) = {}
  BY AccountValues DEF AccountInit, Setting
<1>4. \A k \in Token : OthersUsed(k) = {}
  BY <1>3 DEF OthersUsed
<1>5. ASSUME NEW k \in Token
      PROVE  uses[k] + Cardinality(Setting(k))
               <= Cardinality(Visitor) * (1 + Cardinality(OthersUsed(k)))
  <2>1. Cardinality(Setting(k)) = 0 /\ Cardinality(OthersUsed(k)) = 0
    BY <1>3, <1>4, FS_EmptySet
  <2>2. PICK n : n = Cardinality(Visitor) * (1 + Cardinality(OthersUsed(k)))
    OBVIOUS
  <2>3. n \in Nat
    BY <2>1, <2>2, VisitorCount
  <2>4. uses[k] + Cardinality(Setting(k)) <= n
    BY <1>3, <2>1, <2>3
  <2>5. QED BY <2>2, <2>4
<1>6. \A k \in Token : UseBounded(k)
  BY <1>3, <1>5 DEF UseBounded
<1>7. QED BY <1>1, <1>2, <1>3, <1>6 DEF LinkInv, AccountInv, MailedKnown, UsesBounded

(* A column other than the one that remembers the last link.               *)
LEMMA ColumnKeeps ==
  ASSUME LinkInv, NEW e \in Email, NEW row, RowWritten(e, row),
         row.spent = account[e].spent, UNCHANGED <<mailed, uses>>,
         VisitsFit', visit' \in [Visitor -> VisitRow],
         \A k \in Token : Setting(k)' \subseteq Setting(k), ShutIsOff'
  PROVE  LinkInv'
<1>1. /\ AccountTyped' /\ account'[e] = row
      /\ \A f \in Email \ {e} : account'[f] = account[f]
  BY DEF LinkInv, AccountInv, AccountTyped, RowWritten
<1>2. MailedKnown'
  <2>1. \A k \in Token : mailed[k] # None => mailed[k] \in Email
    BY DEF LinkInv, AccountInv, AccountTyped
  <2>2. QED BY <1>1, <2>1 DEF LinkInv, MailedKnown, Known, RowWritten
<1>3. ASSUME NEW k \in Token PROVE UseBounded(k)'
  <2>1. mailed[k] # None => mailed[k] \in Email
    BY DEF LinkInv, AccountInv, AccountTyped
  <2>2. OthersUsed(k)' = OthersUsed(k)
    BY DEF OthersUsed
  <2>3. QED BY <1>1, <2>1, <2>2, UseKept
<1>4. QED BY <1>1, <1>2, <1>3 DEF LinkInv, AccountInv, UsesBounded

(* A link mailed for the first time has never been used.                   *)
LEMMA MailKeeps ==
  ASSUME LinkInv, NEW e \in Email, NEW k \in Token,
         mailed[k] = None, mailed' = [mailed EXCEPT ![k] = e], UNCHANGED <<visit, uses>>,
         \A j \in Token : mailed[j] # None =>
           account'[mailed[j]] = account[mailed[j]],
         Known(e)'
  PROVE  MailedKnown' /\ UsesBounded' /\ VisitsFit'
<1>1. mailed'[k] = e /\ \A j \in Token \ {k} : mailed'[j] = mailed[j]
  BY DEF LinkInv, AccountInv, AccountTyped
<1>2. uses[k] = 0 /\ Setting(k) = {}
  BY DEF LinkInv, MailedKnown
<1>3. \A j \in Token : Setting(j)' = Setting(j)
  BY DEF Setting
<1>4. MailedKnown'
  BY <1>1, <1>3 DEF LinkInv, MailedKnown, Known
<1>5. ASSUME NEW j \in Token, j # k PROVE UseBounded(j)'
  <2>1. OthersUsed(j)' = OthersUsed(j)
    BY <1>1, <1>2, <1>5 DEF OthersUsed
  <2>2. QED BY <1>1, <1>3, <1>5, <2>1, UseKept
<1>6. UseBounded(k)'
  <2>1. PICK U, n : U = OthersUsed(k)' /\ n = Cardinality(U)
    OBVIOUS
  <2>2. n \in Nat
    <3>1. PICK T : T = {j \in Token \ {k} : mailed'[j] = mailed'[k]}
      OBVIOUS
    <3>2. U = UNION {{j} \X (1..uses[j]) : j \in T}
      BY <2>1, <3>1 DEF OthersUsed
    <3>3. T \in SUBSET Token /\ \A j \in Token : uses[j] \in Nat
      BY <3>1 DEF LinkInv, AccountInv, AccountTyped
    <3>4. IsFiniteSet(U) /\ Cardinality(U) \in Nat
      BY <3>2, <3>3, OthersFinite
    <3>5. QED BY <2>1, <3>4
  <2>3. Setting(k)' = {} /\ Cardinality({}) = 0
    BY <1>2, <1>3, FS_EmptySet
  <2>4. 0 <= Cardinality(Visitor) * n /\ 0 <= Cardinality(Visitor) * (1 + n)
    <3>1. PICK v : v = Cardinality(Visitor)
      OBVIOUS
    <3>2. v \in Nat
      BY <3>1, VisitorCount
    <3>3. v * n \in Nat /\ v * (1 + n) \in Nat
      BY <2>2, <3>2
    <3>4. QED BY <3>1, <3>3
  <2>5. QED BY <1>2, <2>1, <2>3, <2>4 DEF UseBounded
<1>7. VisitsFit'
  BY <1>1 DEF LinkInv, AccountInv, VisitsFit
<1>8. QED BY <1>4, <1>5, <1>6, <1>7 DEF UsesBounded

LEMMA InsertKeeps ==
  ASSUME LinkInv, NEW e \in Email, RowInserted(e)
  PROVE  LinkInv'
<1>1. PICK row \in AccountRow : /\ row.status # "ABSENT"
                                /\ account' = [account EXCEPT ![e] = row]
  BY DEF RowInserted
<1>2. PICK k \in Token : Mailed(e, k)
  BY DEF RowInserted
<1>3. UNCHANGED <<visit, uses, shut>> /\ ~Known(e)
  BY DEF RowInserted
<1>4. /\ account' \in [Email -> AccountRow] /\ account'[e] = row
      /\ \A f \in Email \ {e} : account'[f] = account[f]
  BY <1>1 DEF LinkInv, AccountInv, AccountTyped
<1>5. mailed' \in [Token -> Email \cup {None}]
  BY <1>2 DEF LinkInv, AccountInv, AccountTyped, Mailed
<1>6. AccountTyped'
  BY <1>3, <1>4, <1>5 DEF LinkInv, AccountInv, AccountTyped
<1>7. ShutIsOff'
  BY <1>3, <1>4 DEF LinkInv, AccountInv, ShutIsOff, Known
<1>8. \A j \in Token : mailed[j] # None => /\ mailed[j] \in Email
                                           /\ account'[mailed[j]] = account[mailed[j]]
  BY <1>3, <1>4 DEF LinkInv, AccountInv, AccountTyped, MailedKnown, Known
<1>9. CASE mailed[k] = None /\ mailed' = [mailed EXCEPT ![k] = e]
  <2>1. Known(e)'
    BY <1>1, <1>4 DEF Known
  <2>2. MailedKnown' /\ UsesBounded' /\ VisitsFit'
    BY <1>3, <1>8, <1>9, <2>1, MailKeeps
  <2>3. QED BY <1>6, <1>7, <2>2 DEF LinkInv, AccountInv
<1>10. CASE UNCHANGED mailed
  <2>1. VisitsFit' /\ \A j \in Token : Setting(j)' = Setting(j)
    BY <1>3, <1>10 DEF LinkInv, AccountInv, VisitsFit, Setting
  <2>2. MailedKnown'
    BY <1>3, <1>8, <1>10, <2>1 DEF LinkInv, MailedKnown, Known
  <2>3. ASSUME NEW j \in Token PROVE UseBounded(j)'
    <3>1. OthersUsed(j)' = OthersUsed(j)
      BY <1>3, <1>10 DEF OthersUsed
    <3>2. QED BY <1>3, <1>8, <1>10, <2>1, <3>1, UseKept
  <2>4. QED BY <1>6, <1>7, <2>1, <2>2, <2>3 DEF LinkInv, AccountInv, UsesBounded
<1>11. QED BY <1>2, <1>9, <1>10 DEF Mailed

LEMMA RecoveryKeeps ==
  ASSUME LinkInv, NEW e \in Email, NEW k \in Token, SendRecovery(e, k)
  PROVE  LinkInv'
<1>1. /\ mailed[k] = None /\ mailed' = [mailed EXCEPT ![k] = e] /\ Known(e)'
      /\ UNCHANGED <<account, visit, uses, shut>>
  BY DEF SendRecovery, Known
<1>2. MailedKnown' /\ UsesBounded' /\ VisitsFit'
  BY <1>1, MailKeeps
<1>3. AccountTyped' /\ ShutIsOff'
  BY <1>1 DEF LinkInv, AccountInv, AccountTyped, ShutIsOff
<1>4. QED BY <1>2, <1>3 DEF LinkInv, AccountInv

LEMMA UpdateKeeps ==
  ASSUME LinkInv, NEW e \in Email,
         \/ \E role \in Role : UpdateRole(e, role)
         \/ \E status \in {"ACTIVE", "INACTIVE"} : UpdateStatus(e, status)
  PROVE  LinkInv'
<1>1. PICK row : /\ RowWritten(e, row) /\ row.spent = account[e].spent
                 /\ row.off = account[e].off
                 /\ row.status = account[e].status \/ e \notin shut'
  <2>1. ASSUME NEW role \in Role, UpdateRole(e, role)
        PROVE  \E row : /\ RowWritten(e, row) /\ row.spent = account[e].spent
                        /\ row.off = account[e].off
                        /\ row.status = account[e].status \/ e \notin shut'
    <3>1. PICK row : row = [account[e] EXCEPT !.role = role]
      OBVIOUS
    <3>2. /\ row \in AccountRow /\ row.spent = account[e].spent
          /\ row.off = account[e].off /\ row.status = account[e].status
      BY <3>1 DEF LinkInv, AccountInv, AccountTyped, AccountRow
    <3>3. RowWritten(e, row)
      BY <2>1, <3>1, <3>2 DEF UpdateRole, RowWritten
    <3>4. QED BY <3>2, <3>3
  <2>2. ASSUME NEW status \in {"ACTIVE", "INACTIVE"}, UpdateStatus(e, status)
        PROVE  \E row : /\ RowWritten(e, row) /\ row.spent = account[e].spent
                        /\ row.off = account[e].off
                        /\ row.status = account[e].status \/ e \notin shut'
    <3>1. PICK row : row = [account[e] EXCEPT !.status = status]
      OBVIOUS
    <3>2. /\ row \in AccountRow /\ row.spent = account[e].spent
          /\ row.off = account[e].off /\ row.status = status
      BY <3>1 DEF LinkInv, AccountInv, AccountTyped, AccountRow, AccountStatus
    <3>3. RowWritten(e, row) /\ e \notin shut'
      BY <2>2, <3>1, <3>2 DEF UpdateStatus, RowWritten
    <3>4. QED BY <3>2, <3>3
  <2>3. QED BY <2>1, <2>2
<1>2. UNCHANGED <<mailed, visit, uses>> /\ shut' \subseteq shut
  BY DEF UpdateRole, UpdateStatus
<1>3. /\ VisitsFit' /\ \A k \in Token : Setting(k)' \subseteq Setting(k)
      /\ visit' \in [Visitor -> VisitRow]
  BY <1>2 DEF LinkInv, AccountInv, AccountTyped, VisitsFit, Setting
<1>4. ShutIsOff'
  BY <1>1, <1>2 DEF LinkInv, AccountInv, AccountTyped, ShutIsOff, RowWritten
<1>5. QED BY <1>1, <1>2, <1>3, <1>4, ColumnKeeps

(* A request that comes, or goes without writing.                          *)
LEMMA VisitKeeps ==
  ASSUME LinkInv, NEW w \in Visitor, NEW r \in VisitRow,
         visit' = [visit EXCEPT ![w] = r], UNCHANGED <<account, mailed, uses, shut>>,
         r.step # "idle" => r.email \in Email, r.step # "password"
  PROVE  LinkInv'
<1>1. /\ AccountTyped' /\ ShutIsOff' /\ visit'[w] = r
      /\ \A v \in Visitor \ {w} : visit'[v] = visit[v]
  BY DEF LinkInv, AccountInv, AccountTyped, ShutIsOff
<1>2. VisitsFit' /\ \A k \in Token : Setting(k)' \subseteq Setting(k)
  BY <1>1 DEF LinkInv, AccountInv, VisitsFit, Setting
<1>3. MailedKnown'
  BY <1>2 DEF LinkInv, MailedKnown, Known
<1>4. ASSUME NEW k \in Token PROVE UseBounded(k)'
  <2>1. OthersUsed(k)' = OthersUsed(k)
    BY DEF OthersUsed
  <2>2. QED BY <1>2, <2>1, UseKept
<1>5. QED BY <1>1, <1>2, <1>3, <1>4 DEF LinkInv, AccountInv, UsesBounded

LEMMA ReadPasswordKeeps ==
  ASSUME LinkInv, NEW w \in Visitor, NEW k \in Token, ReadPassword(w, k)
  PROVE  LinkInv'
<1> PICK e, r : /\ e = mailed[k]
                /\ r = [step |-> "password", email |-> e, token |-> k, read |-> account[e]]
  OBVIOUS
<1>1. e \in Email /\ account[e] \in AccountRow /\ e # None
  BY DEF LinkInv, AccountInv, AccountTyped, ReadPassword
<1>2. r \in VisitRow /\ r.step = "password" /\ r.email = e /\ r.token = k
  BY <1>1 DEF VisitRow
<1>3. /\ visit' = [visit EXCEPT ![w] = r] /\ UNCHANGED <<account, mailed, uses, shut>>
      /\ account[e].spent # k /\ visit[w].step = "idle"
  BY DEF ReadPassword, Visit, PasswordOK
<1>4. /\ AccountTyped' /\ ShutIsOff' /\ visit'[w] = r
      /\ \A v \in Visitor \ {w} : visit'[v] = visit[v]
  BY <1>2, <1>3 DEF LinkInv, AccountInv, AccountTyped, ShutIsOff
<1>5. VisitsFit' /\ \A j \in Token \ {k} : Setting(j)' \subseteq Setting(j)
  BY <1>1, <1>2, <1>3, <1>4 DEF LinkInv, AccountInv, VisitsFit, Setting
<1>6. MailedKnown'
  BY <1>1, <1>3, <1>5 DEF LinkInv, MailedKnown, Known
<1>7. \A j \in Token : OthersUsed(j)' = OthersUsed(j)
  BY <1>3 DEF OthersUsed
<1>8. ASSUME NEW j \in Token, j # k PROVE UseBounded(j)'
  BY <1>3, <1>5, <1>7, <1>8, UseKept
<1>9. UseBounded(k)'
  <2>1. uses[k] \in Nat /\ uses[k] <= Cardinality(Visitor) * Cardinality(OthersUsed(k))
    BY <1>1, <1>3 DEF LinkInv, AccountInv, AccountTyped, UsesBounded, UseBounded
  <2>2. PICK S : S = Setting(k)'
    OBVIOUS
  <2>3. Cardinality(S) \in Nat /\ Cardinality(S) <= Cardinality(Visitor)
    BY <2>2, SettingCount DEF Setting
  <2>4. PICK n \in Nat : n = Cardinality(OthersUsed(k))
    BY OthersCount DEF LinkInv, AccountInv
  <2>5. uses[k] + Cardinality(S) <= Cardinality(Visitor) * (1 + n)
    <3>1. PICK a, b, c : /\ a = Cardinality(Visitor) * n
                         /\ b = Cardinality(Visitor) * (1 + n)
                         /\ c = Cardinality(Visitor)
      OBVIOUS
    <3>2. a \in Nat /\ c \in Nat /\ b = a + c
      BY <3>1, VisitorCount
    <3>3. uses[k] + Cardinality(S) <= b
      BY <2>1, <2>3, <2>4, <3>1, <3>2
    <3>4. QED BY <3>1, <3>3
  <2>6. QED BY <1>3, <1>7, <2>1, <2>2, <2>4, <2>5 DEF UseBounded
<1>10. QED BY <1>4, <1>5, <1>6, <1>8, <1>9 DEF LinkInv, AccountInv, UsesBounded

LEMMA SwitchKeeps ==
  ASSUME LinkInv, NEW w \in Visitor, WriteSwitch(w)
  PROVE  LinkInv'
<1> PICK e, row : /\ e = visit[w].email
                  /\ row = Switched(account[e], visit[w].read)
  OBVIOUS
<1>1. e \in Email /\ account[e] \in AccountRow
  BY DEF LinkInv, AccountInv, AccountTyped, VisitsFit, WriteSwitch
<1>2. /\ row \in AccountRow /\ row.spent = account[e].spent
      /\ row.status # "ABSENT"
      /\ row.status = "INACTIVE" => row.off
  BY <1>1 DEF Switched, AccountRow, AccountStatus
<1>3. /\ account' = [account EXCEPT ![e] = row] /\ UNCHANGED <<mailed, uses>>
      /\ shut' = IF row.status = "INACTIVE" THEN shut \cup {e} ELSE shut \ {e}
      /\ visit' = [visit EXCEPT ![w] = NoVisit]
  BY DEF WriteSwitch
<1>4. RowWritten(e, row)
  BY <1>2, <1>3 DEF RowWritten
<1>5. /\ visit' \in [Visitor -> VisitRow] /\ visit'[w].step = "idle"
      /\ \A v \in Visitor \ {w} : visit'[v] = visit[v]
  BY <1>3, AccountValues DEF LinkInv, AccountInv, AccountTyped
<1>6. VisitsFit' /\ \A k \in Token : Setting(k)' \subseteq Setting(k)
  BY <1>3, <1>5 DEF LinkInv, AccountInv, VisitsFit, Setting
<1>7. ShutIsOff'
  BY <1>1, <1>2, <1>3 DEF LinkInv, AccountInv, AccountTyped, ShutIsOff
<1>8. QED BY <1>1, <1>2, <1>3, <1>4, <1>5, <1>6, <1>7, ColumnKeeps

LEMMA WritePasswordKeeps ==
  ASSUME LinkInv, NEW w \in Visitor, WritePassword(w)
  PROVE  LinkInv'
<1> PICK e, k, row : /\ e = visit[w].email /\ k = visit[w].token
                     /\ row = PasswordSet(account[e], visit[w].read, k)
  OBVIOUS
<1>1. /\ e \in Email /\ k \in Token /\ mailed[k] = e /\ e # None
      /\ account[e] \in AccountRow /\ uses[k] \in Nat /\ w \in Setting(k)
  BY DEF LinkInv, AccountInv, AccountTyped, VisitsFit, WritePassword, Setting
<1>2. /\ row \in AccountRow /\ row.spent = k /\ row.off = account[e].off
      /\ row.status = account[e].status
  BY <1>1 DEF PasswordSet, AccountRow
<1>3. /\ account' = [account EXCEPT ![e] = row] /\ UNCHANGED <<mailed, shut>>
      /\ uses' = [uses EXCEPT ![k] = uses[k] + 1]
      /\ visit' = [visit EXCEPT ![w] = NoVisit]
  BY DEF WritePassword
<1>4. /\ AccountTyped' /\ account'[e] = row /\ uses'[k] = uses[k] + 1
      /\ \A f \in Email \ {e} : account'[f] = account[f]
      /\ \A j \in Token \ {k} : uses'[j] = uses[j]
      /\ visit'[w].step = "idle" /\ \A v \in Visitor \ {w} : visit'[v] = visit[v]
  BY <1>1, <1>2, <1>3, AccountValues DEF LinkInv, AccountInv, AccountTyped
<1>5. VisitsFit' /\ ShutIsOff'
  BY <1>2, <1>3, <1>4 DEF LinkInv, AccountInv, VisitsFit, ShutIsOff
<1>6. /\ \A j \in Token \ {k} : Setting(j)' \subseteq Setting(j)
      /\ Setting(k)' = Setting(k) \ {w}
  BY <1>4 DEF Setting
<1>7. \A j \in Token : mailed[j] # None => mailed[j] \in Email
  BY DEF LinkInv, AccountInv, AccountTyped
<1>8. MailedKnown'
  BY <1>1, <1>2, <1>3, <1>4, <1>6, <1>7 DEF LinkInv, MailedKnown, Known
<1>9. UseBounded(k)'
  <2>1. OthersUsed(k)' = OthersUsed(k)
    BY <1>3, <1>4 DEF OthersUsed
  <2>2. PICK S : S = Setting(k)
    OBVIOUS
  <2>3. IsFiniteSet(S) /\ Cardinality(S) \in Nat
    BY <2>2, SettingCount DEF Setting
  <2>4. Cardinality(S \ {w}) = Cardinality(S) - 1
    BY <1>1, <2>2, <2>3, FS_RemoveElement
  <2>5. uses[k] + Cardinality(S)
          <= Cardinality(Visitor) * (1 + Cardinality(OthersUsed(k)))
    BY <1>1, <2>2 DEF LinkInv, UsesBounded, UseBounded
  <2>6. uses'[k] + Cardinality(Setting(k)') = uses[k] + Cardinality(S)
    BY <1>1, <1>4, <1>6, <2>2, <2>3, <2>4
  <2>7. account'[mailed'[k]].spent = k
    BY <1>1, <1>2, <1>3, <1>4
  <2>8. QED BY <2>1, <2>5, <2>6, <2>7 DEF UseBounded
<1>10. ASSUME NEW j \in Token, j # k, mailed[j] # e PROVE UseBounded(j)'
  <2>1. OthersUsed(j)' = OthersUsed(j)
    BY <1>1, <1>3, <1>4, <1>10 DEF OthersUsed
  <2>2. QED BY <1>3, <1>4, <1>6, <1>7, <1>10, <2>1, UseKept
<1>11. ASSUME NEW j \in Token, j # k, mailed[j] = e PROVE UseBounded(j)'
  <2>1. PICK U, one : U = OthersUsed(j) /\ one = <<k, uses[k] + 1>>
    OBVIOUS
  <2>2. OthersUsed(j)' = U \cup {one} /\ one \notin U
    BY <1>1, <1>3, <1>4, <1>11, <2>1 DEF OthersUsed, LinkInv, AccountInv, AccountTyped
  <2>3. PICK n \in Nat : IsFiniteSet(U) /\ n = Cardinality(U)
    BY <2>1, OthersCount DEF LinkInv, AccountInv
  <2>4. Cardinality(OthersUsed(j)') = n + 1
    BY <2>2, <2>3, FS_AddElement
  <2>5. PICK S, T : S = Setting(j) /\ T = Setting(j)'
    OBVIOUS
  <2>6. IsFiniteSet(S) /\ Cardinality(S) \in Nat
    BY <2>5, SettingCount DEF Setting
  <2>7. Cardinality(T) \in Nat /\ Cardinality(T) <= Cardinality(S)
    BY <1>6, <1>11, <2>5, <2>6, FS_Subset, FS_CardinalityType
  <2>8. PICK a, b, c : /\ a = Cardinality(Visitor) * (1 + n)
                       /\ b = Cardinality(Visitor) * (1 + (n + 1))
                       /\ c = Cardinality(Visitor)
    OBVIOUS
  <2>9. a \in Nat /\ c \in Nat /\ b = a + c
    <3>1. PICK m \in Nat : m = n + 1 /\ m = 1 + n
      OBVIOUS
    <3>2. QED BY <2>8, <3>1, VisitorCount
  <2>10. uses[j] \in Nat /\ uses[j] + Cardinality(S) <= a
    BY <2>1, <2>3, <2>5, <2>8
    DEF LinkInv, AccountInv, AccountTyped, UsesBounded, UseBounded
  <2>11. uses[j] + Cardinality(T) <= b /\ uses[j] <= a
    BY <2>6, <2>7, <2>9, <2>10
  <2>12. a = Cardinality(Visitor) * (n + 1)
    BY <2>8
  <2>13. QED BY <1>4, <1>11, <2>4, <2>5, <2>8, <2>11, <2>12 DEF UseBounded
<1>12. QED BY <1>4, <1>5, <1>8, <1>9, <1>10, <1>11 DEF LinkInv, AccountInv, UsesBounded

LEMMA NextAccounts == LinkInv /\ [AccountNext]_accountVars => LinkInv'
<1> SUFFICES ASSUME LinkInv, [AccountNext]_accountVars PROVE LinkInv'
  OBVIOUS
<1>1. CASE UNCHANGED accountVars
  <2>1. AccountInv' /\ MailedKnown'
    BY <1>1 DEF accountVars, LinkInv, AccountInv, AccountTyped, VisitsFit, ShutIsOff,
                MailedKnown, Setting, Known
  <2>2. ASSUME NEW k \in Token PROVE UseBounded(k)'
    <3>1. OthersUsed(k)' = OthersUsed(k) /\ Setting(k)' = Setting(k)
      BY <1>1 DEF accountVars, OthersUsed, Setting
    <3>2. QED BY <1>1, <3>1, UseKept DEF accountVars
  <2>3. QED BY <2>1, <2>2 DEF LinkInv, UsesBounded
<1>2. ASSUME NEW e \in Email, NEW k \in Token,
             RegisterAccount(e, k) \/ SendRecovery(e, k)
             \/ \E role \in Role, status \in {"ACTIVE", "INACTIVE"} :
                  CreateUser(e, role, status, k)
      PROVE  LinkInv'
  BY <1>2, InsertsAccount, InsertKeeps, RecoveryKeeps
<1>3. ASSUME NEW e \in Email,
             \/ \E role \in Role : UpdateRole(e, role)
             \/ \E status \in {"ACTIVE", "INACTIVE"} : UpdateStatus(e, status)
      PROVE  LinkInv'
  BY <1>3, UpdateKeeps
<1>4. ASSUME NEW w \in Visitor, NEW e \in Email, ReadSwitch(w, e) PROVE LinkInv'
  <2>1. PICK r : r = [step |-> "switch", email |-> e, token |-> None,
                      read |-> account[e]]
    OBVIOUS
  <2>2. r \in VisitRow /\ r.step = "switch" /\ r.email = e
    BY <2>1 DEF LinkInv, AccountInv, AccountTyped, VisitRow
  <2>3. QED BY <1>4, <2>1, <2>2, VisitKeeps DEF ReadSwitch, Visit
<1>5. ASSUME NEW w \in Visitor, GiveUp(w) PROVE LinkInv'
  BY <1>5, AccountValues, VisitKeeps DEF GiveUp
<1>6. ASSUME NEW w \in Visitor, VisitNext(w) PROVE LinkInv'
  BY <1>4, <1>5, <1>6, ReadPasswordKeeps, SwitchKeeps, WritePasswordKeeps DEF VisitNext
<1>7. QED BY <1>1, <1>2, <1>3, <1>6 DEF AccountNext

(* An account whose last switch was off can neither log in nor go on,      *)
(* however switches that read it before, new passwords and new roles are   *)
(* interleaved.                                                            *)
THEOREM SwitchedOffIsOut == AccountSpec => []SwitchedOffStaysOut
<1>1. LinkInv => SwitchedOffStaysOut
  BY DEF LinkInv, AccountInv, ShutIsOff, SwitchedOffStaysOut, MayLogIn, MayGoOn
<1>2. QED BY <1>1, InitAccounts, NextAccounts, PTL DEF AccountSpec

(* For any number of accounts, links and overlapping requests, the uses of *)
(* a link are paid for: as many as requests run at a time, and that again  *)
(* for each use of another link of the account.                            *)
THEOREM LinkUsesBounded == AccountSpec => []LinkWorksOnce
<1>1. ASSUME LinkInv, NEW k \in Token
      PROVE  uses[k] <= Cardinality(Visitor) * (1 + Cardinality(OthersUsed(k)))
  <2>1. PICK S, n : /\ S = Setting(k)
                    /\ n = Cardinality(Visitor) * (1 + Cardinality(OthersUsed(k)))
    OBVIOUS
  <2>2. Cardinality(S) \in Nat
    BY <2>1, SettingCount DEF Setting
  <2>3. uses[k] \in Nat /\ uses[k] + Cardinality(S) <= n
    BY <1>1, <2>1 DEF LinkInv, AccountInv, AccountTyped, UsesBounded, UseBounded
  <2>4. n \in Nat
    <3>1. PICK m \in Nat : m = Cardinality(OthersUsed(k))
      BY <1>1, OthersCount DEF LinkInv, AccountInv
    <3>2. PICK v \in Nat : v = Cardinality(Visitor)
      BY VisitorCount
    <3>3. QED BY <2>1, <3>1, <3>2
  <2>5. QED BY <2>1, <2>2, <2>3, <2>4
<1>2. LinkInv => LinkWorksOnce
  BY <1>1 DEF LinkWorksOnce
<1>3. QED BY <1>2, InitAccounts, NextAccounts, PTL DEF AccountSpec

-----------------------------------------------------------------------------
(* Meters                                                                  *)

MeterColumns ==
  /\ meter = [n \in Meter |-> meter[n]]
  /\ \A n \in Meter : DOMAIN meter[n] = {"status", "unit", "serial", "initial"}

(* What an exchange does to the active meters of a unit: nothing, or none  *)
(* were there, or one takes the place of another.                          *)
Exchanged(before, after) ==
  \/ after = before
  \/ \E n : after = {n}
  \/ \E m \in before : \E n : n \notin before /\ after = (before \ {m}) \cup {n}

LEMMA ExchangeCounts ==
  ASSUME NEW S \in SUBSET Meter, NEW T, Exchanged(S, T)
  PROVE  ~(Cardinality(T) > 1 /\ Cardinality(T) > Cardinality(S))
<1>1. IsFiniteSet(S) /\ Cardinality(S) \in Nat
  BY RegistryAssumption, FS_Subset, FS_CardinalityType
<1>2. CASE T = S
  BY <1>1, <1>2
<1>3. ASSUME NEW n, T = {n} PROVE Cardinality(T) = 1
  BY <1>3, FS_Singleton
<1>4. ASSUME NEW m \in S, NEW n, n \notin S, T = (S \ {m}) \cup {n}
      PROVE  Cardinality(T) = Cardinality(S)
  <2>1. PICK U : U = S \ {m}
    OBVIOUS
  <2>2. IsFiniteSet(U) /\ Cardinality(U) = Cardinality(S) - 1
    BY <1>1, <2>1, FS_RemoveElement
  <2>3. n \notin U /\ T = U \cup {n}
    BY <1>4, <2>1
  <2>4. Cardinality(T) = Cardinality(U) + 1
    BY <2>2, <2>3, FS_AddElement
  <2>5. QED BY <1>1, <2>2, <2>4
<1>5. QED BY <1>1, <1>2, <1>3, <1>4 DEF Exchanged

LEMMA PutIntoService ==
  ASSUME MeterColumns, NEW n \in Meter, meter[n].status = "ABSENT", NEW u, NEW s,
         NEW initial, NEW rows, rows = [m \in Meter |-> rows[m]],
         meter' = [rows EXCEPT ![n] = NewMeter(n, u, s, initial, "ACTIVE")],
         NEW old \in {{}} \cup {{m} : m \in ActiveMeters(u)},
         old = {} => ActiveMeters(u) = {},
         \A m \in Meter : IF m \in old THEN rows[m].status = "REPLACED"
                          ELSE rows[m] = meter[m],
         NEW v
  PROVE  Exchanged(ActiveMeters(v), ActiveMeters(v)')
<1>1. /\ meter'[n].status = "ACTIVE" /\ meter'[n].unit = u
      /\ \A m \in Meter \ {n} : meter'[m] = rows[m]
  BY DEF NewMeter
<1>2. old \subseteq ActiveMeters(u) /\ n \notin ActiveMeters(v) /\ n \notin old
  BY DEF ActiveMeters
<1>3. CASE v # u
  <2>1. ActiveMeters(v)' = ActiveMeters(v)
    BY <1>1, <1>2, <1>3 DEF ActiveMeters
  <2>2. QED BY <2>1 DEF Exchanged
<1>4. CASE v = u
  <2>1. ActiveMeters(u)' = (ActiveMeters(u) \ old) \cup {n}
    BY <1>1, <1>2 DEF ActiveMeters
  <2>2. CASE old = {}
    BY <1>4, <2>1, <2>2 DEF Exchanged
  <2>3. ASSUME NEW m \in ActiveMeters(u), old = {m}
        PROVE  Exchanged(ActiveMeters(v), ActiveMeters(v)')
    BY <1>2, <1>4, <2>1, <2>3 DEF Exchanged
  <2>4. QED BY <2>2, <2>3
<1>5. QED BY <1>3, <1>4

LEMMA ImportExchanges ==
  ASSUME MeterColumns, NEW n \in Meter, NEW u, NEW s, NEW initial,
         ImportMeter(n, u, s, initial), NEW v
  PROVE  Exchanged(ActiveMeters(v), ActiveMeters(v)')
<1>1. CASE /\ ImportOK(n, u, s)
           /\ meter' = [meter EXCEPT ![n] = NewMeter(n, u, s, initial, "ACTIVE")]
  <2>1. PICK rows, old : rows = meter /\ old = {}
    OBVIOUS
  <2>2. rows = [m \in Meter |-> rows[m]] /\ ActiveMeters(u) = {}
        /\ meter[n].status = "ABSENT"
    BY <1>1, <2>1 DEF MeterColumns, ImportOK
  <2>3. QED BY <1>1, <2>1, <2>2, PutIntoService
<1>2. CASE n \in ActiveMeters(u) /\ meter' = [meter EXCEPT ![n].initial = initial]
  <2>1. \A m \in Meter : /\ meter'[m].status = meter[m].status
                         /\ meter'[m].unit = meter[m].unit
    BY <1>2 DEF MeterColumns
  <2>2. ActiveMeters(v)' = ActiveMeters(v)
    BY <2>1 DEF ActiveMeters
  <2>3. QED BY <2>2 DEF Exchanged
<1>3. QED BY <1>1, <1>2 DEF ImportMeter

LEMMA ReplaceExchanges ==
  ASSUME MeterColumns, NEW n \in Meter, NEW u, NEW s, NEW initial,
         Replace(u, n, s, initial), NEW v
  PROVE  Exchanged(ActiveMeters(v), ActiveMeters(v)')
<1>1. PICK old : /\ old \in MaybeLatest(u)
                 /\ meter' = [ReplacedRows(old, n) EXCEPT
                                ![n] = NewMeter(n, u, s, initial, "ACTIVE")]
  BY DEF Replace
<1>2. PICK rows : rows = ReplacedRows(old, n)
  OBVIOUS
<1>3. rows = [m \in Meter |-> rows[m]]
  BY <1>2 DEF ReplacedRows
<1>4. \A m \in Meter : IF m \in old THEN rows[m].status = "REPLACED"
                       ELSE rows[m] = meter[m]
  BY <1>2 DEF ReplacedRows, MeterColumns
<1>5. /\ old \in {{}} \cup {{m} : m \in ActiveMeters(u)}
      /\ old = {} => ActiveMeters(u) = {}
  BY <1>1 DEF MaybeLatest
<1>6. meter[n].status = "ABSENT"
  BY DEF Replace
<1>7. QED BY <1>1, <1>2, <1>3, <1>4, <1>5, <1>6, PutIntoService

LEMMA NextMeterColumns == MeterColumns /\ [RegistryNext]_registryVars => MeterColumns'
<1> SUFFICES ASSUME MeterColumns, [RegistryNext]_registryVars PROVE MeterColumns'
  OBVIOUS
<1>1. CASE UNCHANGED meter
  BY <1>1 DEF MeterColumns
<1>2. ASSUME NEW n \in Meter, NEW row, meter' = [meter EXCEPT ![n] = row],
             DOMAIN row = {"status", "unit", "serial", "initial"}
      PROVE  MeterColumns'
  BY <1>2 DEF MeterColumns
<1>3. ASSUME NEW n \in Meter, NEW u, NEW s, NEW initial, NEW status
      PROVE  /\ DOMAIN NewMeter(n, u, s, initial, status)
                  = {"status", "unit", "serial", "initial"}
             /\ DOMAIN [meter[n] EXCEPT !.status = status]
                  = {"status", "unit", "serial", "initial"}
             /\ DOMAIN [meter[n] EXCEPT !.initial = initial]
                  = {"status", "unit", "serial", "initial"}
  BY DEF NewMeter, MeterColumns
<1>4. ASSUME NEW n \in Meter, NEW u, NEW s, NEW initial, NEW status,
             CreateMeter(n, u, s, initial, status) \/ UpdateMeter(n, u, s, initial, status)
      PROVE  MeterColumns'
  BY <1>2, <1>3, <1>4 DEF CreateMeter, UpdateMeter
<1>5. ASSUME NEW n \in Meter, RemoveMeter(n) PROVE MeterColumns'
  BY <1>2, <1>3, <1>5 DEF RemoveMeter
<1>6. ASSUME NEW n \in Meter, NEW u, NEW s, NEW initial, ImportMeter(n, u, s, initial)
      PROVE  MeterColumns'
  <2>1. CASE meter' = [meter EXCEPT ![n] = NewMeter(n, u, s, initial, "ACTIVE")]
    BY <1>2, <1>3, <2>1
  <2>2. CASE meter' = [meter EXCEPT ![n].initial = initial]
    <3>1. PICK row : row = [meter[n] EXCEPT !.initial = initial]
      OBVIOUS
    <3>2. meter' = [meter EXCEPT ![n] = row]
      BY <2>2, <3>1
    <3>3. DOMAIN row = {"status", "unit", "serial", "initial"}
      BY <3>1 DEF MeterColumns
    <3>4. QED BY <1>2, <3>2, <3>3
  <2>3. QED BY <1>6, <2>1, <2>2 DEF ImportMeter
<1>7. ASSUME NEW n \in Meter, NEW u, NEW s, NEW initial, Replace(u, n, s, initial)
      PROVE  MeterColumns'
  <2>1. PICK old : meter' = [ReplacedRows(old, n) EXCEPT
                               ![n] = NewMeter(n, u, s, initial, "ACTIVE")]
    BY <1>7 DEF Replace
  <2>2. PICK rows, row : /\ rows = ReplacedRows(old, n)
                         /\ row = NewMeter(n, u, s, initial, "ACTIVE")
    OBVIOUS
  <2>3. /\ rows = [m \in Meter |-> rows[m]]
        /\ \A m \in Meter : DOMAIN rows[m] = {"status", "unit", "serial", "initial"}
    BY <2>2 DEF ReplacedRows, MeterColumns
  <2>4. DOMAIN row = {"status", "unit", "serial", "initial"}
    BY <2>2 DEF NewMeter
  <2>5. meter' = [rows EXCEPT ![n] = row]
    BY <2>1, <2>2
  <2>6. QED BY <2>3, <2>4, <2>5 DEF MeterColumns
<1>8. CASE MeterNext
  BY <1>4, <1>5, <1>6, <1>7, <1>8 DEF MeterNext
<1>9. QED BY <1>1, <1>8 DEF RegistryNext, MeterStep, TariffStep, ResidentStep,
                           StatementStep, AccountStep, registryVars

(* Neither a row of a file nor a replacement leaves a unit with one active *)
(* meter more than it had, beyond the first, for any meters and whatever   *)
(* create and update, which do not look, have done before.                 *)
THEOREM ExchangeOneForOne == RegistrySpec => ExchangeKeepsOneActive
<1>1. RegistryInit => MeterColumns
  BY DEF RegistryInit, MeterInit, MeterColumns
<1>2. ASSUME MeterColumns, NEW v \in MeteredUnit, NEW n \in Meter,
             NEW u \in MeteredUnit, NEW s \in Serial, NEW initial \in Initial,
             ImportMeter(n, u, s, initial) \/ Replace(u, n, s, initial)
      PROVE  ~(/\ Cardinality(ActiveMeters(v)') > 1
               /\ Cardinality(ActiveMeters(v)') > Cardinality(ActiveMeters(v)))
  <2>1. Exchanged(ActiveMeters(v), ActiveMeters(v)')
    BY <1>2, ImportExchanges, ReplaceExchanges
  <2>2. PICK S, T : S = ActiveMeters(v) /\ T = ActiveMeters(v)'
    OBVIOUS
  <2>3. S \in SUBSET Meter
    BY <2>2 DEF ActiveMeters
  <2>4. QED BY <2>1, <2>2, <2>3, ExchangeCounts
<1>3. MeterColumns => KeepsOneActive
  BY <1>2 DEF KeepsOneActive
<1>4. QED BY <1>1, <1>3, NextMeterColumns, PTL DEF RegistrySpec, ExchangeKeepsOneActive

-----------------------------------------------------------------------------
(* Tariffs                                                                 *)

TariffColumns ==
  /\ tariff = [t \in Tariff |-> tariff[t]]
  /\ \A t \in Tariff : DOMAIN tariff[t] = {"status", "date", "month", "input"}
  /\ wperiod = [m \in Month |-> wperiod[m]]
  /\ \A m \in Month : DOMAIN wperiod[m] = {"status", "tariff"}
  /\ loaded \in Seq(Tariff)

LEMMA TouchedLast ==
  ASSUME NEW order \in Seq(Tariff), NEW t \in Tariff
  PROVE  /\ Touched(order, t) \in Seq(Tariff)
         /\ Len(Touched(order, t)) \in DOMAIN Touched(order, t)
         /\ Touched(order, t)[Len(Touched(order, t))] = t
<1>1. PICK rest : rest = Without(order, t)
  OBVIOUS
<1>2. rest \in Seq(Tariff)
  <2>1. CASE \E i \in DOMAIN order : order[i] = t
    <3>1. PICK i : i = CHOOSE j \in DOMAIN order : order[j] = t
      OBVIOUS
    <3>2. i \in 1..Len(order)
      BY <2>1, <3>1
    <3>3. /\ SubSeq(order, 1, i - 1) \in Seq(Tariff)
          /\ SubSeq(order, i + 1, Len(order)) \in Seq(Tariff)
      BY <3>2
    <3>4. QED BY <1>1, <2>1, <3>1, <3>3 DEF Without, RemoveAt
  <2>2. QED BY <1>1, <2>1 DEF Without
<1>3. QED BY <1>1, <1>2 DEF Touched

(* Of the tariffs fit for billing, the one written last is the latest.     *)
LEMMA LastIsLatest ==
  ASSUME NEW rows, NEW order \in Seq(Tariff), Len(order) \in DOMAIN order,
         ForBilling(order[Len(order)], rows)
  PROVE  Latest(rows, order) = order[Len(order)]
<1>1. PICK usable : usable = {i \in DOMAIN order : ForBilling(order[i], rows)}
  OBVIOUS
<1>2. Len(order) \in usable /\ usable \subseteq 1..Len(order) /\ Len(order) \in Nat
  BY <1>1
<1>3. Max(usable) = Len(order)
  <2>1. PICK n : n = Len(order)
    OBVIOUS
  <2>2. n \in usable /\ \A i \in usable : n >= i
    BY <1>2, <2>1
  <2>3. ASSUME NEW k \in usable, \A i \in usable : k >= i PROVE k = n
    BY <1>2, <2>1, <2>2, <2>3
  <2>4. QED BY <2>1, <2>2, <2>3 DEF Max
<1>4. QED BY <1>1, <1>2, <1>3 DEF Latest

LEMMA NextTariffColumns ==
  TariffColumns /\ [RegistryNext]_registryVars => TariffColumns'
<1> SUFFICES ASSUME TariffColumns, [RegistryNext]_registryVars PROVE TariffColumns'
  OBVIOUS
<1>1. CASE UNCHANGED tariffVars
  BY <1>1 DEF TariffColumns, tariffVars
<1>2. ASSUME NEW t \in Tariff PROVE Touched(loaded, t) \in Seq(Tariff)
  BY TouchedLast DEF TariffColumns
<1>3. CASE TariffNext
  <2>1. PICK t \in Tariff :
          \/ \E d, month, input : CreateTariff(t, d, month, input)
          \/ \E status, d, month, input : UpdateTariff(t, status, d, month, input)
          \/ RemoveTariff(t)
          \/ \E d, table : LoadLookup(t, d, table)
    BY <1>3 DEF TariffNext
  <2>2. ASSUME NEW d, NEW month, NEW input, CreateTariff(t, d, month, input)
        PROVE  TariffColumns'
    BY <1>2, <2>2 DEF CreateTariff, TariffColumns
  <2>3. ASSUME NEW status, NEW d, NEW month, NEW input,
               UpdateTariff(t, status, d, month, input)
        PROVE  TariffColumns'
    BY <1>2, <2>3 DEF UpdateTariff, TariffColumns
  <2>4. CASE RemoveTariff(t)
    BY <1>2, <2>4 DEF RemoveTariff, TariffColumns
  <2>5. ASSUME NEW d, NEW table, LoadLookup(t, d, table) PROVE TariffColumns'
    <3>1. /\ tariff' = [s \in Tariff |-> tariff'[s]]
          /\ \A s \in Tariff : DOMAIN tariff'[s] = {"status", "date", "month", "input"}
      BY <2>5 DEF LoadLookup, TariffColumns
    <3>2. /\ wperiod' = [m \in Month |-> wperiod'[m]]
          /\ \A m \in Month : DOMAIN wperiod'[m] = {"status", "tariff"}
      BY <2>5 DEF LoadLookup, TariffColumns
    <3>3. loaded' \in Seq(Tariff)
      BY <1>2, <2>5 DEF LoadLookup
    <3>4. QED BY <3>1, <3>2, <3>3 DEF TariffColumns
  <2>6. QED BY <2>1, <2>2, <2>3, <2>4, <2>5
<1>4. CASE WPeriodNext
  BY <1>4 DEF WPeriodNext, CreateWaterPeriod, UpdateWaterPeriod, CancelWaterPeriod,
              CloseWaterPeriod, ReopenWaterPeriod, SetPeriodStatus, TariffColumns
<1>5. QED BY <1>1, <1>3, <1>4 DEF RegistryNext, MeterStep, TariffStep, ResidentStep,
                                  StatementStep, AccountStep, registryVars

LEMMA LoadedTariffIsLatest ==
  ASSUME TariffColumns, NEW t \in Tariff, NEW d \in Date, NEW table \in LookupTables,
         LoadLookup(t, d, table)
  PROVE  Latest(tariff', loaded') = t
<1>1. table \in TariffInput /\ table.tiers # {}
  BY RegistryAssumption DEF LookupTables
<1>2. LookupInput(t, table).tiers = table.tiers
  BY <1>1 DEF LookupInput, TariffInput
<1>3. tariff'[t] = [status |-> "ACTIVE", date |-> d, month |-> d,
                    input |-> LookupInput(t, table)]
  BY DEF LoadLookup
<1>4. ForBilling(t, tariff')
  BY <1>1, <1>2, <1>3, RegistryAssumption DEF ForBilling
<1>5. PICK order : order = loaded'
  OBVIOUS
<1>6. /\ order \in Seq(Tariff) /\ Len(order) \in DOMAIN order
      /\ order[Len(order)] = t
  BY <1>5, TouchedLast DEF LoadLookup, TariffColumns
<1>7. QED BY <1>4, <1>5, <1>6, LastIsLatest

(* A month's table, once loaded, is the only tariff in force for it; every *)
(* open period refers to it, and none to a tariff the load archived, for   *)
(* any tariffs, months and tables and whatever was edited before.          *)
THEOREM LoadedOnce == RegistrySpec => LoadLeavesOne
<1>1. RegistryInit => TariffColumns
  BY DEF RegistryInit, TariffInit, TariffColumns
<1>2. ASSUME TariffColumns, NEW t \in Tariff, NEW d \in Date, NEW table \in LookupTables,
             LoadLookup(t, d, table)
      PROVE  /\ \A s \in Tariff \ {t} : ~(/\ tariff'[s].status = "ACTIVE"
                                          /\ d \in {tariff'[s].date, tariff'[s].month})
             /\ \A m \in Month :
                  /\ wperiod'[m].status \in {"DRAFT", "OPEN", "CALCULATED"}
                       => wperiod'[m].tariff = t
                  /\ \A s \in Tariff : ~(/\ wperiod'[m].tariff = s
                                         /\ tariff[s].status # "ARCHIVED"
                                         /\ tariff'[s].status = "ARCHIVED")
  <2>1. ASSUME NEW s \in Tariff \ {t}
        PROVE  IF s \in Duplicates(t, d) THEN tariff'[s].status = "ARCHIVED"
               ELSE tariff'[s] = tariff[s]
    BY <1>2 DEF LoadLookup, TariffColumns
  <2>2. tariff'[t].status = "ACTIVE"
    BY <1>2 DEF LoadLookup
  <2>3. ASSUME NEW m \in Month
        PROVE  /\ wperiod'[m].status = wperiod[m].status
               /\ IF wperiod[m].status \in {"DRAFT", "OPEN", "CALCULATED"}
                  THEN wperiod'[m].tariff = t
                  ELSE wperiod'[m].tariff \notin Duplicates(t, d)
    <3>1. Latest(tariff', loaded') = t
      BY <1>2, LoadedTariffIsLatest
    <3>2. t \notin Duplicates(t, d)
      BY DEF Duplicates
    <3>3. PICK latest : latest = Latest(tariff', loaded')
      OBVIOUS
    <3>4. wperiod'[m] = [wperiod[m] EXCEPT !.tariff =
            IF wperiod[m].status \in {"DRAFT", "OPEN", "CALCULATED"} THEN latest
            ELSE IF wperiod[m].tariff \in Duplicates(t, d) THEN t ELSE wperiod[m].tariff]
      BY <1>2, <3>3 DEF LoadLookup
    <3>5. QED BY <1>2, <3>1, <3>2, <3>3, <3>4 DEF TariffColumns
  <2>4. QED BY <2>1, <2>2, <2>3 DEF Duplicates
<1>3. TariffColumns => LeavesOne
  <2> SUFFICES ASSUME TariffColumns PROVE LeavesOne
    OBVIOUS
  <2>1. QED BY <1>2 DEF LeavesOne
<1>4. QED BY <1>1, <1>3, NextTariffColumns, PTL DEF RegistrySpec, LoadLeavesOne

-----------------------------------------------------------------------------
(* Each register, among the others, does what it does alone: what is shown *)
(* of residents, uploads and accounts on their own holds of them together. *)
THEOREM RegistersApart == RegistrySpec => ResidentSpec /\ ImportSpec /\ AccountSpec
<1>1. RegistryInit => ResidentInit /\ ImportInit /\ AccountInit
  BY DEF RegistryInit
<1>2. [RegistryNext]_registryVars => [ResidentNext]_residentVars
  BY DEF RegistryNext, registryVars, MeterStep, TariffStep, ResidentStep,
         StatementStep, AccountStep
<1>3. [RegistryNext]_registryVars => [ImportNext]_importVars
  BY DEF RegistryNext, registryVars, MeterStep, TariffStep, ResidentStep,
         StatementStep, AccountStep
<1>4. [RegistryNext]_registryVars => [AccountNext]_accountVars
  BY DEF RegistryNext, registryVars, MeterStep, TariffStep, ResidentStep,
         StatementStep, AccountStep, userVars, accountVars
<1>5. QED BY <1>1, <1>2, <1>3, <1>4, PTL
          DEF RegistrySpec, ResidentSpec, ImportSpec, AccountSpec
=============================================================================
