----------------------------- MODULE BankImport -----------------------------
(***************************************************************************)
(* Uploading bank statements.  importFromFile walks the rows of a file; a  *)
(* row whose hash is not in the table is inserted in a second statement.   *)
(* There is no transaction and no unique index, and uploads may overlap or *)
(* stop with the process.                                                  *)
(*                                                                         *)
(* A content is what the hash covers: date, amount, reference and concept. *)
(***************************************************************************)
EXTENDS Naturals, Sequences, FiniteSets

CONSTANTS
  Content,
  Broken,    \* contents without a date or an amount, or with an unreadable one
  Files,     \* statements that may be uploaded
  Uploader,  \* requests that may run at a time
  MaxByHand  \* bound on the movements entered without a hash

ASSUME ImportAssumption ==
  /\ Broken \subseteq Content
  /\ Files \subseteq Seq(Content)
  /\ IsFiniteSet(Uploader)
  /\ MaxByHand \in Nat

VARIABLES
  hashed,    \* bank_transaction rows of a content that carry its hash
  byHand,    \* rows of a content without a hash
  upload     \* what each request is doing

importVars == <<hashed, byHand, upload>>

NoUpload == [file |-> <<>>, pos |-> 1, step |-> "idle", failed |-> {}]

UploadRow == [file : Files \cup {<<>>}, pos : Nat \ {0},
              step : {"idle", "lookup", "insert"}, failed : SUBSET Nat]

ImportTypeOK ==
  /\ hashed \in [Content -> Nat]
  /\ byHand \in [Content -> Nat]
  /\ upload \in [Uploader -> UploadRow]
  /\ \A w \in Uploader : upload[w].pos <= Len(upload[w].file) + 1

ImportInit ==
  /\ hashed = [c \in Content |-> 0]
  /\ byHand = [c \in Content |-> 0]
  /\ upload = [w \in Uploader |-> NoUpload]

Row(w)      == upload[w].file[upload[w].pos]
HasRow(w)   == upload[w].pos <= Len(upload[w].file)
RowDone(u)  == [u EXCEPT !.pos = u.pos + 1, !.step = "lookup"]
RowFails(u) == [RowDone(u) EXCEPT !.failed = u.failed \cup {u.pos}]

-----------------------------------------------------------------------------
StartUpload(w, file) ==
  /\ upload[w].step = "idle"
  /\ upload' = [upload EXCEPT ![w] =
       [file |-> file, pos |-> 1, step |-> "lookup", failed |-> {}]]
  /\ UNCHANGED <<hashed, byHand>>

AfterLookupAlways(u, c, known) == [u EXCEPT !.step = "insert"]

AfterLookup(u, c, known) ==
  IF c \in Broken THEN RowFails(u)
  ELSE IF known > 0 THEN RowDone(u)
  ELSE [u EXCEPT !.step = "insert"]

LookUp(w) ==
  /\ upload[w].step = "lookup"
  /\ HasRow(w)
  /\ upload' = [upload EXCEPT ![w] = AfterLookup(upload[w], Row(w), hashed[Row(w)])]
  /\ UNCHANGED <<hashed, byHand>>

AfterInsertSkipsNext(u) == [RowDone(u) EXCEPT !.pos = u.pos + 2]

AfterInsert(u) == RowDone(u)

InsertRow(w) ==
  /\ upload[w].step = "insert"
  /\ hashed' = [hashed EXCEPT ![Row(w)] = hashed[Row(w)] + 1]
  /\ upload' = [upload EXCEPT ![w] = AfterInsert(upload[w])]
  /\ UNCHANGED byHand

(* The database refuses the row; the loop goes on.                         *)
InsertFails(w) ==
  /\ upload[w].step = "insert"
  /\ upload' = [upload EXCEPT ![w] = RowFails(upload[w])]
  /\ UNCHANGED <<hashed, byHand>>

Finished(w) == upload[w].step = "lookup" /\ ~HasRow(w)

EndUpload(w) ==
  /\ Finished(w)
  /\ upload' = [upload EXCEPT ![w] = NoUpload]
  /\ UNCHANGED <<hashed, byHand>>

Crash(w) ==
  /\ upload[w].step # "idle"
  /\ upload' = [upload EXCEPT ![w] = NoUpload]
  /\ UNCHANGED <<hashed, byHand>>

(* A movement entered alone, or by an import batch of bank transactions:   *)
(* neither computes a hash.                                                *)
EnterByHand(c) ==
  /\ c \notin Broken
  /\ byHand[c] < MaxByHand
  /\ byHand' = [byHand EXCEPT ![c] = byHand[c] + 1]
  /\ UNCHANGED <<hashed, upload>>

UploadNext(w) ==
  \/ \E file \in Files : StartUpload(w, file)
  \/ LookUp(w) \/ InsertRow(w) \/ InsertFails(w) \/ EndUpload(w) \/ Crash(w)

ImportNext ==
  \/ \E w \in Uploader : UploadNext(w)
  \/ \E c \in Content : EnterByHand(c)

ImportSpec == ImportInit /\ [][ImportNext]_importVars

-----------------------------------------------------------------------------
Inserting(c) == {w \in Uploader : upload[w].step = "insert" /\ Row(w) = c}

(* "skipping duplicates by content hash": a statement uploaded again, also *)
(* after a crash in its middle, adds no row twice.  Uploads that overlap   *)
(* can, once for each of them: counting the inserts still to come, a       *)
(* content never has more rows than requests that run at a time.           *)
InsertsBounded ==
  \A c \in Content :
    hashed[c] + Cardinality(Inserting(c)) <= Cardinality(Uploader)

(* An upload that comes to its end has every row of its file in the table  *)
(* except those it reports, whatever earlier uploads were cut short.       *)
FinishedIsStored ==
  \A w \in Uploader :
    Finished(w) =>
      \A i \in 1..Len(upload[w].file) :
        i \notin upload[w].failed => hashed[upload[w].file[i]] > 0
=============================================================================
