---------------------------- MODULE RowDelivery -----------------------------
(***************************************************************************)
(* What an import batch promises: it is underway at most once, and while   *)
(* it is underway each of its rows is delivered at most once.  A batch     *)
(* that is contested may be opened again and deliver rows at any time; it  *)
(* keeps within a number of copies, and other batches do not notice.       *)
(***************************************************************************)
EXTENDS Naturals

CONSTANTS Batch, Line, Most

VARIABLES
  phase,      \* of each batch
  copies,     \* how often each row of it was delivered
  contested   \* batches with more than one delivery at a time

deliveryVars == <<phase, copies, contested>>

Phase == {"open", "underway", "over"}

DeliveryInit ==
  /\ phase = [b \in Batch |-> "open"]
  /\ copies = [b \in Batch |-> [l \in Line |-> 0]]
  /\ contested = {}

Begin(b) ==
  /\ phase[b] = "open" \/ b \in contested
  /\ phase' = [phase EXCEPT ![b] = "underway"]
  /\ UNCHANGED <<copies, contested>>

Deliver(b, l) ==
  /\ (phase[b] = "underway" /\ copies[b][l] = 0) \/ b \in contested
  /\ copies[b][l] < Most
  /\ copies' = [copies EXCEPT ![b] = [copies[b] EXCEPT ![l] = copies[b][l] + 1]]
  /\ UNCHANGED <<phase, contested>>

End(b) ==
  /\ phase' = [phase EXCEPT ![b] = "over"]
  /\ UNCHANGED <<copies, contested>>

Reopen(b) ==
  /\ b \in contested
  /\ phase' = [phase EXCEPT ![b] = "open"]
  /\ UNCHANGED <<copies, contested>>

Contest(b) ==
  /\ contested' = contested \cup {b}
  /\ UNCHANGED <<phase, copies>>

DeliveryNext ==
  \E b \in Batch :
    \/ Begin(b) \/ End(b) \/ Reopen(b) \/ Contest(b)
    \/ \E l \in Line : Deliver(b, l)

DeliverySpec == DeliveryInit /\ [][DeliveryNext]_deliveryVars
=============================================================================
