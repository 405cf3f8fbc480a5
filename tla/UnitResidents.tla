--------------------------- MODULE UnitResidents ----------------------------
(***************************************************************************)
(* Units, residents and the relations between them.  Making a resident the *)
(* primary one of a unit takes two statements, without a transaction: the  *)
(* others are demoted, then the relation is written.  Requests may overlap *)
(* or stop in between.                                                     *)
(*                                                                         *)
(* A resident entered with the relation is one created just before it.     *)
(***************************************************************************)
EXTENDS Naturals, FiniteSets

CONSTANTS
  Unit,
  Resident,
  Link,       \* identifiers of unit_resident rows
  Request,    \* requests that may run at a time
  None

ASSUME ResidentAssumption == IsFiniteSet(Request) /\ IsFiniteSet(Link)

VARIABLES
  unit,       \* residential_unit rows
  resident,   \* resident rows
  link,       \* unit_resident rows
  request,    \* what each request is doing
  unasked     \* relations made primary by a write that demotes nobody

residentVars == <<unit, resident, link, request, unasked>>

NoLink == [status |-> "ABSENT", unit |-> None, resident |-> None, primary |-> FALSE]
Free   == [step |-> "idle", link |-> None, change |-> <<>>]

ResidentInit ==
  /\ unit = [u \in Unit |-> "ABSENT"]
  /\ resident = [r \in Resident |-> "ABSENT"]
  /\ link = [k \in Link |-> NoLink]
  /\ request = [w \in Request |-> Free]
  /\ unasked = {}

Primaries(rows, u) ==
  {k \in Link : rows[k].status = "ACTIVE" /\ rows[k].primary /\ rows[k].unit = u}

(* An identifier no row has and no request is about to insert.             *)
Fresh(k) == link[k].status = "ABSENT" /\ \A w \in Request : request[w].link # k

-----------------------------------------------------------------------------
(* units.service.ts and residents.service.ts: rows are deleted softly and  *)
(* nothing is deleted with them.                                           *)
CreateUnit(u) ==
  /\ unit[u] = "ABSENT"
  /\ unit' = [unit EXCEPT ![u] = "PRESENT"]
  /\ UNCHANGED <<resident, link, request, unasked>>

RemoveUnit(u) ==
  /\ unit[u] = "PRESENT"
  /\ unit' = [unit EXCEPT ![u] = "DELETED"]
  /\ UNCHANGED <<resident, link, request, unasked>>

CreateResident(r) ==
  /\ resident[r] = "ABSENT"
  /\ resident' = [resident EXCEPT ![r] = "PRESENT"]
  /\ UNCHANGED <<unit, link, request, unasked>>

RemoveResident(r) ==
  /\ resident[r] = "PRESENT"
  /\ resident' = [resident EXCEPT ![r] = "DELETED"]
  /\ UNCHANGED <<unit, link, request, unasked>>

(* A row of an import batch of residents makes its resident primary and    *)
(* looks at nobody else.                                                   *)
ImportResident(r, k, u) ==
  /\ unit[u] = "PRESENT" /\ resident[r] = "ABSENT" /\ Fresh(k)
  /\ resident' = [resident EXCEPT ![r] = "PRESENT"]
  /\ link' = [link EXCEPT ![k] =
       [status |-> "ACTIVE", unit |-> u, resident |-> r, primary |-> TRUE]]
  /\ unasked' = unasked \cup {k}
  /\ UNCHANGED <<unit, request>>

-----------------------------------------------------------------------------
(* unit-residents.service.ts: change holds the columns a request writes.   *)
Handover(change) == "primary" \in DOMAIN change /\ change.primary

Start(w, k, change) ==
  /\ request[w].step = "idle"
  /\ request' = [request EXCEPT ![w] =
       [step |-> IF Handover(change) THEN "demote" ELSE "write",
        link |-> k, change |-> change]]
  /\ UNCHANGED <<unit, resident, link, unasked>>

StartLink(w, k, u, r, primary) ==
  /\ unit[u] = "PRESENT" /\ resident[r] = "PRESENT" /\ Fresh(k)
  /\ Start(w, k, [status |-> "ACTIVE", unit |-> u, resident |-> r, primary |-> primary])

StartUpdate(w, k, change) ==
  /\ link[k].status # "ABSENT"
  /\ Start(w, k, change)

DemotedNewest(rows, u, k) ==
  IF Primaries(rows, u) \ {k} = {} THEN rows
  ELSE [rows EXCEPT ![CHOOSE j \in Primaries(rows, u) \ {k} : TRUE].primary = FALSE]

Demoted(rows, u, k) ==
  [j \in Link |-> IF j \in Primaries(rows, u) \ {k}
                  THEN [rows[j] EXCEPT !.primary = FALSE] ELSE rows[j]]

Changed(row, change) ==
  [x \in DOMAIN row |-> IF x \in DOMAIN change THEN change[x] ELSE row[x]]

UnitOf(w) == Changed(link[request[w].link], request[w].change).unit

Demote(w) ==
  /\ request[w].step = "demote"
  /\ link' = Demoted(link, UnitOf(w), request[w].link)
  /\ unasked' = {k \in unasked : link'[k].primary}
  /\ request' = [request EXCEPT ![w].step = "write"]
  /\ UNCHANGED <<unit, resident>>

(* An update that says nothing of isPrimary may bring a primary relation   *)
(* back to ACTIVE.                                                         *)
BroughtBack(k, change) ==
  /\ "primary" \notin DOMAIN change
  /\ k \in unasked \/ (link[k].primary /\ link[k].status # "ACTIVE")

WriteLink(w) ==
  LET k == request[w].link
      change == request[w].change
  IN  /\ request[w].step = "write"
      /\ link' = [link EXCEPT ![k] = Changed(link[k], change)]
      /\ unasked' = IF BroughtBack(k, change) THEN unasked \cup {k}
                    ELSE unasked \ {k}
      /\ request' = [request EXCEPT ![w] = Free]
      /\ UNCHANGED <<unit, resident>>

Abandon(w) ==
  /\ request[w].step # "idle"
  /\ request' = [request EXCEPT ![w] = Free]
  /\ UNCHANGED <<unit, resident, link, unasked>>

(* "DELETE closes the relation"; it stays primary.                         *)
Close(k) ==
  /\ link[k].status # "ABSENT"
  /\ link' = [link EXCEPT ![k].status = "ENDED"]
  /\ UNCHANGED <<unit, resident, request, unasked>>

Changes ==
  (UNION {[D -> BOOLEAN] : D \in {{}, {"primary"}}}) \cup
  {[status |-> s] : s \in {"ACTIVE", "ENDED"}} \cup
  {[status |-> s, primary |-> p] : s \in {"ACTIVE", "ENDED"}, p \in BOOLEAN}

RequestNext(w) ==
  \/ \E k \in Link, u \in Unit, r \in Resident, primary \in BOOLEAN :
       StartLink(w, k, u, r, primary)
  \/ \E k \in Link, change \in Changes : StartUpdate(w, k, change)
  \/ Demote(w) \/ WriteLink(w) \/ Abandon(w)

ResidentNext ==
  \/ \E u \in Unit : CreateUnit(u) \/ RemoveUnit(u)
  \/ \E r \in Resident : CreateResident(r) \/ RemoveResident(r)
  \/ \E r \in Resident, k \in Link, u \in Unit : ImportResident(r, k, u)
  \/ \E k \in Link : Close(k)
  \/ \E w \in Request : RequestNext(w)

ResidentSpec == ResidentInit /\ [][ResidentNext]_residentVars

-----------------------------------------------------------------------------
(* A handover demotes every other primary resident: a unit never has more  *)
(* of them than requests that run at a time, so one at a time leaves one.  *)
(* Those an import or a reactivation added come on top until the next      *)
(* handover.                                                               *)
PrimariesNeedOverlap ==
  \A u \in Unit :
    Cardinality(Primaries(link, u) \ unasked) <= Cardinality(Request)
=============================================================================
