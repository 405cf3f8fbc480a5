------------------------------ MODULE Accounts ------------------------------
(***************************************************************************)
(* The accounts of the people who work with the system: registered by      *)
(* themselves or created by an administrator, given a password through a   *)
(* mailed link, switched on and off.  Handlers read the account and write  *)
(* some of its columns later, without a transaction, and may overlap.      *)
(*                                                                         *)
(* An account is named by its e-mail, which is unique; no endpoint deletes *)
(* one.  A link that expires is a link nobody uses any more.  To every     *)
(* reader here, SuperAdmin is what Admin is.                               *)
(***************************************************************************)
EXTENDS Naturals, FiniteSets

CONSTANTS
  Email,
  Token,      \* links (signatures of mailed tokens)
  Visitor,    \* requests that may run at a time
  MaxUses,    \* bound on the times one link is followed
  None

VARIABLES
  account,    \* user rows
  mailed,     \* whom each link was mailed to
  visit,      \* what each request has read
  uses,       \* how often each link has set a password
  shut        \* accounts whose last switch was off

accountVars == <<account, mailed, visit, uses, shut>>

AccountStatus == {"ABSENT", "ACTIVE", "INACTIVE"}
Role          == {"Admin", "Fulfillment"}

(* off: deactivatedAt is set; spent: passwordRegistered                    *)
NewAccount(status, role, password) ==
  [status |-> status, role |-> role, password |-> password, off |-> FALSE,
   spent |-> None]

NoAccount == NewAccount("ABSENT", "Fulfillment", FALSE)
NoVisit   == [step |-> "idle", email |-> None, token |-> None, read |-> NoAccount]

AccountInit ==
  /\ account = [e \in Email |-> NoAccount]
  /\ mailed = [k \in Token |-> None]
  /\ visit = [w \in Visitor |-> NoVisit]
  /\ uses = [k \in Token |-> 0]
  /\ shut = {}

Known(e) == account[e].status # "ABSENT"

-----------------------------------------------------------------------------
(* The row is written before the mail is sent, which may fail.             *)
Mailed(e, k) ==
  \/ mailed[k] = None /\ mailed' = [mailed EXCEPT ![k] = e]
  \/ UNCHANGED mailed

RegisterAccount(e, k) ==
  /\ ~Known(e)
  /\ account' = [account EXCEPT ![e] = NewAccount("INACTIVE", "Fulfillment", FALSE)]
  /\ Mailed(e, k)
  /\ UNCHANGED <<visit, uses, shut>>

(* The default password works before the link is followed.  Without a role *)
(* in the request the role is Fulfillment and the account is ACTIVE.       *)
CreateUser(e, role, status, k) ==
  /\ ~Known(e)
  /\ role = "Admin" => status = "ACTIVE"
  /\ account' = [account EXCEPT ![e] = NewAccount(status, role, TRUE)]
  /\ Mailed(e, k)
  /\ UNCHANGED <<visit, uses, shut>>

SendRecovery(e, k) ==
  /\ Known(e)
  /\ mailed[k] = None
  /\ mailed' = [mailed EXCEPT ![k] = e]
  /\ UNCHANGED <<account, visit, uses, shut>>

UpdateRole(e, role) ==
  /\ Known(e)
  /\ account' = [account EXCEPT ![e].role = role]
  /\ UNCHANGED <<mailed, visit, uses, shut>>

(* Unlike the switch, a status set by hand leaves the date alone.          *)
UpdateStatus(e, status) ==
  /\ Known(e)
  /\ account' = [account EXCEPT ![e].status = status]
  /\ shut' = shut \ {e}
  /\ UNCHANGED <<mailed, visit, uses>>

-----------------------------------------------------------------------------
Visit(w, step, e, k) ==
  /\ visit[w].step = "idle"
  /\ visit' = [visit EXCEPT ![w] =
       [step |-> step, email |-> e, token |-> k, read |-> account[e]]]
  /\ UNCHANGED <<account, mailed, uses, shut>>

(* updateStatusBack and updateAuthorization                                *)
ReadSwitch(w, e) == Known(e) /\ Visit(w, "switch", e, None)

Switched(row, read) ==
  IF read.status = "INACTIVE" THEN [row EXCEPT !.status = "ACTIVE"]
  ELSE [row EXCEPT !.status = "INACTIVE", !.off = TRUE]

WriteSwitch(w) ==
  LET e == visit[w].email
      row == Switched(account[e], visit[w].read)
  IN  /\ visit[w].step = "switch"
      /\ account' = [account EXCEPT ![e] = row]
      /\ shut' = IF row.status = "INACTIVE" THEN shut \cup {e} ELSE shut \ {e}
      /\ visit' = [visit EXCEPT ![w] = NoVisit]
      /\ UNCHANGED <<mailed, uses>>

PasswordOKAlways(row, k) == row.status # "ABSENT"

PasswordOK(row, k) == row.status # "ABSENT" /\ row.spent # k

ReadPassword(w, k) ==
  /\ mailed[k] # None
  /\ uses[k] < MaxUses
  /\ PasswordOK(account[mailed[k]], k)
  /\ Visit(w, "password", mailed[k], k)

PasswordSetWholeRow(row, read, k) == [read EXCEPT !.password = TRUE, !.spent = k]

PasswordSet(row, read, k) == [row EXCEPT !.password = TRUE, !.spent = k]

WritePassword(w) ==
  LET e == visit[w].email
      k == visit[w].token
  IN  /\ visit[w].step = "password"
      /\ account' = [account EXCEPT ![e] = PasswordSet(account[e], visit[w].read, k)]
      /\ uses' = [uses EXCEPT ![k] = uses[k] + 1]
      /\ visit' = [visit EXCEPT ![w] = NoVisit]
      /\ UNCHANGED <<mailed, shut>>

GiveUp(w) ==
  /\ visit[w].step # "idle"
  /\ visit' = [visit EXCEPT ![w] = NoVisit]
  /\ UNCHANGED <<account, mailed, uses, shut>>

VisitNext(w) ==
  \/ \E e \in Email : ReadSwitch(w, e)
  \/ \E k \in Token : ReadPassword(w, k)
  \/ WriteSwitch(w) \/ WritePassword(w) \/ GiveUp(w)

AccountNext ==
  \/ \E e \in Email :
       \/ \E k \in Token :
            \/ RegisterAccount(e, k) \/ SendRecovery(e, k)
            \/ \E role \in Role, status \in {"ACTIVE", "INACTIVE"} :
                 CreateUser(e, role, status, k)
       \/ \E role \in Role : UpdateRole(e, role)
       \/ \E status \in {"ACTIVE", "INACTIVE"} : UpdateStatus(e, status)
  \/ \E w \in Visitor : VisitNext(w)

AccountSpec == AccountInit /\ [][AccountNext]_accountVars

-----------------------------------------------------------------------------
(* login, for the client application of the account's role                 *)
MayLogIn(row) ==
  /\ row.status # "ABSENT"
  /\ row.password
  /\ ~(row.status = "INACTIVE" /\ (row.role = "Admin" \/ row.off))

(* AuthGuard, for a request with a token of an earlier login               *)
MayGoOn(row) == row.status # "ABSENT" /\ ~(row.status = "INACTIVE" /\ row.off)

(* An account that was last switched off stays out, with and without an    *)
(* earlier login, whatever else happens to it: another administrator's     *)
(* switch that read it before, a new password, a new role.                 *)
SwitchedOffStaysOut ==
  \A e \in shut : ~MayLogIn(account[e]) /\ ~MayGoOn(account[e])

(* "PASSWORD_HAS_BEEN_UPDATED": a link sets the password once, and once    *)
(* more only for requests that overlap or after another link was used: the *)
(* account remembers the last one.                                         *)
OthersUsed(k) ==
  UNION {{j} \X (1..uses[j]) : j \in {j \in Token \ {k} : mailed[j] = mailed[k]}}

LinkWorksOnce ==
  \A k \in Token :
    uses[k] <= Cardinality(Visitor) * (1 + Cardinality(OthersUsed(k)))
=============================================================================
