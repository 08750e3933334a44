--------------------------- MODULE ConsoleReaders ---------------------------
(***************************************************************************)
(* The accounts of the server and the readers page of the admin console:   *)
(* administrators promote, demote, disable, enable, remove and add readers,*)
(* reset their passwords and give them connections for external reader     *)
(* apps, each from a page of their own, while the page of one of them, Me, *)
(* keeps a list that it patches with the answers to its own calls.         *)
(*                                                                         *)
(* A call is allowed by what the server reads first and carried out in a   *)
(* transaction later.  Display names and e-mail addresses are left out; a  *)
(* password is the number of times it was set.                             *)
(***************************************************************************)
EXTENDS Naturals, FiniteSets

CONSTANTS
  Accounts,        \* who may ever have an account
  Admins, Me,      \* the administrators at first; the one whose page this is
  Connections,     \* ids of connections for reader apps
  Calls,           \* calls under way at once
  MaxActs,         \* bound: calls and mailed resets ever made
  MaxPasswords,    \* bound: times one password is set
  None

ASSUME ReadersAssumption ==
  /\ Me \in Admins /\ Admins \subseteq Accounts
  /\ MaxActs \in Nat /\ MaxPasswords \in Nat /\ None \notin Accounts

VARIABLES
  account,     \* server: the row of each account
  password,    \* server: how often its password was set
  connection,  \* server: whose each connection is, and of which password
  signed,      \* where the sign-in of each administrator stands
  call,        \* the calls under way
  list,        \* Me's page: the accounts it shows
  fetch,       \* Me's page: a fetch of that list
  off,         \* history: accounts whose row on Me's page may be out of date
  acts

serverVars  == <<account, password, connection>>
pageVars    == <<list, fetch, off>>
readersVars == <<serverVars, pageVars, signed, call, acts>>

\* "none" was never made, "gone" was removed.
Row == [role : {"none", "gone", "reader", "admin"}, disabled : BOOLEAN]
Absent == [role |-> "none", disabled |-> FALSE]
IsThere(row) == row.role \in {"reader", "admin"}
ActiveAdmin(row) == row.role = "admin" /\ ~row.disabled

Toggles == {"admin", "reader", "disable", "enable"}
Updates == Toggles \cup {"password"}
Kinds == Updates \cup {"remove", "create", "connect", "cut", "self"}
Touches == Updates \cup {"remove", "create"}   \* answered with a row, or none

Call == [phase : {"idle", "asked", "sent", "allowed", "done"}, by : Admins,
         kind : Kinds, user : Accounts, ok : BOOLEAN, row : Row]
NoCall == [phase |-> "idle", by |-> Me, kind |-> "self", user |-> Me,
           ok |-> FALSE, row |-> Absent]

Rows == [Accounts -> Row]
Nothing == [u \in Accounts |-> Absent]
List == [loaded : BOOLEAN, rows : Rows]
Fetch == [phase : {"idle", "answered"}, rows : Rows, off : SUBSET Accounts]
NoFetch == [phase |-> "idle", rows |-> Nothing, off |-> {}]

\* Calls of this page about an account that were carried out, not answered yet.
Unanswered(u) ==
  {c \in Calls : call[c].phase = "done" /\ call[c].kind \in Touches /\ call[c].user = u}

-----------------------------------------------------------------------------
(* The transactions. *)

\* Mutant: the check does not look at who else is active.
OtherAdminDisabledToo(u) == \E v \in Accounts \ {u} : account[v].role = "admin"

\* requireOtherActiveAdmin
OtherAdmin(u) == \E v \in Accounts \ {u} : ActiveAdmin(account[v])

\* Mutant: connections are left to those who hold them.
WithoutNone(u) == connection

\* The connections left when u's are revoked.
Without(u) ==
  [i \in Connections |->
     IF connection[i] /= None /\ connection[i].user = u THEN None ELSE connection[i]]

SetTo(row, kind) ==
  CASE kind \in {"admin", "reader"} -> [row EXCEPT !.role = kind]
    [] kind \in {"disable", "enable"} -> [row EXCEPT !.disabled = (kind = "disable")]
    [] OTHER -> row

Revokes(kind, u) == kind = "password" \/ (kind = "disable" /\ ~account[u].disabled)

SignOut(u) ==
  signed' = [a \in Admins |-> IF a = u /\ signed[a] = "in" THEN "out" ELSE signed[a]]

UpdateUser(kind, u) ==
  LET row == SetTo(account[u], kind) IN
  /\ IsThere(account[u])
  /\ ActiveAdmin(account[u]) /\ ~ActiveAdmin(row) => OtherAdmin(u)
  /\ account' = [account EXCEPT ![u] = row]
  /\ kind = "password" => password[u] < MaxPasswords
  /\ password' = IF kind = "password" THEN [password EXCEPT ![u] = @ + 1] ELSE password
  /\ IF Revokes(kind, u) THEN connection' = Without(u) /\ SignOut(u)
     ELSE UNCHANGED <<connection, signed>>

\* Rows of other tables follow.
DeleteUser(u) ==
  /\ IsThere(account[u]) /\ (ActiveAdmin(account[u]) => OtherAdmin(u))
  /\ account' = [account EXCEPT ![u] = [role |-> "gone", disabled |-> FALSE]]
  /\ connection' = Without(u) /\ SignOut(u)
  /\ UNCHANGED password

CreateReader(u) ==
  /\ account[u] = Absent
  /\ account' = [account EXCEPT ![u].role = "reader"]
  /\ UNCHANGED <<password, connection, signed>>

CreateOPDSCredential(u) ==
  /\ IsThere(account[u]) /\ ~account[u].disabled
  /\ \E i \in Connections :
       /\ connection[i] = None
       /\ connection' = [connection EXCEPT ![i] = [user |-> u, password |-> password[u]]]
  /\ UNCHANGED <<account, password, signed>>

RevokeOPDSCredential(u) ==
  /\ \E i \in Connections :
       /\ connection[i] /= None /\ connection[i].user = u
       /\ connection' = [connection EXCEPT ![i] = None]
  /\ UNCHANGED <<account, password, signed>>

\* The old password was verified before; the caller stays signed in.
UpdateSelf(u) ==
  /\ IsThere(account[u]) /\ password[u] < MaxPasswords
  /\ password' = [password EXCEPT ![u] = @ + 1] /\ connection' = Without(u)
  /\ UNCHANGED <<account, signed>>

Transaction(kind, u) ==
  \/ kind \in Updates /\ UpdateUser(kind, u)
  \/ kind = "remove" /\ DeleteUser(u)
  \/ kind = "create" /\ CreateReader(u)
  \/ kind = "connect" /\ CreateOPDSCredential(u)
  \/ kind = "cut" /\ RevokeOPDSCredential(u)
  \/ kind = "self" /\ UpdateSelf(u)

-----------------------------------------------------------------------------
(* A call, from its page to the transaction. *)

Deny(c) == call' = [call EXCEPT ![c] = IF call[c].by = Me
                                       THEN [@ EXCEPT !.phase = "done"] ELSE NoCall]

\* Read before the transaction: the session, the role, and that nobody
\* changes or removes their own account; for "self", the old password.
Allowed(by, kind, u) ==
  /\ signed[by] = "in"
  /\ IF kind = "self" THEN by = u
     ELSE account[by].role = "admin" /\ (kind \in Toggles \cup {"remove"} => by /= u)

Allow(c) ==
  /\ call[c].phase = "sent"
  /\ IF Allowed(call[c].by, call[c].kind, call[c].user)
     THEN call' = [call EXCEPT ![c].phase = "allowed"] ELSE Deny(c)
  /\ UNCHANGED <<serverVars, pageVars, signed, acts>>

\* A row of Me's page may be wrong once another page changed the account, or
\* an older answer about it is on its way; a list read before does not count.
MayDiffer(c) ==
  LET u == call[c].user IN
  /\ off' = IF call[c].kind \in Touches /\ (call[c].by /= Me \/ Unanswered(u) /= {})
            THEN off \cup {u} ELSE off
  /\ fetch' = IF call[c].kind \in Touches /\ fetch.phase = "answered"
              THEN [fetch EXCEPT !.off = @ \cup {u}] ELSE fetch

Commit(c) ==
  /\ call[c].phase = "allowed"
  /\ Transaction(call[c].kind, call[c].user)
  /\ call' = [call EXCEPT ![c] =
       IF call[c].by = Me
       THEN [@ EXCEPT !.phase = "done", !.ok = TRUE, !.row = account'[call[c].user]]
       ELSE NoCall]
  /\ MayDiffer(c) /\ UNCHANGED <<list, acts>>

\* The transaction is refused (no such account, the last administrator, a
\* disabled account, too many connections) or fails.
Fail(c) ==
  /\ call[c].phase = "allowed" /\ Deny(c)
  /\ UNCHANGED <<serverVars, pageVars, signed, acts>>

\* The account is made, but the invitation cannot be sent.
InviteFails(c) ==
  /\ call[c].phase = "allowed" /\ call[c].kind = "create"
  /\ CreateReader(call[c].user) /\ Deny(c)
  /\ off' = off \cup {call[c].user}
  /\ fetch' = IF fetch.phase = "answered"
              THEN [fetch EXCEPT !.off = @ \cup {call[c].user}] ELSE fetch
  /\ UNCHANGED <<list, acts>>

\* The request never arrives, or its answer is lost.
Lose(c) ==
  /\ call[c].phase \in {"sent", "done"} /\ call[c].by = Me
  /\ call' = [call EXCEPT ![c] = NoCall] /\ off' = off \cup {call[c].user}
  /\ UNCHANGED <<serverVars, list, fetch, signed, acts>>

\* The code in the mail was looked at before: the account may be disabled now.
ResetPassword(u) ==
  /\ acts < MaxActs /\ acts' = acts + 1
  /\ UpdateUser("password", u)
  /\ UNCHANGED <<pageVars, call>>

\* CreateSession: the account is read, then a session is inserted.
CheckPassword(u) ==
  /\ signed[u] = "out" /\ IsThere(account[u]) /\ ~account[u].disabled
  /\ signed' = [signed EXCEPT ![u] = "checked"]
  /\ UNCHANGED <<serverVars, pageVars, call, acts>>

InsertSession(u) ==
  /\ signed[u] = "checked"
  /\ signed' = [signed EXCEPT ![u] = IF IsThere(account[u]) THEN "in" ELSE "out"]
  /\ UNCHANGED <<serverVars, pageVars, call, acts>>

-----------------------------------------------------------------------------
(* The pages. *)

\* What a row of the page offers; its buttons wait for its earlier calls.
Offered(kind, u) ==
  LET row == list.rows[u] IN
  /\ list.loaded /\ IsThere(row)
  /\ kind \in Toggles \cup {"remove"} =>
       /\ u /= Me
       /\ \A c \in Calls : call[c].by = Me /\ call[c].user = u /\ call[c].phase /= "idle" =>
            IF kind = "remove" THEN call[c].kind /= "remove" ELSE call[c].kind \notin Toggles
  /\ kind \in {"admin", "reader"} => kind /= row.role
  /\ kind = "disable" => ~row.disabled
  /\ kind = "enable" => row.disabled
  /\ kind = "connect" => ~row.disabled
  /\ kind \notin {"create", "self"}

Confirmed == {"admin", "reader", "disable", "remove"}

Send(c, by, kind, u) ==
  /\ call[c].phase = "idle" /\ acts < MaxActs /\ acts' = acts + 1
  /\ \A d \in Calls : call[d].phase /= "asked" \/ by /= Me
  /\ IF by /= Me THEN kind /= "self" \/ u = by
     ELSE \/ Offered(kind, u)
          \/ kind = "create"
             /\ \A d \in Calls : call[d].phase = "idle" \/ call[d].kind /= "create"
          \/ kind = "self" /\ u = Me
  /\ kind = "create" => account[u] = Absent
  /\ call' = [call EXCEPT ![c] =
       [NoCall EXCEPT !.phase = IF by = Me /\ kind \in Confirmed THEN "asked" ELSE "sent",
                      !.by = by, !.kind = kind, !.user = u]]
  /\ UNCHANGED <<serverVars, pageVars, signed>>

Confirm(c, yes) ==
  /\ call[c].phase = "asked"
  /\ call' = [call EXCEPT ![c] = IF yes THEN [@ EXCEPT !.phase = "sent"] ELSE NoCall]
  /\ UNCHANGED <<serverVars, pageVars, signed, acts>>

\* Mutant: the row of an account that was removed stays.
PatchedKept(rows, kind, u, row) ==
  CASE kind \in Updates -> IF IsThere(rows[u]) THEN [rows EXCEPT ![u] = row] ELSE rows
    [] kind = "create" -> [rows EXCEPT ![u] = row]
    [] OTHER -> rows

\* setReaders, as each call uses it.
Patched(rows, kind, u, row) ==
  CASE kind \in Updates -> IF IsThere(rows[u]) THEN [rows EXCEPT ![u] = row] ELSE rows
    [] kind = "create" -> [rows EXCEPT ![u] = row]
    [] kind = "remove" -> [rows EXCEPT ![u] = Absent]
    [] OTHER -> rows

Answer(c) ==
  LET a == call[c] IN
  /\ a.phase = "done" /\ call' = [call EXCEPT ![c] = NoCall]
  /\ list' = IF a.ok /\ list.loaded /\ a.kind \in Touches
             THEN [loaded |-> TRUE,
                   rows |-> Patched(list.rows, a.kind, a.user, a.row)]
             ELSE list
  /\ UNCHANGED <<serverVars, fetch, off, signed, acts>>

Visible == [u \in Accounts |-> IF IsThere(account[u]) THEN account[u] ELSE Absent]

\* The page is opened (again), comes online again, or Try again; the server
\* reads the accounts.
ListUsers ==
  /\ fetch.phase = "idle"
  /\ fetch' = [phase |-> "answered", rows |-> Visible,
               off |-> {u \in Accounts : Unanswered(u) /= {}}]
  /\ UNCHANGED <<serverVars, list, off, signed, call, acts>>

Arrive ==
  /\ fetch.phase = "answered"
  /\ list' = [loaded |-> TRUE, rows |-> fetch.rows]
  /\ off' = fetch.off /\ fetch' = NoFetch
  /\ UNCHANGED <<serverVars, signed, call, acts>>

\* Until a later one arrives the page offers nothing.
FetchFails ==
  /\ fetch.phase = "answered" /\ fetch' = NoFetch
  /\ UNCHANGED <<serverVars, list, off, signed, call, acts>>

-----------------------------------------------------------------------------
ReadersInit ==
  /\ account = [u \in Accounts |->
                  IF u \in Admins THEN [role |-> "admin", disabled |-> FALSE] ELSE Absent]
  /\ password = [u \in Accounts |-> 0] /\ connection = [i \in Connections |-> None]
  /\ signed = [a \in Admins |-> "in"]
  /\ call = [c \in Calls |-> NoCall]
  /\ list = [loaded |-> FALSE, rows |-> Nothing]
  /\ fetch = NoFetch /\ off = {} /\ acts = 0

ReadersNext ==
  \/ \E c \in Calls :
       \/ \E by \in Admins, kind \in Kinds, u \in Accounts : Send(c, by, kind, u)
       \/ \E yes \in BOOLEAN : Confirm(c, yes)
       \/ Allow(c) \/ Commit(c) \/ Fail(c) \/ InviteFails(c) \/ Lose(c) \/ Answer(c)
  \/ \E u \in Accounts : ResetPassword(u)
  \/ \E u \in Admins : CheckPassword(u) \/ InsertSession(u)
  \/ ListUsers \/ Arrive \/ FetchFails

ReadersSpec == ReadersInit /\ [][ReadersNext]_readersVars

-----------------------------------------------------------------------------
(* Type correctness of the tables and of the page.                         *)
ReadersTypeOK ==
  /\ account \in Rows /\ password \in [Accounts -> 0 .. MaxPasswords]
  /\ connection \in [Connections -> [user : Accounts, password : 0 .. MaxPasswords] \cup {None}]
  /\ signed \in [Admins -> {"out", "checked", "in"}]
  /\ call \in [Calls -> Call] /\ list \in List /\ fetch \in Fetch
  /\ off \subseteq Accounts /\ acts \in 0 .. MaxActs

(* However the calls of administrators about one another fall, one who can *)
(* sign in remains (identity/store.go: "The last active administrator can  *)
(* be neither demoted nor disabled").                                      *)
AdminRemains == \E u \in Accounts : ActiveAdmin(account[u])

(* A connection for a reader app outlives neither the password nor the     *)
(* enabled account it was made under (docs/opds.md:24).                    *)
ConnectionsCurrent ==
  \A i \in Connections : connection[i] /= None =>
    LET u == connection[i].user IN
    IsThere(account[u]) /\ ~account[u].disabled /\ connection[i].password = password[u]

(* The page keeps its list in step by its answers alone (queries.ts:       *)
(* setReaders, no refetch): but for the accounts that another page has     *)
(* changed, or whose answers were lost or crossed, each row is the         *)
(* server's.                                                               *)
RowsFollow ==
  list.loaded => \A u \in Accounts \ off : Unanswered(u) = {} => list.rows[u] = Visible[u]

=============================================================================
