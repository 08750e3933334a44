------------------------ MODULE ConsoleReadersProofs ------------------------
(***************************************************************************)
(* Proofs about ConsoleReaders, for any accounts, administrators, calls    *)
(* and connections: the tables keep their types, an active administrator   *)
(* remains, and connections are as old as the password they were made      *)
(* under.                                                                  *)
(***************************************************************************)
EXTENDS ConsoleReaders, TLAPS

\* The transactions keep the types of the tables.
LEMMA TransactionType ==
  ASSUME ReadersTypeOK, NEW kind \in Kinds, NEW u \in Accounts, Transaction(kind, u)
  PROVE  /\ account' \in Rows /\ password' \in [Accounts -> 0 .. MaxPasswords]
         /\ connection' \in [Connections -> [user : Accounts, password : 0 .. MaxPasswords] \cup {None}]
         /\ signed' \in [Admins -> {"out", "checked", "in"}]
<1>. USE ReadersAssumption DEF ReadersTypeOK
<1>1. Without(u) \in [Connections -> [user : Accounts, password : 0 .. MaxPasswords] \cup {None}]
  BY DEF Without
<1>2. SignOut(u) => signed' \in [Admins -> {"out", "checked", "in"}]
  BY DEF SignOut
<1>3. CASE UpdateUser(kind, u)
  <2>1. SetTo(account[u], kind) \in Row
    BY DEF SetTo, Rows, Row
  <2>2. account' \in Rows /\ password' \in [Accounts -> 0 .. MaxPasswords]
    BY <1>3, <2>1 DEF UpdateUser, Rows
  <2>. QED  BY <1>1, <1>2, <1>3, <2>2 DEF UpdateUser
<1>4. CASE DeleteUser(u)
  BY <1>1, <1>2, <1>4 DEF DeleteUser, Rows, Row
<1>5. CASE CreateReader(u)
  BY <1>5 DEF CreateReader, Rows, Row
<1>6. CASE CreateOPDSCredential(u)
  BY <1>6 DEF CreateOPDSCredential
<1>7. CASE RevokeOPDSCredential(u)
  BY <1>7 DEF RevokeOPDSCredential
<1>8. CASE UpdateSelf(u)
  BY <1>1, <1>8 DEF UpdateSelf
<1>. QED  BY <1>3, <1>4, <1>5, <1>6, <1>7, <1>8 DEF Transaction

\* An administrator who can sign in is left by every transaction.
LEMMA TransactionAdmin ==
  ASSUME ReadersTypeOK, AdminRemains, NEW kind \in Kinds, NEW u \in Accounts,
         Transaction(kind, u)
  PROVE  AdminRemains'
<1>1. PICK a \in Accounts : ActiveAdmin(account[a])
  BY DEF AdminRemains
<1>2. CASE UpdateUser(kind, u)
  <2>1. account' = [account EXCEPT ![u] = SetTo(account[u], kind)]
    BY <1>2 DEF UpdateUser
  <2>2. CASE ActiveAdmin(account[u]) /\ ~ActiveAdmin(SetTo(account[u], kind))
    <3>1. PICK v \in Accounts \ {u} : ActiveAdmin(account[v])
      BY <1>2, <2>2 DEF UpdateUser, OtherAdmin
    <3>. QED  BY <2>1, <3>1 DEF AdminRemains, ReadersTypeOK, Rows
  <2>3. CASE ~ActiveAdmin(account[u]) \/ ActiveAdmin(SetTo(account[u], kind))
    <3>1. ActiveAdmin(account'[a])
      BY <1>1, <2>1, <2>3 DEF ReadersTypeOK, Rows
    <3>. QED  BY <3>1 DEF AdminRemains
  <2>. QED  BY <2>2, <2>3
<1>3. CASE DeleteUser(u)
  <2>1. PICK v \in Accounts \ {u} : ActiveAdmin(account[v])
    BY <1>1, <1>3 DEF DeleteUser, OtherAdmin
  <2>. QED  BY <1>3, <2>1 DEF DeleteUser, AdminRemains, ReadersTypeOK, Rows
<1>4. CASE CreateReader(u)
  <2>1. a /= u
    BY <1>1, <1>4 DEF CreateReader, ActiveAdmin, Absent
  <2>. QED  BY <1>1, <1>4, <2>1 DEF CreateReader, AdminRemains, ReadersTypeOK, Rows
<1>5. CASE CreateOPDSCredential(u) \/ RevokeOPDSCredential(u) \/ UpdateSelf(u)
  BY <1>1, <1>5 DEF CreateOPDSCredential, RevokeOPDSCredential, UpdateSelf, AdminRemains
<1>. QED  BY <1>2, <1>3, <1>4, <1>5 DEF Transaction

\* No transaction leaves a connection behind what it was made under.
LEMMA TransactionConnections ==
  ASSUME ReadersTypeOK, ConnectionsCurrent, NEW kind \in Kinds, NEW u \in Accounts,
         Transaction(kind, u)
  PROVE  ConnectionsCurrent'
<1>. SUFFICES ASSUME NEW i \in Connections, connection'[i] /= None
              PROVE  LET v == connection'[i].user IN
                     IsThere(account'[v]) /\ ~account'[v].disabled
                     /\ connection'[i].password = password'[v]
  BY DEF ConnectionsCurrent
<1>. DEFINE v == connection'[i].user
<1>1. /\ account \in [Accounts -> Row] /\ password \in [Accounts -> 0 .. MaxPasswords]
      /\ connection \in [Connections -> [user : Accounts, password : 0 .. MaxPasswords] \cup {None}]
  BY DEF ReadersTypeOK, Rows
<1>2. ASSUME connection'[i] = connection[i]
      PROVE  /\ v \in Accounts
             /\ IsThere(account[v]) /\ ~account[v].disabled /\ connection'[i].password = password[v]
  BY <1>1, <1>2 DEF ConnectionsCurrent
<1>3. ASSUME connection' = Without(u)
      PROVE  connection'[i] = connection[i] /\ v /= u
  BY <1>1, <1>3 DEF Without
<1>4. CASE UpdateUser(kind, u)
  <2>1. account' = [account EXCEPT ![u] = SetTo(account[u], kind)]
    BY <1>4 DEF UpdateUser
  <2>2. CASE Revokes(kind, u)
    <3>1. connection' = Without(u) /\ password' \in {password, [password EXCEPT ![u] = @ + 1]}
      BY <1>4, <2>2 DEF UpdateUser
    <3>. QED  BY <1>1, <1>2, <1>3, <2>1, <3>1
  <2>3. CASE ~Revokes(kind, u)
    <3>1. connection' = connection /\ password' = password
      BY <1>4, <2>3 DEF UpdateUser, Revokes
    <3>2. CASE v /= u
      BY <1>1, <1>2, <2>1, <3>1, <3>2
    <3>3. CASE v = u
      <4>1. ~account[u].disabled /\ IsThere(account[u])
        BY <1>2, <3>1, <3>3
      <4>2. kind /= "disable" /\ kind /= "password"
        BY <2>3, <4>1 DEF Revokes
      <4>3. account[u] \in Row /\ account'[u] = SetTo(account[u], kind)
        BY <1>1, <2>1
      <4>4. IsThere(account'[u]) /\ ~account'[u].disabled
        <5>1. CASE kind \in {"admin", "reader"}
          <6>1. account'[u] = [account[u] EXCEPT !.role = kind]
            BY <4>3, <5>1 DEF SetTo
          <6>. QED  BY <4>1, <4>3, <5>1, <6>1 DEF IsThere, Row
        <5>2. CASE kind = "enable"
          <6>1. account'[u] = [account[u] EXCEPT !.disabled = FALSE]
            BY <4>3, <5>2 DEF SetTo
          <6>. QED  BY <4>1, <4>3, <6>1 DEF IsThere, Row
        <5>3. CASE kind \notin {"admin", "reader", "enable"}
          <6>1. account'[u] = account[u]
            BY <4>2, <4>3, <5>3 DEF SetTo
          <6>. QED  BY <4>1, <6>1
        <5>. QED  BY <5>1, <5>2, <5>3
      <4>. QED  BY <1>2, <3>1, <3>3, <4>4
    <3>. QED  BY <3>2, <3>3
  <2>. QED  BY <2>2, <2>3
<1>5. CASE DeleteUser(u)
  BY <1>1, <1>2, <1>3, <1>5 DEF DeleteUser
<1>6. CASE CreateReader(u)
  <2>1. v /= u
    BY <1>2, <1>6 DEF CreateReader, IsThere, Absent
  <2>. QED  BY <1>1, <1>2, <1>6, <2>1 DEF CreateReader
<1>7. CASE CreateOPDSCredential(u)
  BY <1>1, <1>2, <1>7 DEF CreateOPDSCredential
<1>8. CASE RevokeOPDSCredential(u)
  BY <1>1, <1>2, <1>8 DEF RevokeOPDSCredential
<1>9. CASE UpdateSelf(u)
  BY <1>1, <1>2, <1>3, <1>9 DEF UpdateSelf
<1>. QED  BY <1>4, <1>5, <1>6, <1>7, <1>8, <1>9 DEF Transaction

\* Type correctness is inductive.
LEMMA TypeStep ==
  ASSUME ReadersTypeOK, [ReadersNext]_readersVars
  PROVE  ReadersTypeOK'
<1>. USE ReadersAssumption
<1>1. CASE UNCHANGED readersVars
  BY <1>1 DEF ReadersTypeOK, readersVars, serverVars, pageVars
<1>2. NoCall \in Call
  BY DEF NoCall, Call, Kinds, Absent, Row
<1>3. NoFetch \in Fetch /\ Nothing \in Rows
  BY DEF NoFetch, Fetch, Nothing, Rows, Absent, Row
<1>4. ASSUME NEW c \in Calls, Deny(c)
      PROVE  call' \in [Calls -> Call]
  <2>1. [call[c] EXCEPT !.phase = "done"] \in Call
    BY DEF ReadersTypeOK, Call
  <2>. QED  BY <1>2, <1>4, <2>1 DEF Deny, ReadersTypeOK
<1>5. ASSUME NEW c \in Calls, NEW p \in {"idle", "asked", "sent", "allowed", "done"}
      PROVE  [call[c] EXCEPT !.phase = p] \in Call
  BY DEF ReadersTypeOK, Call
<1>6. ASSUME NEW u \in Accounts
      PROVE  [fetch EXCEPT !.off = @ \cup {u}] \in Fetch
  BY DEF ReadersTypeOK, Fetch
<1>7. ASSUME NEW c \in Calls, NEW by \in Admins, NEW kind \in Kinds, NEW u \in Accounts,
             Send(c, by, kind, u)
      PROVE  ReadersTypeOK'
  <2>. DEFINE new == [NoCall EXCEPT !.phase = IF by = Me /\ kind \in Confirmed THEN "asked" ELSE "sent",
                                    !.by = by, !.kind = kind, !.user = u]
  <2>1. new \in Call
    BY <1>2 DEF NoCall, Call
  <2>2. call' = [call EXCEPT ![c] = new]
    BY <1>7 DEF Send
  <2>3. call' \in [Calls -> Call]
    BY <2>1, <2>2 DEF ReadersTypeOK
  <2>4. acts' \in 0 .. MaxActs
    BY <1>7 DEF Send, ReadersTypeOK
  <2>. QED  BY <1>7, <2>3, <2>4 DEF Send, ReadersTypeOK, serverVars, pageVars
<1>8. ASSUME NEW c \in Calls, NEW yes \in BOOLEAN, Confirm(c, yes)
      PROVE  ReadersTypeOK'
  BY <1>2, <1>5, <1>8 DEF Confirm, ReadersTypeOK, serverVars, pageVars
<1>9. ASSUME NEW c \in Calls, Allow(c)
      PROVE  ReadersTypeOK'
  <2>1. call' \in [Calls -> Call]
    BY <1>4, <1>5, <1>9 DEF Allow, ReadersTypeOK
  <2>. QED  BY <1>9, <2>1 DEF Allow, ReadersTypeOK, serverVars, pageVars
<1>10. ASSUME NEW c \in Calls, Commit(c)
       PROVE  ReadersTypeOK'
  <2>. DEFINE kind == call[c].kind
              u == call[c].user
  <2>1. kind \in Kinds /\ u \in Accounts
    BY DEF ReadersTypeOK, Call
  <2>2. /\ account' \in Rows /\ password' \in [Accounts -> 0 .. MaxPasswords]
        /\ connection' \in [Connections -> [user : Accounts, password : 0 .. MaxPasswords] \cup {None}]
        /\ signed' \in [Admins -> {"out", "checked", "in"}]
    BY <1>10, <2>1, TransactionType DEF Commit
  <2>3. account'[u] \in Row
    BY <2>1, <2>2 DEF Rows
  <2>4. [call[c] EXCEPT !.phase = "done", !.ok = TRUE, !.row = account'[u]] \in Call
    BY <2>3 DEF ReadersTypeOK, Call
  <2>5. call' \in [Calls -> Call]
    BY <1>2, <1>10, <2>4 DEF Commit, ReadersTypeOK
  <2>6. off' \subseteq Accounts /\ fetch' \in Fetch
    BY <1>6, <1>10, <2>1 DEF Commit, MayDiffer, ReadersTypeOK
  <2>. QED  BY <1>10, <2>2, <2>5, <2>6 DEF Commit, ReadersTypeOK
<1>11. ASSUME NEW c \in Calls, Fail(c)
       PROVE  ReadersTypeOK'
  BY <1>4, <1>11 DEF Fail, ReadersTypeOK, serverVars, pageVars
<1>12. ASSUME NEW c \in Calls, InviteFails(c)
       PROVE  ReadersTypeOK'
  <2>1. call[c].user \in Accounts
    BY DEF ReadersTypeOK, Call
  <2>2. "create" \in Kinds /\ Transaction("create", call[c].user)
    BY <1>12 DEF InviteFails, Transaction, Kinds
  <2>3. /\ account' \in Rows /\ password' \in [Accounts -> 0 .. MaxPasswords]
        /\ connection' \in [Connections -> [user : Accounts, password : 0 .. MaxPasswords] \cup {None}]
        /\ signed' \in [Admins -> {"out", "checked", "in"}]
    BY <2>1, <2>2, TransactionType
  <2>4. call' \in [Calls -> Call]
    BY <1>4, <1>12 DEF InviteFails
  <2>5. off' \subseteq Accounts /\ fetch' \in Fetch
    BY <1>6, <1>12, <2>1 DEF InviteFails, ReadersTypeOK
  <2>. QED  BY <1>12, <2>3, <2>4, <2>5 DEF InviteFails, ReadersTypeOK
<1>13. ASSUME NEW c \in Calls, Lose(c)
       PROVE  ReadersTypeOK'
  BY <1>2, <1>13 DEF Lose, ReadersTypeOK, Call, serverVars
<1>14. ASSUME NEW c \in Calls, Answer(c)
       PROVE  ReadersTypeOK'
  <2>. DEFINE a == call[c]
              rows == Patched(list.rows, a.kind, a.user, a.row)
  <2>1. a.user \in Accounts /\ a.row \in Row /\ list.rows \in Rows /\ Absent \in Row
    BY DEF ReadersTypeOK, Call, List, Absent, Row
  <2>2. rows \in Rows
    BY <2>1 DEF Patched, Rows
  <2>3. list' \in List
    BY <1>14, <2>2 DEF Answer, ReadersTypeOK, List
  <2>. QED  BY <1>2, <1>14, <2>3 DEF Answer, ReadersTypeOK, serverVars
<1>15. ASSUME NEW u \in Accounts, ResetPassword(u)
       PROVE  ReadersTypeOK'
  <2>1. "password" \in Kinds /\ Transaction("password", u)
    BY <1>15 DEF ResetPassword, Transaction, Kinds, Updates
  <2>2. /\ account' \in Rows /\ password' \in [Accounts -> 0 .. MaxPasswords]
        /\ connection' \in [Connections -> [user : Accounts, password : 0 .. MaxPasswords] \cup {None}]
        /\ signed' \in [Admins -> {"out", "checked", "in"}]
    BY <2>1, TransactionType
  <2>. QED  BY <1>15, <2>2 DEF ResetPassword, ReadersTypeOK, pageVars
<1>16. ASSUME NEW u \in Admins, CheckPassword(u) \/ InsertSession(u)
       PROVE  ReadersTypeOK'
  BY <1>16 DEF CheckPassword, InsertSession, ReadersTypeOK, serverVars, pageVars
<1>17. CASE ListUsers
  <2>1. Visible \in Rows
    BY DEF Visible, ReadersTypeOK, Rows, Row, Absent
  <2>2. fetch' \in Fetch
    BY <1>17, <2>1 DEF ListUsers, Fetch
  <2>. QED  BY <1>17, <2>2 DEF ListUsers, ReadersTypeOK, serverVars
<1>18. CASE Arrive
  BY <1>3, <1>18 DEF Arrive, ReadersTypeOK, Fetch, List, serverVars
<1>19. CASE FetchFails
  BY <1>3, <1>19 DEF FetchFails, ReadersTypeOK, serverVars
<1>. QED
  BY <1>1, <1>7, <1>8, <1>9, <1>10, <1>11, <1>12, <1>13, <1>14, <1>15, <1>16, <1>17, <1>18, <1>19
  DEF ReadersNext

\* Only transactions change the accounts, the passwords and the connections.
LEMMA TablesChange ==
  ASSUME ReadersTypeOK, [ReadersNext]_readersVars
  PROVE  \/ UNCHANGED serverVars
         \/ \E kind \in Kinds, u \in Accounts : Transaction(kind, u)
<1>1. ASSUME NEW c \in Calls
      PROVE  call[c].kind \in Kinds /\ call[c].user \in Accounts
  BY DEF ReadersTypeOK, Call
<1>2. ASSUME NEW c \in Calls, Commit(c)
      PROVE  \E kind \in Kinds, u \in Accounts : Transaction(kind, u)
  BY <1>1, <1>2 DEF Commit
<1>3. ASSUME NEW c \in Calls, InviteFails(c)
      PROVE  \E kind \in Kinds, u \in Accounts : Transaction(kind, u)
  BY <1>1, <1>3 DEF InviteFails, Transaction
<1>4. ASSUME NEW u \in Accounts, ResetPassword(u)
      PROVE  Transaction("password", u) /\ "password" \in Kinds
  BY <1>4 DEF ResetPassword, Transaction, Kinds, Updates
<1>. QED
  BY <1>2, <1>3, <1>4
  DEF ReadersNext, readersVars, Send, Confirm, Allow, Fail, Lose, Answer, CheckPassword,
      InsertSession, ListUsers, Arrive, FetchFails

\* Type correctness of the tables and of the readers page.
THEOREM ReadersTypeCorrect == ReadersSpec => []ReadersTypeOK
<1>1. ReadersInit => ReadersTypeOK
  BY ReadersAssumption
  DEF ReadersInit, ReadersTypeOK, Rows, Row, Absent, Nothing, NoCall, Call, Kinds, List, Fetch, NoFetch
<1>2. ReadersTypeOK /\ [ReadersNext]_readersVars => ReadersTypeOK'
  BY TypeStep
<1>. QED  BY <1>1, <1>2, PTL DEF ReadersSpec

\* However the calls of administrators about one another fall, an
\* administrator who is not disabled remains (requireOtherActiveAdmin).
THEOREM ReadersAdminRemains == ReadersSpec => []AdminRemains
<1>1. ReadersInit => AdminRemains
  BY ReadersAssumption DEF ReadersInit, AdminRemains, ActiveAdmin
<1>2. ReadersTypeOK /\ AdminRemains /\ [ReadersNext]_readersVars => AdminRemains'
  <2>. SUFFICES ASSUME ReadersTypeOK, AdminRemains, [ReadersNext]_readersVars
                PROVE  AdminRemains'
    OBVIOUS
  <2>1. CASE UNCHANGED serverVars
    BY <2>1 DEF AdminRemains, serverVars
  <2>. QED  BY <2>1, TablesChange, TransactionAdmin
<1>. QED  BY <1>1, <1>2, ReadersTypeCorrect, PTL DEF ReadersSpec

\* A connection for a reader app is of an enabled account and of its present
\* password (RevokeOPDSCredentials in the transactions that end either).
THEOREM ReadersConnectionsCurrent == ReadersSpec => []ConnectionsCurrent
<1>1. ReadersInit => ConnectionsCurrent
  BY DEF ReadersInit, ConnectionsCurrent
<1>2. ReadersTypeOK /\ ConnectionsCurrent /\ [ReadersNext]_readersVars => ConnectionsCurrent'
  <2>. SUFFICES ASSUME ReadersTypeOK, ConnectionsCurrent, [ReadersNext]_readersVars
                PROVE  ConnectionsCurrent'
    OBVIOUS
  <2>1. CASE UNCHANGED serverVars
    BY <2>1 DEF ConnectionsCurrent, serverVars
  <2>. QED  BY <2>1, TablesChange, TransactionConnections
<1>. QED  BY <1>1, <1>2, ReadersTypeCorrect, PTL DEF ReadersSpec

-----------------------------------------------------------------------------
(* The rows of the page. *)

\* Calls about an account that were carried out and not answered yet.
Carried(u) == {c \in Unanswered(u) : call[c].ok}

\* A row is the server's, or will be once the one answer on its way is there;
\* a list read before a call about an account was carried out does not count.
RowsInv ==
  /\ \A c \in Calls : call[c].ok => call[c].phase = "done"
  /\ list.loaded => \A u \in Accounts \ off :
       /\ Carried(u) = {} => list.rows[u] = Visible[u]
       /\ \A c \in Carried(u) :
            /\ Patched(list.rows, call[c].kind, u, call[c].row)[u] = Visible[u]
            /\ \A d \in Carried(u) : d = c
  /\ fetch.phase = "answered" => \A u \in Accounts \ fetch.off :
       Carried(u) = {} /\ fetch.rows[u] = Visible[u]

\* A step of a call that was not carried out, and is not now, leaves them.
LEMMA CarriedSame ==
  ASSUME ReadersTypeOK, NEW c \in Calls, NEW new \in Call,
         call' = [call EXCEPT ![c] = new], ~new.ok, ~call[c].ok
  PROVE  \A u \in Accounts : /\ Carried(u)' = Carried(u)
                             /\ \A d \in Carried(u) : call'[d] = call[d]
BY DEF ReadersTypeOK, Carried, Unanswered

\* So does a step that leaves the accounts and the page alone.
LEMMA RowsSame ==
  ASSUME ReadersTypeOK, RowsInv, UNCHANGED <<account, pageVars>>,
         NEW c \in Calls, NEW new \in Call,
         call' = [call EXCEPT ![c] = new], ~new.ok, ~call[c].ok
  PROVE  RowsInv'
<1>1. \A u \in Accounts : /\ Carried(u)' = Carried(u)
                          /\ \A d \in Carried(u) : call'[d] = call[d]
  BY CarriedSame
<1>2. list' = list /\ off' = off /\ fetch' = fetch /\ Visible' = Visible
  BY DEF pageVars, Visible
<1>3. \A d \in Calls : call'[d].ok => call'[d].phase = "done"
  BY DEF RowsInv, ReadersTypeOK
<1>4. ASSUME list'.loaded, NEW u \in Accounts \ off'
      PROVE  /\ Carried(u)' = {} => list'.rows[u] = Visible'[u]
             /\ \A d \in Carried(u)' :
                  /\ Patched(list'.rows, call'[d].kind, u, call'[d].row)[u] = Visible'[u]
                  /\ \A e \in Carried(u)' : e = d
  BY <1>1, <1>2, <1>4 DEF RowsInv
<1>5. ASSUME fetch'.phase = "answered", NEW u \in Accounts \ fetch'.off
      PROVE  Carried(u)' = {} /\ fetch'.rows[u] = Visible'[u]
  BY <1>1, <1>2, <1>5 DEF RowsInv
<1>. QED  BY <1>3, <1>4, <1>5 DEF RowsInv, Patched

\* A transaction changes the account it is about, and the row it answers with
\* is that account's.
LEMMA TransactionRow ==
  ASSUME ReadersTypeOK, NEW kind \in Kinds, NEW u \in Accounts, Transaction(kind, u)
  PROVE  /\ \A v \in Accounts \ {u} : account'[v] = account[v]
         /\ kind \notin Touches => account' = account
         /\ kind \in Touches => \A rows \in Rows : rows[u] = Visible[u] =>
              Patched(rows, kind, u, account'[u])[u] = Visible'[u]
<1>1. account \in [Accounts -> Row]
  BY DEF ReadersTypeOK, Rows
<1>2. CASE kind \in Updates /\ UpdateUser(kind, u)
  <2>1. account' = [account EXCEPT ![u] = SetTo(account[u], kind)] /\ IsThere(account[u])
    BY <1>2 DEF UpdateUser
  <2>2. IsThere(SetTo(account[u], kind))
    <3>1. CASE kind \in {"admin", "reader"}
      BY <1>1, <3>1 DEF SetTo, IsThere, Row
    <3>2. CASE kind \in {"disable", "enable"}
      <4>1. SetTo(account[u], kind) = [account[u] EXCEPT !.disabled = (kind = "disable")]
        BY <3>2 DEF SetTo
      <4>. QED  BY <1>1, <2>1, <4>1 DEF IsThere, Row
    <3>3. CASE kind \notin {"admin", "reader", "disable", "enable"}
      <4>1. SetTo(account[u], kind) = account[u]
        BY <3>3 DEF SetTo
      <4>. QED  BY <2>1, <4>1
    <3>. QED  BY <3>1, <3>2, <3>3
  <2>3. Visible[u] = account[u] /\ Visible'[u] = account'[u]
    BY <1>1, <2>1, <2>2 DEF Visible
  <2>4. ASSUME NEW rows \in Rows, rows[u] = Visible[u]
        PROVE  Patched(rows, kind, u, account'[u])[u] = account'[u]
    <3>0. IsThere(rows[u]) /\ kind \in Updates
      BY <1>2, <2>1, <2>3, <2>4
    <3>1. Patched(rows, kind, u, account'[u]) = [rows EXCEPT ![u] = account'[u]]
      BY ONLY <3>0 DEF Patched, Updates, Toggles
    <3>. QED  BY <2>4, <3>1 DEF Rows
  <2>. QED  BY <1>1, <1>2, <2>1, <2>3, <2>4 DEF Touches
<1>3. CASE kind = "remove" /\ DeleteUser(u)
  <2>1. Visible'[u] = Absent
    BY <1>1, <1>3 DEF DeleteUser, Visible, IsThere
  <2>2. ASSUME NEW rows \in Rows
        PROVE  Patched(rows, kind, u, account'[u])[u] = Absent
    <3>1. Patched(rows, kind, u, account'[u]) = [rows EXCEPT ![u] = Absent]
      BY <1>3 DEF Patched, Updates, Toggles
    <3>. QED  BY <3>1 DEF Rows
  <2>. QED  BY <1>1, <1>3, <2>1, <2>2 DEF DeleteUser, Touches
<1>4. CASE kind = "create" /\ CreateReader(u)
  <2>1. Visible'[u] = account'[u]
    BY <1>1, <1>4 DEF CreateReader, Visible, IsThere, Row
  <2>2. ASSUME NEW rows \in Rows
        PROVE  Patched(rows, kind, u, account'[u])[u] = account'[u]
    <3>1. Patched(rows, kind, u, account'[u]) = [rows EXCEPT ![u] = account'[u]]
      BY <1>4 DEF Patched, Updates, Toggles
    <3>. QED  BY <3>1 DEF Rows
  <2>. QED  BY <1>1, <1>4, <2>1, <2>2 DEF CreateReader, Touches
<1>5. CASE /\ kind \in {"connect", "cut", "self"}
           /\ CreateOPDSCredential(u) \/ RevokeOPDSCredential(u) \/ UpdateSelf(u)
  BY <1>5 DEF CreateOPDSCredential, RevokeOPDSCredential, UpdateSelf, Touches, Updates, Toggles
<1>. QED  BY <1>2, <1>3, <1>4, <1>5 DEF Transaction

\* A call that is carried out keeps the page in step.
LEMMA CommitRows ==
  ASSUME ReadersTypeOK, RowsInv, NEW c \in Calls, Commit(c)
  PROVE  RowsInv'
<1>. DEFINE u == call[c].user
            kind == call[c].kind
            new == IF call[c].by = Me
                   THEN [call[c] EXCEPT !.phase = "done", !.ok = TRUE, !.row = account'[u]]
                   ELSE NoCall
<1>1. /\ u \in Accounts /\ kind \in Kinds /\ Transaction(kind, u) /\ call[c].phase = "allowed"
      /\ list' = list /\ MayDiffer(c) /\ call' = [call EXCEPT ![c] = new] /\ ~call[c].ok
  BY DEF Commit, ReadersTypeOK, Call, RowsInv
<1>2. /\ \A v \in Accounts \ {u} : account'[v] = account[v]
      /\ kind \notin Touches => account' = account
      /\ kind \in Touches => \A rows \in Rows : rows[u] = Visible[u] =>
           Patched(rows, kind, u, account'[u])[u] = Visible'[u]
  BY <1>1, TransactionRow
<1>3. \A v \in Accounts : v /= u \/ kind \notin Touches => Visible'[v] = Visible[v]
  BY <1>2 DEF Visible
<1>4. call'[c] = new /\ \A d \in Calls \ {c} : call'[d] = call[d]
  BY <1>1 DEF ReadersTypeOK
<1>5. new.ok => new.phase = "done" /\ new.kind = kind /\ new.user = u /\ new.row = account'[u]
                /\ call[c].by = Me
  BY DEF NoCall, ReadersTypeOK, Call
<1>6. ASSUME NEW v \in Accounts
      PROVE  Carried(v)' = Carried(v) \cup
               (IF v = u /\ kind \in Touches /\ call[c].by = Me THEN {c} ELSE {})
  <2>1. c \notin Carried(v)
    BY <1>1 DEF Carried
  <2>2. \A d \in Calls \ {c} : d \in Carried(v)' <=> d \in Carried(v)
    BY <1>4 DEF Carried, Unanswered
  <2>3. c \in Carried(v)' <=> v = u /\ kind \in Touches /\ call[c].by = Me
    <3>1. CASE call[c].by = Me
      <4>1. /\ call'[c].phase = "done" /\ call'[c].ok /\ call'[c].kind = kind /\ call'[c].user = u
        BY <1>4, <3>1 DEF ReadersTypeOK, Call
      <4>. QED  BY <3>1, <4>1 DEF Carried, Unanswered
    <3>2. CASE call[c].by /= Me
      BY <1>4, <3>2 DEF Carried, Unanswered, NoCall
    <3>. QED  BY <3>1, <3>2
  <2>4. Carried(v) \subseteq Calls /\ Carried(v)' \subseteq Calls
    BY DEF Carried, Unanswered
  <2>. QED  BY <2>1, <2>2, <2>3, <2>4
<1>7. \A d \in Calls : call'[d].ok => call'[d].phase = "done"
  <2>1. new.ok => new.phase = "done"
    BY <1>5
  <2>2. \A d \in Calls : call[d].ok => call[d].phase = "done"
    BY DEF RowsInv
  <2>3. ASSUME NEW d \in Calls, call'[d].ok
        PROVE  call'[d].phase = "done"
    <3>. HIDE DEF new
    <3>1. CASE d = c
      BY <1>4, <2>1, <2>3, <3>1
    <3>2. CASE d /= c
      BY <1>4, <2>2, <2>3, <3>2
    <3>. QED  BY <3>1, <3>2
  <2>. QED  BY <2>3
<1>8. ASSUME list'.loaded, NEW v \in Accounts \ off'
      PROVE  /\ Carried(v)' = {} => list'.rows[v] = Visible'[v]
             /\ \A d \in Carried(v)' :
                  /\ Patched(list'.rows, call'[d].kind, v, call'[d].row)[v] = Visible'[v]
                  /\ \A e \in Carried(v)' : e = d
  <2>1. v \notin off
    BY <1>1, <1>8 DEF MayDiffer
  <2>2. CASE v = u /\ kind \in Touches
    <3>1. call[c].by = Me /\ Unanswered(u) = {}
      BY <1>1, <1>8, <2>2 DEF MayDiffer
    <3>2. Carried(v) = {} /\ Carried(v)' = {c}
      BY <1>6, <2>2, <3>1 DEF Carried
    <3>3. list.rows \in Rows /\ list.rows[u] = Visible[u]
      BY <1>1, <1>8, <2>1, <2>2, <3>2 DEF RowsInv, ReadersTypeOK, List
    <3>4. call'[c].kind = kind /\ call'[c].row = account'[u]
      BY <1>4, <3>1 DEF ReadersTypeOK, Call
    <3>5. Patched(list.rows, kind, u, account'[u])[u] = Visible'[u]
      BY <1>2, <2>2, <3>3
    <3>. QED  BY <1>1, <2>2, <3>2, <3>4, <3>5
  <2>3. CASE ~(v = u /\ kind \in Touches)
    <3>1. Visible'[v] = Visible[v] /\ Carried(v)' = Carried(v)
      BY <1>3, <1>6, <2>3
    <3>2. \A d \in Carried(v) : call'[d] = call[d]
      BY <1>1, <1>4 DEF Carried, Unanswered
    <3>3. /\ Carried(v) = {} => list.rows[v] = Visible[v]
          /\ \A d \in Carried(v) :
               /\ Patched(list.rows, call[d].kind, v, call[d].row)[v] = Visible[v]
               /\ \A e \in Carried(v) : e = d
      BY <1>1, <1>8, <2>1 DEF RowsInv
    <3>. QED  BY ONLY <1>1, <3>1, <3>2, <3>3
  <2>. QED  BY <2>2, <2>3
<1>9. ASSUME fetch'.phase = "answered", NEW v \in Accounts \ fetch'.off
      PROVE  Carried(v)' = {} /\ fetch'.rows[v] = Visible'[v]
  <2>1. /\ fetch.phase = "answered" /\ fetch'.rows = fetch.rows /\ v \notin fetch.off
        /\ ~(v = u /\ kind \in Touches)
    BY <1>1, <1>9 DEF MayDiffer, ReadersTypeOK, Fetch
  <2>. QED  BY <1>3, <1>6, <2>1 DEF RowsInv
<1>. QED  BY <1>7, <1>8, <1>9 DEF RowsInv, Patched

\* An answer leaves the row it is about as the server has it.
LEMMA AnswerRows ==
  ASSUME ReadersTypeOK, RowsInv, NEW c \in Calls, Answer(c)
  PROVE  RowsInv'
<1>. DEFINE u == call[c].user
            kind == call[c].kind
            rows == Patched(list.rows, kind, u, call[c].row)
<1>1. /\ u \in Accounts /\ kind \in Kinds /\ call[c].phase = "done"
      /\ call' = [call EXCEPT ![c] = NoCall] /\ fetch' = fetch /\ off' = off
      /\ Visible' = Visible /\ list'.loaded = list.loaded
  BY DEF Answer, serverVars, ReadersTypeOK, Call, Visible, List
<1>2. call'[c] = NoCall /\ \A d \in Calls \ {c} : call'[d] = call[d]
  BY <1>1 DEF ReadersTypeOK
<1>3. ASSUME NEW v \in Accounts
      PROVE  Carried(v)' = Carried(v) \ {c}
  <2>1. c \notin Carried(v)'
    BY <1>2 DEF Carried, NoCall
  <2>2. \A d \in Calls \ {c} : d \in Carried(v)' <=> d \in Carried(v)
    BY <1>2 DEF Carried, Unanswered
  <2>3. Carried(v) \subseteq Calls /\ Carried(v)' \subseteq Calls
    BY DEF Carried, Unanswered
  <2>. QED  BY <2>1, <2>2, <2>3
<1>4. \A d \in Calls : call'[d].ok => call'[d].phase = "done"
  <2>1. \A d \in Calls : call[d].ok => call[d].phase = "done"
    BY DEF RowsInv
  <2>2. ~call'[c].ok
    BY <1>2 DEF NoCall
  <2>. QED  BY <1>2, <2>1, <2>2
<1>5. ASSUME list'.loaded, NEW v \in Accounts \ off'
      PROVE  /\ Carried(v)' = {} => list'.rows[v] = Visible'[v]
             /\ \A d \in Carried(v)' :
                  /\ Patched(list'.rows, call'[d].kind, v, call'[d].row)[v] = Visible'[v]
                  /\ \A e \in Carried(v)' : e = d
  <2>1. /\ Carried(v) = {} => list.rows[v] = Visible[v]
        /\ \A d \in Carried(v) :
             /\ Patched(list.rows, call[d].kind, v, call[d].row)[v] = Visible[v]
             /\ \A e \in Carried(v) : e = d
    BY <1>1, <1>5 DEF RowsInv
  <2>2. CASE c \in Carried(v)
    <3>1. v = u /\ call[c].ok /\ kind \in Touches
      BY <2>2 DEF Carried, Unanswered
    <3>2. list'.rows = rows
      BY <1>1, <1>5, <3>1 DEF Answer
    <3>3. Carried(v)' = {}
      BY <1>3, <2>1, <2>2
    <3>. QED  BY <1>1, <2>1, <2>2, <3>1, <3>2, <3>3
  <2>3. CASE c \notin Carried(v)
    <3>1. list'.rows[v] = list.rows[v]
      <4>1. CASE call[c].ok /\ kind \in Touches
        <5>1. v /= u
          BY <1>1, <2>3, <4>1 DEF Carried, Unanswered
        <5>2. rows[v] = list.rows[v]
          BY <1>1, <5>1 DEF Patched, ReadersTypeOK, List, Rows
        <5>. QED  BY <1>1, <1>5, <4>1, <5>2 DEF Answer
      <4>2. CASE ~(call[c].ok /\ kind \in Touches)
        BY <4>2 DEF Answer
      <4>. QED  BY <4>1, <4>2
    <3>2. Carried(v)' = Carried(v) /\ \A d \in Carried(v) : call'[d] = call[d]
      BY <1>2, <1>3, <2>3 DEF Carried, Unanswered
    <3>3. list.rows \in Rows /\ list'.rows \in Rows
      <4>1. ReadersTypeOK'
        BY TypeStep DEF ReadersNext
      <4>. QED  BY <4>1 DEF ReadersTypeOK, List
    <3>4. ASSUME NEW d \in Carried(v)
          PROVE  Patched(list'.rows, call[d].kind, v, call[d].row)[v]
                 = Patched(list.rows, call[d].kind, v, call[d].row)[v]
      BY <3>1, <3>3 DEF Patched, Rows
    <3>. QED  BY <1>1, <2>1, <3>1, <3>2, <3>4
  <2>. QED  BY <2>2, <2>3
<1>6. ASSUME fetch'.phase = "answered", NEW v \in Accounts \ fetch'.off
      PROVE  Carried(v)' = {} /\ fetch'.rows[v] = Visible'[v]
  <2>1. Carried(v) = {} /\ fetch.rows[v] = Visible[v]
    BY <1>1, <1>6 DEF RowsInv
  <2>. QED  BY <1>1, <1>3, <2>1
<1>. QED  BY <1>4, <1>5, <1>6 DEF RowsInv, Patched

\* The page stays in step.
LEMMA RowsStep ==
  ASSUME ReadersTypeOK, RowsInv, [ReadersNext]_readersVars
  PROVE  RowsInv'
<1>1. CASE UNCHANGED readersVars
  BY <1>1 DEF RowsInv, readersVars, serverVars, pageVars, Carried, Unanswered, Visible, Patched
<1>2. NoCall \in Call /\ ~NoCall.ok
  BY ReadersAssumption DEF NoCall, Call, Kinds, Absent, Row
<1>3. ASSUME NEW c \in Calls, call[c].phase /= "done"
      PROVE  ~call[c].ok
  BY <1>3 DEF RowsInv
<1>4. ASSUME NEW c \in Calls, call[c].phase /= "done", Deny(c)
      PROVE  \E new \in Call : call' = [call EXCEPT ![c] = new] /\ ~new.ok
  <2>1. call[c] \in Call /\ ~call[c].ok
    BY <1>3, <1>4 DEF ReadersTypeOK
  <2>2. [call[c] EXCEPT !.phase = "done"] \in Call /\ ~[call[c] EXCEPT !.phase = "done"].ok
    BY <2>1 DEF Call
  <2>. QED  BY <1>2, <1>4, <2>2 DEF Deny
<1>5. ASSUME NEW c \in Calls, NEW by \in Admins, NEW kind \in Kinds, NEW u \in Accounts,
             Send(c, by, kind, u)
      PROVE  RowsInv'
  <2>. DEFINE new == [NoCall EXCEPT !.phase = IF by = Me /\ kind \in Confirmed THEN "asked" ELSE "sent",
                                    !.by = by, !.kind = kind, !.user = u]
  <2>1. new \in Call /\ ~new.ok
    BY <1>2 DEF NoCall, Call
  <2>2. call' = [call EXCEPT ![c] = new] /\ ~call[c].ok /\ UNCHANGED <<account, pageVars>>
    BY <1>3, <1>5 DEF Send, serverVars
  <2>. HIDE DEF new
  <2>. QED  BY <2>1, <2>2, RowsSame
<1>6. ASSUME NEW c \in Calls, NEW yes \in BOOLEAN, Confirm(c, yes)
      PROVE  RowsInv'
  <2>. DEFINE new == IF yes THEN [call[c] EXCEPT !.phase = "sent"] ELSE NoCall
  <2>1. ~call[c].ok /\ call[c] \in Call
    BY <1>3, <1>6 DEF Confirm, ReadersTypeOK
  <2>2. new \in Call /\ ~new.ok
    BY <1>2, <2>1 DEF Call
  <2>3. call' = [call EXCEPT ![c] = new] /\ UNCHANGED <<account, pageVars>>
    BY <1>6 DEF Confirm, serverVars
  <2>. HIDE DEF new
  <2>. QED  BY <2>1, <2>2, <2>3, RowsSame
<1>7. ASSUME NEW c \in Calls, Allow(c)
      PROVE  RowsInv'
  <2>1. ~call[c].ok /\ call[c] \in Call /\ UNCHANGED <<account, pageVars>>
    BY <1>3, <1>7 DEF Allow, ReadersTypeOK, serverVars
  <2>2. [call[c] EXCEPT !.phase = "allowed"] \in Call /\ ~[call[c] EXCEPT !.phase = "allowed"].ok
    BY <2>1 DEF Call
  <2>3. \E new \in Call : call' = [call EXCEPT ![c] = new] /\ ~new.ok
    BY <1>4, <1>7, <2>2 DEF Allow
  <2>. QED  BY <2>1, <2>3, RowsSame
<1>8. ASSUME NEW c \in Calls, Fail(c)
      PROVE  RowsInv'
  <2>1. ~call[c].ok /\ UNCHANGED <<account, pageVars>>
    BY <1>3, <1>8 DEF Fail, serverVars
  <2>2. \E new \in Call : call' = [call EXCEPT ![c] = new] /\ ~new.ok
    BY <1>4, <1>8 DEF Fail
  <2>. QED  BY <2>1, <2>2, RowsSame
<1>9. ASSUME NEW c \in Calls, NEW new \in Call, call' = [call EXCEPT ![c] = new], ~new.ok,
             NEW u \in Accounts, u = call[c].user, list' = list,
             \A v \in Accounts \ {u} : account'[v] = account[v],
             off' = off \cup {u},
             \/ ~call[c].ok /\ fetch' = IF fetch.phase = "answered"
                                       THEN [fetch EXCEPT !.off = @ \cup {u}] ELSE fetch
             \/ account' = account /\ fetch' = fetch
      PROVE  RowsInv'
  <2>1. call'[c] = new /\ \A d \in Calls \ {c} : call'[d] = call[d]
    BY <1>9 DEF ReadersTypeOK
  <2>2. ASSUME NEW v \in Accounts
        PROVE  Carried(v)' = Carried(v) \ {c}
    <3>1. c \notin Carried(v)'
      BY <1>9, <2>1 DEF Carried
    <3>2. \A d \in Calls \ {c} : d \in Carried(v)' <=> d \in Carried(v)
      BY <2>1 DEF Carried, Unanswered
    <3>3. Carried(v) \subseteq Calls /\ Carried(v)' \subseteq Calls
      BY DEF Carried, Unanswered
    <3>. QED  BY <3>1, <3>2, <3>3
  <2>3. \A v \in Accounts \ {u} : Visible'[v] = Visible[v] /\ Carried(v)' = Carried(v)
                                 /\ \A d \in Carried(v) : call'[d] = call[d]
    BY <1>9, <2>1, <2>2 DEF Visible, Carried, Unanswered
  <2>4. \A d \in Calls : call'[d].ok => call'[d].phase = "done"
    <3>1. \A d \in Calls : call[d].ok => call[d].phase = "done"
      BY DEF RowsInv
    <3>2. ~call'[c].ok
      BY <1>9, <2>1
    <3>. QED  BY <2>1, <3>1, <3>2
  <2>5. ASSUME list'.loaded, NEW v \in Accounts \ off'
        PROVE  /\ Carried(v)' = {} => list'.rows[v] = Visible'[v]
               /\ \A d \in Carried(v)' :
                    /\ Patched(list'.rows, call'[d].kind, v, call'[d].row)[v] = Visible'[v]
                    /\ \A e \in Carried(v)' : e = d
    <3>1. list.loaded /\ v \in Accounts \ off /\ v /= u /\ list' = list
      BY <1>9, <2>5
    <3>2. /\ Carried(v) = {} => list.rows[v] = Visible[v]
          /\ \A d \in Carried(v) :
               /\ Patched(list.rows, call[d].kind, v, call[d].row)[v] = Visible[v]
               /\ \A e \in Carried(v) : e = d
      BY <3>1 DEF RowsInv
    <3>. QED  BY <2>3, <3>1, <3>2
  <2>6. ASSUME fetch'.phase = "answered", NEW v \in Accounts \ fetch'.off
        PROVE  Carried(v)' = {} /\ fetch'.rows[v] = Visible'[v]
    <3>1. fetch.phase = "answered" /\ fetch'.rows = fetch.rows /\ v \notin fetch.off
          /\ (v /= u \/ account' = account)
      BY <1>9, <2>6 DEF ReadersTypeOK, Fetch
    <3>2. Visible'[v] = Visible[v]
      BY <2>3, <3>1 DEF Visible
    <3>3. Carried(v) = {} /\ fetch.rows[v] = Visible[v]
      BY <3>1 DEF RowsInv
    <3>. QED  BY <2>2, <3>1, <3>2, <3>3
  <2>. QED  BY <2>4, <2>5, <2>6 DEF RowsInv, Patched
<1>10. ASSUME NEW c \in Calls, InviteFails(c)
       PROVE  RowsInv'
  <2>1. call[c].user \in Accounts /\ ~call[c].ok
    BY <1>3, <1>10 DEF InviteFails, ReadersTypeOK, Call
  <2>2. \E new \in Call : call' = [call EXCEPT ![c] = new] /\ ~new.ok
    BY <1>4, <1>10 DEF InviteFails
  <2>3. /\ \A v \in Accounts \ {call[c].user} : account'[v] = account[v]
        /\ off' = off \cup {call[c].user} /\ list' = list
        /\ fetch' = IF fetch.phase = "answered"
                    THEN [fetch EXCEPT !.off = @ \cup {call[c].user}] ELSE fetch
    BY <1>10 DEF InviteFails, CreateReader, ReadersTypeOK, Rows
  <2>. QED  BY <1>9, <2>1, <2>2, <2>3
<1>11. ASSUME NEW c \in Calls, Lose(c)
       PROVE  RowsInv'
  <2>1. /\ call[c].user \in Accounts /\ account' = account /\ fetch' = fetch /\ list' = list
        /\ call' = [call EXCEPT ![c] = NoCall] /\ off' = off \cup {call[c].user}
    BY <1>11 DEF Lose, serverVars, ReadersTypeOK, Call
  <2>. QED  BY <1>2, <1>9, <2>1
<1>12. ASSUME NEW u \in Accounts, ResetPassword(u)
       PROVE  RowsInv'
  <2>1. SetTo(account[u], "password") = account[u]
    BY DEF SetTo
  <2>2. account' = account /\ UNCHANGED <<pageVars, call>>
    BY <1>12, <2>1 DEF ResetPassword, UpdateUser, ReadersTypeOK, Rows
  <2>. QED  BY <2>2 DEF RowsInv, pageVars, Carried, Unanswered, Visible, Patched
<1>13. ASSUME NEW u \in Admins, CheckPassword(u) \/ InsertSession(u)
       PROVE  RowsInv'
  <2>1. account' = account /\ UNCHANGED <<pageVars, call>>
    BY <1>13 DEF CheckPassword, InsertSession, serverVars
  <2>. QED  BY <2>1 DEF RowsInv, pageVars, Carried, Unanswered, Visible, Patched
<1>14. CASE ListUsers
  <2>1. /\ account' = account /\ call' = call /\ list' = list /\ off' = off
        /\ fetch'.rows = Visible /\ fetch'.off = {u \in Accounts : Unanswered(u) /= {}}
    BY <1>14 DEF ListUsers, serverVars
  <2>2. \A v \in Accounts \ fetch'.off : Carried(v)' = {} /\ fetch'.rows[v] = Visible'[v]
    BY <2>1 DEF Carried, Unanswered, Visible
  <2>. QED  BY <2>1, <2>2 DEF RowsInv, Carried, Unanswered, Visible, Patched
<1>15. CASE Arrive
  <2>1. /\ account' = account /\ call' = call /\ list'.rows = fetch.rows /\ off' = fetch.off
        /\ fetch.phase = "answered" /\ fetch'.phase = "idle"
    BY <1>15 DEF Arrive, serverVars, NoFetch
  <2>2. \A v \in Accounts \ off' : Carried(v)' = {} /\ list'.rows[v] = Visible'[v]
    BY <2>1 DEF RowsInv, Carried, Unanswered, Visible
  <2>. QED  BY <2>1, <2>2 DEF RowsInv
<1>16. CASE FetchFails
  <2>1. account' = account /\ call' = call /\ list' = list /\ off' = off /\ fetch'.phase = "idle"
    BY <1>16 DEF FetchFails, serverVars, NoFetch
  <2>. QED  BY <2>1 DEF RowsInv, Carried, Unanswered, Visible, Patched
<1>. QED
  BY <1>1, <1>5, <1>6, <1>7, <1>8, <1>10, <1>11, <1>12, <1>13, <1>14, <1>15, <1>16,
     CommitRows, AnswerRows
  DEF ReadersNext

\* The page's list follows the server by its answers alone, but for accounts
\* that another page changed or whose answers were lost or crossed
\* (queries.ts: setReaders).
THEOREM ReadersRowsFollow == ReadersSpec => []RowsFollow
<1>1. ReadersInit => RowsInv
  BY DEF ReadersInit, RowsInv, NoCall, NoFetch
<1>2. ReadersTypeOK /\ RowsInv /\ [ReadersNext]_readersVars => RowsInv'
  BY RowsStep
<1>3. RowsInv => RowsFollow
  BY DEF RowsInv, RowsFollow, Carried
<1>. QED  BY <1>1, <1>2, <1>3, ReadersTypeCorrect, PTL DEF ReadersSpec

=============================================================================
