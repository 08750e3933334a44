------------------------ MODULE ConsoleSessionProofs ------------------------
(***************************************************************************)
(* Proofs about ConsoleSession, for any pages, calls, accounts and session *)
(* rows: types, that a refresh token is exchanged once and presented once  *)
(* by a page, and that a call is carried out once.                         *)
(***************************************************************************)
EXTENDS ConsoleSession, TLAPS

\* Answers with a pair that a page has still to keep.
Pending(k) == k.phase = "renewed" \/ (k.phase = "done" /\ k.kind = "login")

\* Every pair anyone knows has been issued.
Bounds ==
  /\ \A r \in Rows : table[r] /= None => table[r].pair \in 1 .. issued
  /\ \A c \in Calls : calls[c] /= None => calls[c].pair <= issued /\ calls[c].reply <= issued
                                         /\ (Pending(calls[c]) => calls[c].reply /= 0)
  /\ stored /= None => stored.pair <= issued
  /\ \A t \in Tabs : /\ current[t] /= None => current[t].pair <= issued
                     /\ \A p \in presented[t] : p <= issued
  /\ \A g \in grants : g[1] <= issued

\* A row holds a pair of its own, never one that was exchanged.
Exchanges ==
  /\ \A r, s \in Rows : table[r] /= None /\ table[s] /= None /\ table[r].pair = table[s].pair => r = s
  /\ \A r \in Rows, g \in grants : table[r] /= None => table[r].pair /= g[1]
  /\ ExchangedOnce

\* Only an answer of the server leaves an effect, and such a call is not sent again.
Effects ==
  \A c \in Calls : calls[c] /= None =>
    /\ calls[c].kind = "login" => calls[c].phase \in Served
    /\ calls[c].phase \notin {"done", "lost"} => calls[c].effects = 0
    /\ calls[c].effects <= 1

\* The pairs a page uses, and those on their way to being used.
Knows(k, p) ==
  \/ k.kind \in AuthKinds /\ k.pair = p
  \/ k.phase = "renewed" /\ k.reply = p
  \/ k.kind = "login" /\ k.phase = "done" /\ k.as \in Admins /\ k.reply = p

Known(p) ==
  \/ stored /= None /\ stored.pair = p
  \/ \E t \in Tabs : current[t] /= None /\ current[t].pair = p
  \/ \E c \in Calls : calls[c] /= None /\ Knows(calls[c], p)

\* They are administrators', and so are the calls made with them.
OfAdmins ==
  /\ \A r \in Rows : table[r] /= None /\ Known(table[r].pair) => table[r].user \in Admins
  /\ \A c \in Calls :
       calls[c] /= None /\ (calls[c].phase = "renewed" \/ (calls[c].phase = "done" /\ calls[c].kind \in AuthKinds))
         => calls[c].as \in Admins

\* A page that has presented its pair is still waiting, and the pairs on
\* their way to it are new to it and to one another.
Presentations ==
  \A t \in Tabs :
    /\ current[t] /= None /\ current[t].pair \in presented[t] => Refreshing(t) /= {}
    /\ \A c \in Of(t) : Pending(calls[c]) =>
         /\ calls[c].reply \notin presented[t]
         /\ current[t] /= None => current[t].pair /= calls[c].reply
         /\ \A d \in Of(t) : Pending(calls[d]) /\ calls[d].reply = calls[c].reply => d = c

SessionInv == SessionTypeOK /\ Bounds /\ Exchanges /\ Effects /\ OfAdmins /\ Presentations

-----------------------------------------------------------------------------
\* What a step makes of a call is a call, and of a row a row.
LEMMA CallForms ==
  ASSUME NEW k \in Call, NEW a \in Accounts \cup {None}, NEW n \in Nat, NEW p \in Nat,
         NEW phase \in Served \cup Renewing \cup {"waiting"}
  PROVE  /\ [k EXCEPT !.phase = phase, !.as = a, !.effects = n] \in Call
         /\ [k EXCEPT !.phase = phase, !.as = a, !.reply = n] \in Call
         /\ [k EXCEPT !.phase = phase, !.pair = p, !.reply = n, !.as = a, !.again = TRUE] \in Call
BY DEF Call

\* A session row keeps its type when it is rotated, revoked or its user is changed.
LEMMA RowForms ==
  ASSUME NEW row \in Row, NEW n \in Nat, NEW over \in BOOLEAN
  PROVE  /\ [row EXCEPT !.pair = n, !.expired = FALSE] \in Row
         /\ [row EXCEPT !.expired = TRUE] \in Row /\ [row EXCEPT !.over = over] \in Row
BY DEF Row

\* Type correctness is preserved; that a page keeps administrators' sessions
\* only needs that those are what its calls bring it.
LEMMA TypeStep ==
  ASSUME SessionTypeOK, Bounds, OfAdmins, [SessionNext]_sessionVars
  PROVE  SessionTypeOK'
<1>. USE ConsoleAssumption DEF SessionTypeOK
<1>1. ASSUME NEW c \in Calls, calls[c] /= None, NEW p \in Served \cup Renewing \cup {"waiting"}
      PROVE  [calls[c] EXCEPT !.phase = p] \in Call
  BY <1>1 DEF Call
<1>2. ASSUME NEW c \in Calls, calls[c] /= None, NEW p \in Served \cup Renewing \cup {"waiting"},
             Answer(c, p)
      PROVE  calls' \in [Calls -> Call \cup {None}]
  BY <1>1, <1>2 DEF Answer
<1>3. ASSUME NEW t \in Tabs, NEW c \in Calls, NEW kind \in AuthKinds, Ask(t, c, kind)
      PROVE  SessionTypeOK'
  <2>1. current[t] \in Session
    BY <1>3 DEF Ask, Screen
  <2>2. NewCall(t, kind, current[t].user, current[t].pair) \in Call
    BY <2>1 DEF NewCall, Call, Session, Served
  <2>. QED  BY <1>3, <2>2 DEF Ask, Send, serverVars, pageVars, historyVars
<1>4. ASSUME NEW t \in Tabs, NEW c \in Calls, NEW a \in Accounts, SignIn(t, c, a)
      PROVE  SessionTypeOK'
  <2>1. NewCall(t, "login", a, 0) \in Call
    BY DEF NewCall, Call, Served
  <2>. QED  BY <1>4, <2>1 DEF SignIn, Send, serverVars, pageVars, historyVars
<1>5. ASSUME NEW t \in Tabs, Reload(t)
      PROVE  SessionTypeOK'
  <2>1. ASSUME NEW c \in Calls, calls[c] /= None
        PROVE  [calls[c] EXCEPT !.tab = None] \in Call
    BY <2>1 DEF Call
  <2>2. calls' \in [Calls -> Call \cup {None}]
    BY <1>5, <2>1 DEF Reload, Of
  <2>. QED  BY <1>5, <2>2 DEF Reload, serverVars
<1>6. ASSUME NEW c \in Calls, Refuse(c) \/ Deny(c) \/ FindSession(c) \/ RotateNothing(c)
      PROVE  SessionTypeOK'
  <2>1. calls' \in [Calls -> Call \cup {None}]
    BY <1>2, <1>6 DEF Refuse, Deny, FindSession, RotateNothing, Served, Renewing
  <2>. QED  BY <1>6, <2>1 DEF Refuse, Deny, FindSession, RotateNothing, serverVars, pageVars, historyVars
<1>7. ASSUME NEW c \in Calls, NEW r \in Rows, Serve(c, r)
      PROVE  SessionTypeOK'
  <2>1. calls[c] \in Call /\ table[r] \in Row
    BY <1>7 DEF Serve, Authenticates, Live
  <2>2. [calls[c] EXCEPT !.phase = "done", !.as = table[r].user, !.effects = @ + 1] \in Call
    <3>1. table[r].user \in Accounts /\ calls[c].effects + 1 \in Nat /\ "done" \in Served
      BY <2>1 DEF Call, Row, Served
    <3>. QED  BY <2>1, <3>1, CallForms
  <2>3. calls' \in [Calls -> Call \cup {None}]
    BY <1>7, <2>2 DEF Serve
  <2>4. [table[r] EXCEPT !.over = calls[c].kind = "logout"] \in Row
    BY <2>1 DEF Row
  <2>5. table' \in [Rows -> Row \cup {None}]
    BY <1>7, <2>4 DEF Serve
  <2>. QED  BY <1>7, <2>3, <2>5 DEF Serve, pageVars, historyVars
<1>8. ASSUME NEW c \in Calls, NEW r \in Rows, CreateSession(c, r)
      PROVE  SessionTypeOK'
  <2>1. [calls[c] EXCEPT !.phase = "done", !.as = calls[c].by, !.reply = issued + 1] \in Call
    <3>1. calls[c] \in Call /\ calls[c].by \in Accounts /\ issued + 1 \in Nat /\ "done" \in Served
      BY <1>8 DEF CreateSession, Call, Served
    <3>. QED  BY <3>1, CallForms
  <2>2. calls' \in [Calls -> Call \cup {None}]
    BY <1>8, <2>1 DEF CreateSession
  <2>3. [user |-> calls[c].by, pair |-> issued + 1, expired |-> FALSE, over |-> FALSE] \in Row
    BY <1>8 DEF CreateSession, Call, Row
  <2>. QED  BY <1>8, <2>2, <2>3 DEF CreateSession, pageVars, historyVars
<1>9. ASSUME NEW c \in Calls, NEW r \in Rows, Rotate(c, r)
      PROVE  SessionTypeOK'
  <2>1. calls[c] \in Call /\ table[r] \in Row
    BY <1>9 DEF Rotate, Holds, Live
  <2>2. [calls[c] EXCEPT !.phase = "renewed", !.as = table[r].user, !.reply = issued + 1] \in Call
    <3>1. table[r].user \in Accounts /\ issued + 1 \in Nat /\ "renewed" \in Renewing
      BY <2>1 DEF Row, Renewing
    <3>. QED  BY <2>1, <3>1, CallForms
  <2>3. calls' \in [Calls -> Call \cup {None}]
    BY <1>9, <2>2 DEF Rotate
  <2>4. [table[r] EXCEPT !.pair = issued + 1, !.expired = FALSE] \in Row
    BY <2>1, issued + 1 \in Nat, RowForms
  <2>5. table' \in [Rows -> Row \cup {None}] /\ grants' \subseteq Nat \X Nat
    BY <1>9, <2>1, <2>4 DEF Rotate, Call
  <2>. QED  BY <1>9, <2>3, <2>5 DEF Rotate, pageVars
<1>10. ASSUME NEW r \in Rows, Expire(r) \/ End(r)
       PROVE  SessionTypeOK'
  <2>1. table[r] \in Row
    BY <1>10 DEF Expire, End, Live
  <2>2. [table[r] EXCEPT !.expired = TRUE] \in Row /\ [table[r] EXCEPT !.over = TRUE] \in Row
    BY <2>1, RowForms
  <2>3. table' \in [Rows -> Row \cup {None}]
    BY <1>10, <2>2 DEF Expire, End
  <2>. QED  BY <1>10, <2>3 DEF Expire, End, pageVars, historyVars
<1>11. CASE Upgrade
  BY <1>11 DEF Upgrade, pageVars, historyVars
<1>12. ASSUME NEW t \in Tabs, LearnRelease(t)
       PROVE  SessionTypeOK'
  BY <1>12 DEF LearnRelease, serverVars, historyVars
<1>13. ASSUME NEW c \in Calls, Lose(c)
       PROVE  SessionTypeOK'
  <2>1. calls' \in [Calls -> Call \cup {None}]
    BY <1>2, <1>13 DEF Lose, Served, Renewing
  <2>. QED  BY <1>13, <2>1 DEF Lose, serverVars, pageVars
<1>14. ASSUME NEW c \in Calls, Forget(c)
       PROVE  SessionTypeOK'
  BY <1>14 DEF Forget, serverVars, pageVars, historyVars
<1>15. ASSUME NEW t \in Tabs, NEW c \in Calls, Join(c, t)
       PROVE  SessionTypeOK'
  <2>1. calls' \in [Calls -> Call \cup {None}]
    BY <1>2, <1>15 DEF Join, Answered, Of
  <2>. QED  BY <1>15, <2>1 DEF Join, serverVars, pageVars, historyVars
<1>16. ASSUME NEW t \in Tabs, NEW c \in Calls, Present(c, t)
       PROVE  SessionTypeOK'
  <2>1. calls[c] /= None /\ calls[c].tab = t /\ current[t] /= None
    BY <1>16 DEF Present, Answered, Of, Retries
  <2>2. calls[c] \in Call /\ current[t].pair \in Nat
    BY <2>1 DEF Session
  <2>3. [calls[c] EXCEPT !.phase = "presented", !.pair = current[t].pair] \in Call
    BY <2>2 DEF Call, Renewing
  <2>4. calls' \in [Calls -> Call \cup {None}] /\ presented' \in [Tabs -> SUBSET Nat]
    BY <1>16, <2>2, <2>3 DEF Present
  <2>. QED  BY <1>16, <2>4 DEF Present, serverVars, pageVars
<1>17. ASSUME NEW t \in Tabs, NEW s \in Session \cup {None}, SetSession(t, s)
       PROVE  stored' \in Session \cup {None} /\ current' \in [Tabs -> Session \cup {None}]
  BY <1>17 DEF SetSession
<1>18. ASSUME NEW t \in Tabs, NEW c \in Calls, Renewed(c, t)
       PROVE  SessionTypeOK'
  <2>1. calls[c] \in Call /\ calls[c] /= None /\ calls[c].phase = "renewed"
    BY <1>18 DEF Renewed, Of
  <2>2. [pair |-> calls[c].reply, user |-> calls[c].as] \in Session
    BY <2>1 DEF Session, Call, Bounds, OfAdmins, Pending
  <2>3. ASSUME NEW d \in Calls, calls[d] /= None
        PROVE  [calls[d] EXCEPT !.phase = "sent", !.pair = calls[c].reply, !.reply = 0,
                                !.as = None, !.again = TRUE] \in Call
    <3>1. calls[d] \in Call /\ calls[c].reply \in Nat /\ "sent" \in Served /\ 0 \in Nat
      BY <2>1, <2>3 DEF Call, Served
    <3>. QED  BY <3>1, CallForms
  <2>4. calls' \in [Calls -> Call \cup {None}]
    BY <1>18, <2>1, <2>3 DEF Renewed, Waiting, Of
  <2>. QED  BY <1>17, <1>18, <2>2, <2>4 DEF Renewed, serverVars, historyVars
<1>19. ASSUME NEW t \in Tabs, NEW c \in Calls, NotRenewed(c, t)
       PROVE  SessionTypeOK'
  BY <1>17, <1>19 DEF NotRenewed, serverVars, historyVars
<1>20. ASSUME NEW t \in Tabs, NEW c \in Calls, Settle(c, t)
       PROVE  SessionTypeOK'
  <2>1. calls[c] \in Call /\ calls[c] /= None
    BY <1>20 DEF Settle, Answered, Of
  <2>2. CASE calls[c].kind = "login" /\ calls[c].phase = "done" /\ calls[c].as \in Admins
    <3>1. [pair |-> calls[c].reply, user |-> calls[c].as] \in Session
      BY <2>1, <2>2 DEF Session, Call, Bounds, Pending
    <3>2. SetSession(t, [pair |-> calls[c].reply, user |-> calls[c].as])
      BY <1>20, <2>2 DEF Settle, Outcome
    <3>. QED  BY <1>17, <1>20, <3>1, <3>2 DEF Settle, serverVars, historyVars
  <2>3. CASE calls[c].kind = "self" /\ calls[c].phase = "done" /\ current[t] /= None
    <3>1. current[t] \in Session /\ calls[c].as \in Admins
      BY <2>1, <2>3 DEF OfAdmins, AuthKinds
    <3>2. [current[t] EXCEPT !.user = calls[c].as] \in Session
      BY <3>1 DEF Session
    <3>3. SetSession(t, [current[t] EXCEPT !.user = calls[c].as])
      BY <1>20, <2>3 DEF Settle, Outcome, UpdatedSelf
    <3>. QED  BY <1>17, <1>20, <3>2, <3>3 DEF Settle, serverVars, historyVars
  <2>4. CASE calls[c].kind = "logout"
    BY <1>17, <1>20, <2>4 DEF Settle, Outcome, serverVars, historyVars
  <2>5. CASE /\ ~(calls[c].kind = "login" /\ calls[c].phase = "done" /\ calls[c].as \in Admins)
             /\ ~(calls[c].kind = "self" /\ calls[c].phase = "done" /\ current[t] /= None)
             /\ calls[c].kind /= "logout"
    <3>1. UNCHANGED <<stored, current>>
      BY <1>20, <2>5 DEF Settle, Outcome, UpdatedSelf
    <3>. QED  BY <1>20, <3>1 DEF Settle, serverVars, historyVars
  <2>. QED  BY <2>2, <2>3, <2>4, <2>5
<1>21. CASE UNCHANGED sessionVars
  BY <1>21 DEF sessionVars, serverVars, pageVars, historyVars
<1>. QED
  BY <1>3, <1>4, <1>5, <1>6, <1>7, <1>8, <1>9, <1>10, <1>11, <1>12, <1>13, <1>14, <1>15, <1>16,
     <1>18, <1>19, <1>20, <1>21
  DEF SessionNext, PageStep, ServerStep, ChangeSelf, AuthKinds

\* Only Rotate exchanges a pair, and only Rotate and CreateSession put one in
\* a row, which no row has held.
LEMMA ExchangesStep ==
  ASSUME SessionTypeOK, Bounds, Exchanges, [SessionNext]_sessionVars
  PROVE  Exchanges'
<1>. USE ConsoleAssumption DEF SessionTypeOK
<1>1. ASSUME NEW c \in Calls, NEW r \in Rows, Rotate(c, r)
      PROVE  Exchanges'
  <2>1. /\ table[r] \in Row /\ table[r] /= None /\ table[r].pair = calls[c].pair
        /\ table' = [table EXCEPT ![r] = [table[r] EXCEPT !.pair = issued + 1, !.expired = FALSE]]
        /\ grants' = grants \cup {<<table[r].pair, issued + 1>>}
    BY <1>1 DEF Rotate, Holds, Live
  <2>2. table'[r].pair = issued + 1
    BY <2>1 DEF Row
  <2>3. \A s \in Rows \ {r} : table'[s] = table[s] /\ (table[s] /= None => table[s].pair /= issued + 1)
    BY <2>1 DEF Bounds
  <2>4. \A g \in grants : g[1] /= issued + 1 /\ g[1] /= table[r].pair
    BY <2>1 DEF Bounds, Exchanges
  <2>5. table[r].pair /= issued + 1
    BY <2>1 DEF Bounds
  <2>6. \A s, q \in Rows : table'[s] /= None /\ table'[q] /= None /\ table'[s].pair = table'[q].pair => s = q
    BY <2>2, <2>3 DEF Exchanges
  <2>7. ASSUME NEW s \in Rows, NEW g \in grants', table'[s] /= None
        PROVE  table'[s].pair /= g[1]
    <3>1. CASE g \in grants
      BY <2>2, <2>3, <2>4, <2>7, <3>1 DEF Exchanges
    <3>2. CASE g = <<table[r].pair, issued + 1>>
      BY <2>1, <2>2, <2>3, <2>5, <2>7, <3>2 DEF Exchanges
    <3>. QED  BY <2>1, <3>1, <3>2
  <2>8. ExchangedOnce'
    BY <2>1, <2>4 DEF Exchanges, ExchangedOnce
  <2>. QED  BY <2>6, <2>7, <2>8 DEF Exchanges
<1>2. ASSUME NEW c \in Calls, NEW r \in Rows, CreateSession(c, r)
      PROVE  Exchanges'
  <2>1. table'[r].pair = issued + 1 /\ grants' = grants
    BY <1>2 DEF CreateSession, historyVars
  <2>2. \A s \in Rows \ {r} : table'[s] = table[s] /\ (table[s] /= None => table[s].pair /= issued + 1)
    BY <1>2 DEF CreateSession, Bounds
  <2>3. \A g \in grants : g[1] /= issued + 1
    BY DEF Bounds
  <2>. QED  BY <2>1, <2>2, <2>3 DEF Exchanges, ExchangedOnce
<1>3. ASSUME grants' = grants,
             \A r \in Rows : table'[r] /= None => table[r] /= None /\ table'[r].pair = table[r].pair
      PROVE  Exchanges'
  BY <1>3 DEF Exchanges, ExchangedOnce
<1>4. ASSUME NEW c \in Calls, NEW r \in Rows, Serve(c, r)
      PROVE  Exchanges'
  BY <1>3, <1>4 DEF Serve, Authenticates, Live, Row, historyVars
<1>5. ASSUME NEW r \in Rows, Expire(r) \/ End(r)
      PROVE  Exchanges'
  BY <1>3, <1>5 DEF Expire, End, Live, Row, historyVars
<1>6. ASSUME grants' = grants, table' = table
      PROVE  Exchanges'
  BY <1>3, <1>6
<1>7. ASSUME NEW t \in Tabs, PageStep(t)
      PROVE  Exchanges'
  <2>1. ASSUME NEW c \in Calls, NEW kind \in AuthKinds, Ask(t, c, kind)
        PROVE  Exchanges'
    BY <1>6, <2>1 DEF Ask, serverVars, historyVars
  <2>2. ASSUME NEW c \in Calls, NEW a \in Accounts, SignIn(t, c, a)
        PROVE  Exchanges'
    BY <1>6, <2>2 DEF SignIn, serverVars, historyVars
  <2>3. CASE Reload(t) \/ LearnRelease(t)
    BY <1>6, <2>3 DEF Reload, LearnRelease, serverVars, historyVars
  <2>4. ASSUME NEW c \in Calls,
               Join(c, t) \/ Present(c, t) \/ Renewed(c, t) \/ NotRenewed(c, t) \/ Settle(c, t)
        PROVE  Exchanges'
    BY <1>6, <2>4 DEF Join, Present, Renewed, NotRenewed, Settle, serverVars, historyVars
  <2>. QED  BY <1>7, <2>1, <2>2, <2>3, <2>4 DEF PageStep, ChangeSelf, AuthKinds
<1>8. ASSUME NEW c \in Calls,
             \/ Refuse(c) \/ Deny(c) \/ FindSession(c) \/ RotateNothing(c)
             \/ Lose(c) \/ Forget(c)
      PROVE  Exchanges'
  BY <1>6, <1>8
  DEF Refuse, Deny, FindSession, RotateNothing, Lose, Forget, serverVars, historyVars
<1>9. CASE Upgrade \/ UNCHANGED sessionVars
  BY <1>6, <1>9 DEF Upgrade, sessionVars, serverVars, historyVars
<1>10. CASE ServerStep
  BY <1>1, <1>2, <1>4, <1>5, <1>8, <1>9, <1>10 DEF ServerStep
<1>. QED
  <2>. HIDE DEF SessionTypeOK
  <2>. QED  BY <1>7, <1>8, <1>9, <1>10 DEF SessionNext

\* A call is sent again only without an effect.
LEMMA EffectsStep ==
  ASSUME SessionTypeOK, Effects, [SessionNext]_sessionVars
  PROVE  Effects'
<1>. USE ConsoleAssumption DEF SessionTypeOK
<1>. DEFINE Good(k) == /\ k.kind = "login" => k.phase \in Served
                       /\ k.phase \notin {"done", "lost"} => k.effects = 0
                       /\ k.effects <= 1
<1>1. ASSUME \A d \in Calls : calls'[d] /= None => calls'[d] = calls[d] \/ Good(calls'[d])
      PROVE  Effects'
  <2>1. ASSUME NEW d \in Calls, calls'[d] /= None
        PROVE  Good(calls'[d])
    <3>1. CASE calls'[d] = calls[d]
      BY <2>1, <3>1 DEF Effects
    <3>2. CASE Good(calls'[d])
      BY <3>2
    <3>. QED  BY <1>1, <2>1, <3>1, <3>2
  <2>. QED  BY <2>1 DEF Effects
<1>2. ASSUME NEW c \in Calls, calls[c] /= None
      PROVE  calls[c] \in Call /\ Good(calls[c])
  BY <1>2 DEF Effects
<1>3. ASSUME NEW c \in Calls, calls[c] /= None,
             NEW p \in Served \cup Renewing \cup {"waiting"}, Answer(c, p),
             calls[c].kind = "login" => p \in Served,
             p \notin {"done", "lost"} => calls[c].phase \notin {"done", "lost"}
      PROVE  Effects'
  <2>1. Good([calls[c] EXCEPT !.phase = p])
    BY <1>2, <1>3 DEF Call
  <2>. QED  BY <1>1, <1>3, <2>1 DEF Answer
<1>4. ASSUME NEW t \in Tabs, NEW c \in Calls, NEW kind \in AuthKinds, Ask(t, c, kind)
      PROVE  Effects'
  BY <1>1, <1>4 DEF Ask, Send, NewCall, AuthKinds
<1>5. ASSUME NEW t \in Tabs, NEW c \in Calls, NEW a \in Accounts, SignIn(t, c, a)
      PROVE  Effects'
  BY <1>1, <1>5 DEF SignIn, Send, NewCall, Served
<1>6. ASSUME NEW t \in Tabs, Reload(t)
      PROVE  Effects'
  <2>1. \A d \in Calls : calls[d] /= None => Good([calls[d] EXCEPT !.tab = None])
    BY <1>2 DEF Call
  <2>2. \A d \in Calls : calls'[d] \in {calls[d], [calls[d] EXCEPT !.tab = None], None}
    BY <1>6 DEF Reload
  <2>3. \A d \in Calls : calls[d] = None => calls'[d] = calls[d]
    BY <1>6 DEF Reload, Of
  <2>. HIDE DEF Good
  <2>. QED  BY <1>1, <2>1, <2>2, <2>3
<1>7. ASSUME NEW c \in Calls, Refuse(c) \/ Deny(c) \/ FindSession(c) \/ RotateNothing(c)
      PROVE  Effects'
  <2>1. CASE Refuse(c) \/ Deny(c)
    BY <1>3, <2>1 DEF Refuse, Deny, Served
  <2>2. CASE FindSession(c) \/ RotateNothing(c)
    <3>1. calls[c] /= None /\ calls[c].phase \in {"presented", "found"}
      BY <2>2 DEF FindSession, RotateNothing
    <3>2. calls[c].kind /= "login"
      BY <1>2, <3>1 DEF Served
    <3>3. Answer(c, "found") \/ Answer(c, "rejected")
      BY <2>2 DEF FindSession, RotateNothing
    <3>. QED  BY <1>3, <3>1, <3>2, <3>3 DEF Renewing
  <2>. QED  BY <1>7, <2>1, <2>2
<1>8. ASSUME NEW c \in Calls, NEW r \in Rows, Serve(c, r)
      PROVE  Effects'
  <2>1. calls[c] /= None /\ calls[c].phase = "sent" /\ calls[c].kind \in AuthKinds
    BY <1>8 DEF Serve
  <2>. DEFINE new == [calls[c] EXCEPT !.phase = "done", !.as = table[r].user, !.effects = @ + 1]
  <2>2. Good(new)
    BY <1>2, <2>1 DEF Call, AuthKinds
  <2>3. calls' = [calls EXCEPT ![c] = new]
    BY <1>8 DEF Serve
  <2>. HIDE DEF new, Good
  <2>. QED  BY <1>1, <2>2, <2>3
<1>9. ASSUME NEW c \in Calls, NEW r \in Rows, CreateSession(c, r)
      PROVE  Effects'
  <2>1. calls[c] /= None /\ calls[c].phase = "sent"
    BY <1>9 DEF CreateSession
  <2>2. Good([calls[c] EXCEPT !.phase = "done", !.as = calls[c].by, !.reply = issued + 1])
    BY <1>2, <2>1 DEF Call, Served
  <2>. QED  BY <1>1, <1>9, <2>2 DEF CreateSession
<1>10. ASSUME NEW c \in Calls, NEW r \in Rows, Rotate(c, r)
       PROVE  Effects'
  <2>1. calls[c] /= None /\ calls[c].phase = "found"
    BY <1>10 DEF Rotate
  <2>2. Good([calls[c] EXCEPT !.phase = "renewed", !.as = table[r].user, !.reply = issued + 1])
    BY <1>2, <2>1 DEF Call, Served
  <2>. QED  BY <1>1, <1>10, <2>2 DEF Rotate
<1>11. ASSUME NEW c \in Calls, Lose(c)
       PROVE  Effects'
  <2>1. CASE calls[c].phase \in Served \ {"lost"} /\ Answer(c, "lost")
    BY <1>3, <1>11, <2>1 DEF Lose, Served
  <2>2. CASE calls[c].phase \in Renewing \ {"cut"} /\ Answer(c, "cut")
    <3>1. calls[c] /= None /\ calls[c].kind /= "login"
      BY <1>2, <1>11, <2>2 DEF Lose, Served, Renewing
    <3>. QED  BY <1>3, <2>2, <3>1 DEF Renewing
  <2>. QED  BY <1>11, <2>1, <2>2 DEF Lose
<1>12. ASSUME NEW t \in Tabs, NEW c \in Calls, Join(c, t)
       PROVE  Effects'
  <2>1. calls[c] /= None /\ calls[c].kind \in AuthKinds /\ calls[c].phase = "denied" /\ Answer(c, "waiting")
    BY <1>12 DEF Join, Answered, Retries, Of
  <2>. QED  BY <1>3, <2>1 DEF AuthKinds
<1>13. ASSUME NEW t \in Tabs, NEW c \in Calls, Present(c, t)
       PROVE  Effects'
  <2>1. calls[c] /= None /\ calls[c].kind \in AuthKinds /\ calls[c].phase = "denied"
    BY <1>13 DEF Present, Answered, Retries, Of
  <2>2. Good([calls[c] EXCEPT !.phase = "presented", !.pair = current[t].pair])
    BY <1>2, <2>1 DEF Call, AuthKinds
  <2>. QED  BY <1>1, <1>13, <2>2 DEF Present
<1>14. ASSUME NEW t \in Tabs, NEW c \in Calls, Renewed(c, t)
       PROVE  Effects'
  <2>1. ASSUME NEW d \in {c} \cup Waiting(t)
        PROVE  d \in Calls /\ calls[d] /= None /\ calls[d].phase \in {"renewed", "waiting"}
    BY <1>14 DEF Renewed, Waiting, Of
  <2>2. ASSUME NEW d \in {c} \cup Waiting(t)
        PROVE  Good([calls[d] EXCEPT !.phase = "sent", !.pair = calls[c].reply, !.reply = 0,
                                     !.as = None, !.again = TRUE])
    BY <1>2, <2>1 DEF Call, Served
  <2>. QED  BY <1>1, <1>14, <2>2 DEF Renewed
<1>15. ASSUME \A d \in Calls : calls'[d] \in {calls[d], None}
       PROVE  Effects'
  BY <1>1, <1>15
<1>. QED
  BY <1>4, <1>5, <1>6, <1>7, <1>8, <1>9, <1>10, <1>11, <1>12, <1>13, <1>14, <1>15
  DEF SessionNext, PageStep, ServerStep, sessionVars, pageVars, ChangeSelf, AuthKinds, Expire, End,
      Upgrade, LearnRelease, Forget, NotRenewed, Settle

\* Pairs are numbered as they are issued.
LEMMA BoundsStep ==
  ASSUME SessionTypeOK, Bounds, [SessionNext]_sessionVars
  PROVE  Bounds'
<1>. USE ConsoleAssumption DEF SessionTypeOK
<1>. DEFINE Good(k, n) == k.pair <= n /\ k.reply <= n /\ (Pending(k) => k.reply /= 0)
            CallsGood(n)  == \A d \in Calls : calls'[d] /= None => Good(calls'[d], n)
            TableGood(n)  == \A r \in Rows : table'[r] /= None => table'[r].pair \in 1 .. n
            PagesGood(n)  == /\ stored' /= None => stored'.pair <= n
                             /\ \A t \in Tabs : /\ current'[t] /= None => current'[t].pair <= n
                                                /\ \A p \in presented'[t] : p <= n
            GrantsGood(n) == \A g \in grants' : g[1] <= n
<1>1. CallsGood(issued') /\ TableGood(issued') /\ PagesGood(issued') /\ GrantsGood(issued') => Bounds'
  BY DEF Bounds, Pending
<1>2. /\ \A c \in Calls : calls[c] /= None => calls[c] \in Call /\ Good(calls[c], issued)
      /\ UNCHANGED calls => CallsGood(issued)
      /\ UNCHANGED table => TableGood(issued)
      /\ UNCHANGED <<stored, current, presented>> => PagesGood(issued)
      /\ UNCHANGED grants => GrantsGood(issued)
  BY DEF Bounds, Pending
<1>3. ASSUME \A d \in Calls : \/ calls'[d] = calls[d]
                              \/ calls'[d] = None
                              \/ Good(calls'[d], issued)
      PROVE  CallsGood(issued)
  <2>1. ASSUME NEW d \in Calls, calls'[d] /= None
        PROVE  Good(calls'[d], issued)
    <3>1. CASE calls'[d] = calls[d]
      BY <1>2, <2>1, <3>1
    <3>2. CASE Good(calls'[d], issued)
      BY <3>2
    <3>. HIDE DEF Good
    <3>. QED  BY <1>3, <2>1, <3>1, <3>2
  <2>. QED  BY <2>1
<1>4. ASSUME NEW c \in Calls, calls[c] /= None,
             NEW p \in Served \cup Renewing \cup {"waiting"}, Answer(c, p),
             p \notin {"renewed", "done"}
      PROVE  CallsGood(issued)
  <2>1. Good([calls[c] EXCEPT !.phase = p], issued)
    BY <1>2, <1>4 DEF Call, Pending
  <2>2. \A d \in Calls : calls'[d] = calls[d] \/ calls'[d] = [calls[c] EXCEPT !.phase = p]
    BY <1>4 DEF Answer
  <2>. HIDE DEF Good, CallsGood
  <2>. QED  BY <1>3, <2>1, <2>2
<1>5. ASSUME NEW t \in Tabs, NEW c \in Calls, NEW kind \in AuthKinds, Ask(t, c, kind)
      PROVE  Bounds'
  <2>1. Good(NewCall(t, kind, current[t].user, current[t].pair), issued)
    BY <1>5 DEF Ask, Screen, Bounds, NewCall, Pending
  <2>2. CallsGood(issued)
    BY <1>3, <1>5, <2>1 DEF Ask, Send
  <2>. HIDE DEF CallsGood, TableGood, PagesGood, GrantsGood
  <2>. QED  BY <1>1, <1>2, <1>5, <2>2 DEF Ask, serverVars, pageVars, historyVars
<1>6. ASSUME NEW t \in Tabs, NEW c \in Calls, NEW a \in Accounts, SignIn(t, c, a)
      PROVE  Bounds'
  <2>1. Good(NewCall(t, "login", a, 0), issued)
    BY DEF NewCall, Pending
  <2>2. CallsGood(issued)
    BY <1>3, <1>6, <2>1 DEF SignIn, Send
  <2>. HIDE DEF CallsGood, TableGood, PagesGood, GrantsGood
  <2>. QED  BY <1>1, <1>2, <1>6, <2>2 DEF SignIn, serverVars, pageVars, historyVars
<1>7. ASSUME NEW t \in Tabs, Reload(t)
      PROVE  Bounds'
  <2>. DEFINE new(d) == [calls[d] EXCEPT !.tab = None]
  <2>1. ASSUME NEW d \in Calls, calls[d] /= None
        PROVE  Good(new(d), issued)
    BY <1>2, <2>1 DEF Call, Pending
  <2>2. \A d \in Calls : \/ calls'[d] \in {calls[d], None}
                         \/ calls[d] /= None /\ calls'[d] = new(d)
    BY <1>7 DEF Reload, Of
  <2>3. CallsGood(issued)
    <3>. HIDE DEF Good, CallsGood, new
    <3>. QED  BY <1>3, <2>1, <2>2
  <2>4. PagesGood(issued)
    BY <1>7 DEF Reload, Bounds
  <2>. HIDE DEF CallsGood, TableGood, PagesGood, GrantsGood
  <2>. QED  BY <1>1, <1>2, <1>7, <2>3, <2>4 DEF Reload, serverVars
<1>8. ASSUME NEW c \in Calls, Refuse(c) \/ Deny(c) \/ FindSession(c) \/ RotateNothing(c)
      PROVE  Bounds'
  <2>1. CallsGood(issued)
    <3>. HIDE DEF CallsGood
    <3>. QED  BY <1>4, <1>8 DEF Refuse, Deny, FindSession, RotateNothing, Served, Renewing
  <2>. HIDE DEF CallsGood, TableGood, PagesGood, GrantsGood
  <2>. QED  BY <1>1, <1>2, <1>8, <2>1
            DEF Refuse, Deny, FindSession, RotateNothing, serverVars, pageVars, historyVars
<1>9. ASSUME NEW c \in Calls, NEW r \in Rows, Serve(c, r)
      PROVE  Bounds'
  <2>. DEFINE new == [calls[c] EXCEPT !.phase = "done", !.as = table[r].user, !.effects = @ + 1]
  <2>1. calls[c] /= None /\ calls[c].kind /= "login" /\ table[r] \in Row /\ table[r] /= None
    BY <1>9 DEF Serve, AuthKinds, Authenticates, Live
  <2>2. Good(new, issued)
    BY <1>2, <2>1 DEF Call, Pending
  <2>3. CallsGood(issued)
    <3>1. calls' = [calls EXCEPT ![c] = new]
      BY <1>9 DEF Serve
    <3>. HIDE DEF Good, CallsGood, new
    <3>. QED  BY <1>3, <2>2, <3>1
  <2>4. TableGood(issued)
    BY <1>9, <2>1 DEF Serve, Row, Bounds
  <2>. HIDE DEF CallsGood, TableGood, PagesGood, GrantsGood
  <2>. QED  BY <1>1, <1>2, <1>9, <2>3, <2>4 DEF Serve, pageVars, historyVars
<1>10. ASSUME issued' = issued + 1
       PROVE  /\ UNCHANGED <<stored, current, presented>> => PagesGood(issued')
              /\ UNCHANGED grants => GrantsGood(issued')
  BY <1>10 DEF Bounds, Session
<1>11. ASSUME NEW c \in Calls, NEW new \in Call, issued' = issued + 1, calls' = [calls EXCEPT ![c] = new],
              calls[c] /= None, new.pair = calls[c].pair, new.reply = issued'
       PROVE  CallsGood(issued')
  <2>1. \A d \in Calls \ {c} : calls'[d] = calls[d]
    BY <1>11
  <2>2. Good(new, issued')
    BY <1>2, <1>11 DEF Call
  <2>3. \A d \in Calls \ {c} : calls[d] /= None => Good(calls[d], issued')
    BY <1>2, <1>11 DEF Call
  <2>. HIDE DEF Good
  <2>. QED  BY <1>11, <2>1, <2>2, <2>3
<1>12. ASSUME NEW c \in Calls, NEW r \in Rows, CreateSession(c, r)
       PROVE  Bounds'
  <2>. DEFINE new == [calls[c] EXCEPT !.phase = "done", !.as = calls[c].by, !.reply = issued + 1]
  <2>1. calls[c] \in Call /\ calls[c] /= None /\ issued' = issued + 1
    BY <1>12 DEF CreateSession
  <2>2. new \in Call /\ new.pair = calls[c].pair /\ new.reply = issued + 1
    <3>1. calls[c].by \in Accounts /\ issued + 1 \in Nat /\ "done" \in Served
      BY <2>1 DEF Call, Served
    <3>2. new \in Call
      BY <2>1, <3>1, CallForms
    <3>. QED  BY <2>1, <3>2 DEF Call
  <2>3. CallsGood(issued')
    <3>1. calls' = [calls EXCEPT ![c] = new]
      BY <1>12 DEF CreateSession
    <3>. HIDE DEF new, CallsGood
    <3>. QED  BY <1>11, <2>1, <2>2, <3>1
  <2>4. TableGood(issued')
    BY <1>12, <2>1 DEF CreateSession, Bounds
  <2>. HIDE DEF CallsGood, TableGood, PagesGood, GrantsGood
  <2>. QED  BY <1>1, <1>10, <1>12, <2>1, <2>3, <2>4 DEF CreateSession, pageVars, historyVars
<1>13. ASSUME NEW c \in Calls, NEW r \in Rows, Rotate(c, r)
       PROVE  Bounds'
  <2>. DEFINE new == [calls[c] EXCEPT !.phase = "renewed", !.as = table[r].user, !.reply = issued + 1]
  <2>1. calls[c] \in Call /\ calls[c] /= None /\ issued' = issued + 1 /\ table[r] \in Row
        /\ table[r] /= None
    BY <1>13 DEF Rotate, Holds, Live
  <2>2. new \in Call /\ new.pair = calls[c].pair /\ new.reply = issued + 1
    <3>1. table[r].user \in Accounts /\ issued + 1 \in Nat /\ "renewed" \in Renewing
      BY <2>1 DEF Row, Renewing
    <3>2. new \in Call
      BY <2>1, <3>1, CallForms
    <3>. QED  BY <2>1, <3>2 DEF Call
  <2>3. CallsGood(issued')
    <3>1. calls' = [calls EXCEPT ![c] = new]
      BY <1>13 DEF Rotate
    <3>. HIDE DEF new, CallsGood
    <3>. QED  BY <1>11, <2>1, <2>2, <3>1
  <2>4. TableGood(issued')
    BY <1>13, <2>1 DEF Rotate, Bounds, Row
  <2>5. GrantsGood(issued')
    BY <1>13, <2>1 DEF Rotate, Bounds, Call
  <2>. HIDE DEF CallsGood, TableGood, PagesGood, GrantsGood
  <2>. QED  BY <1>1, <1>10, <1>13, <2>1, <2>3, <2>4, <2>5 DEF Rotate, pageVars
<1>14. ASSUME NEW r \in Rows, Expire(r) \/ End(r)
       PROVE  Bounds'
  <2>1. TableGood(issued)
    BY <1>14 DEF Expire, End, Live, Bounds, Row
  <2>. HIDE DEF CallsGood, TableGood, PagesGood, GrantsGood
  <2>. QED  BY <1>1, <1>2, <1>14, <2>1 DEF Expire, End, pageVars, historyVars
<1>15. ASSUME NEW t \in Tabs, Upgrade \/ LearnRelease(t)
       PROVE  Bounds'
  <2>. HIDE DEF CallsGood, TableGood, PagesGood, GrantsGood
  <2>. QED  BY <1>1, <1>2, <1>15 DEF Upgrade, LearnRelease, serverVars, pageVars, historyVars
<1>16. ASSUME NEW c \in Calls, Lose(c)
       PROVE  Bounds'
  <2>1. CallsGood(issued)
    <3>. HIDE DEF CallsGood
    <3>. QED  BY <1>4, <1>16 DEF Lose, Served, Renewing
  <2>. HIDE DEF CallsGood, TableGood, PagesGood, GrantsGood
  <2>. QED  BY <1>1, <1>2, <1>16, <2>1 DEF Lose, serverVars, pageVars
<1>17. ASSUME NEW c \in Calls, Forget(c)
       PROVE  Bounds'
  <2>1. CallsGood(issued)
    BY <1>3, <1>17 DEF Forget
  <2>. HIDE DEF CallsGood, TableGood, PagesGood, GrantsGood
  <2>. QED  BY <1>1, <1>2, <1>17, <2>1 DEF Forget, serverVars, pageVars, historyVars
<1>18. ASSUME NEW t \in Tabs, NEW c \in Calls, Join(c, t)
       PROVE  Bounds'
  <2>1. CallsGood(issued)
    <3>. HIDE DEF CallsGood
    <3>. QED  BY <1>4, <1>18 DEF Join, Answered, Of
  <2>. HIDE DEF CallsGood, TableGood, PagesGood, GrantsGood
  <2>. QED  BY <1>1, <1>2, <1>18, <2>1 DEF Join, serverVars, pageVars, historyVars
<1>19. ASSUME NEW t \in Tabs, NEW c \in Calls, Present(c, t)
       PROVE  Bounds'
  <2>. DEFINE new == [calls[c] EXCEPT !.phase = "presented", !.pair = current[t].pair]
  <2>1. calls[c] /= None /\ current[t] /= None /\ current[t].pair <= issued
    BY <1>19 DEF Present, Answered, Of, Retries, Bounds
  <2>2. Good(new, issued)
    BY <1>2, <2>1 DEF Call, Pending
  <2>3. CallsGood(issued)
    <3>1. calls' = [calls EXCEPT ![c] = new]
      BY <1>19 DEF Present
    <3>. HIDE DEF Good, CallsGood, new
    <3>. QED  BY <1>3, <2>2, <3>1
  <2>4. PagesGood(issued)
    BY <1>19, <2>1 DEF Present, pageVars, Bounds
  <2>. HIDE DEF CallsGood, TableGood, PagesGood, GrantsGood
  <2>. QED  BY <1>1, <1>2, <1>19, <2>3, <2>4 DEF Present, serverVars
<1>20. ASSUME NEW t \in Tabs, NEW s \in Session \cup {None}, SetSession(t, s), presented' = presented,
              s /= None => s.pair <= issued
       PROVE  PagesGood(issued)
  BY <1>20 DEF SetSession, Bounds
<1>21. ASSUME NEW t \in Tabs, NEW c \in Calls, Renewed(c, t)
       PROVE  Bounds'
  <2>1. calls[c] /= None /\ calls[c] \in Call /\ calls[c].reply <= issued
    BY <1>2, <1>21 DEF Renewed, Of
  <2>. DEFINE new(d) == [calls[d] EXCEPT !.phase = "sent", !.pair = calls[c].reply, !.reply = 0,
                                         !.as = None, !.again = TRUE]
  <2>2. ASSUME NEW d \in Calls, calls[d] /= None
        PROVE  Good(new(d), issued)
    BY <1>2, <2>1, <2>2 DEF Call, Pending
  <2>3. \A d \in Calls : \/ calls'[d] = calls[d]
                         \/ calls[d] /= None /\ calls'[d] = new(d)
    BY <1>21, <2>1 DEF Renewed, Waiting, Of
  <2>4. CallsGood(issued)
    <3>. HIDE DEF Good, CallsGood, new
    <3>. QED  BY <1>3, <2>2, <2>3
  <2>5. PagesGood(issued)
    BY <1>21, <2>1 DEF Renewed, SetSession, historyVars, Bounds
  <2>. HIDE DEF CallsGood, TableGood, PagesGood, GrantsGood
  <2>. QED  BY <1>1, <1>2, <1>21, <2>4, <2>5 DEF Renewed, serverVars, historyVars
<1>22. ASSUME NEW t \in Tabs, NEW c \in Calls, NotRenewed(c, t)
       PROVE  Bounds'
  <2>1. CallsGood(issued)
    BY <1>3, <1>22 DEF NotRenewed
  <2>2. PagesGood(issued)
    BY <1>20, <1>22 DEF NotRenewed, historyVars
  <2>. HIDE DEF CallsGood, TableGood, PagesGood, GrantsGood
  <2>. QED  BY <1>1, <1>2, <1>22, <2>1, <2>2 DEF NotRenewed, serverVars, historyVars
<1>23. ASSUME NEW t \in Tabs, NEW c \in Calls, Settle(c, t)
       PROVE  Bounds'
  <2>1. CallsGood(issued)
    BY <1>3, <1>23 DEF Settle
  <2>2. calls[c] /= None /\ calls[c].reply <= issued
    BY <1>2, <1>23 DEF Settle, Answered, Of
  <2>3. presented' = presented /\ grants' = grants /\ issued' = issued /\ table' = table
    BY <1>23 DEF Settle, historyVars, serverVars
  <2>4. PagesGood(issued)
    <3>1. \/ SetSession(t, [pair |-> calls[c].reply, user |-> calls[c].as])
          \/ SetSession(t, None)
          \/ current[t] /= None /\ SetSession(t, [current[t] EXCEPT !.user = calls[c].as])
          \/ UNCHANGED <<stored, current>>
      BY <1>23 DEF Settle, Outcome, UpdatedSelf
    <3>2. CASE SetSession(t, [pair |-> calls[c].reply, user |-> calls[c].as])
      BY <2>2, <2>3, <3>2 DEF SetSession, Bounds
    <3>3. CASE SetSession(t, None)
      BY <1>20, <2>3, <3>3
    <3>4. CASE current[t] /= None /\ SetSession(t, [current[t] EXCEPT !.user = calls[c].as])
      BY <2>3, <3>4 DEF SetSession, Bounds, Session
    <3>5. CASE UNCHANGED <<stored, current>>
      BY <1>2, <2>3, <3>5
    <3>. QED  BY <3>1, <3>2, <3>3, <3>4, <3>5
  <2>. HIDE DEF CallsGood, TableGood, PagesGood, GrantsGood
  <2>. QED  BY <1>1, <1>2, <2>1, <2>3, <2>4
<1>24. CASE Upgrade \/ UNCHANGED sessionVars
  <2>. HIDE DEF CallsGood, TableGood, PagesGood, GrantsGood
  <2>. QED  BY <1>1, <1>2, <1>24 DEF Upgrade, sessionVars, serverVars, pageVars, historyVars
<1>. HIDE DEF SessionTypeOK
<1>25. ASSUME NEW t \in Tabs, PageStep(t)
       PROVE  Bounds'
  BY <1>5, <1>6, <1>7, <1>15, <1>18, <1>19, <1>21, <1>22, <1>23, <1>25 DEF PageStep, ChangeSelf, AuthKinds
<1>26. CASE ServerStep
  BY <1>8, <1>9, <1>12, <1>13, <1>14, <1>24, <1>26 DEF ServerStep
<1>. QED  BY <1>16, <1>17, <1>24, <1>25, <1>26 DEF SessionNext

\* A page learns no pair of anyone but administrators.
LEMMA OfAdminsStep ==
  ASSUME SessionTypeOK, Bounds, Effects, OfAdmins, [SessionNext]_sessionVars
  PROVE  OfAdmins'
<1>. USE ConsoleAssumption DEF SessionTypeOK
<1>. DEFINE Fine(k)   == /\ \A p \in 1 .. issued : Knows(k, p) => Known(p)
                         /\ (k.phase = "renewed" \/ (k.phase = "done" /\ k.kind \in AuthKinds)) => k.as \in Admins
            CallsFine == \A d \in Calls : calls'[d] /= None => Fine(calls'[d])
            PagesFine == /\ stored' /= None => Known(stored'.pair)
                         /\ \A t \in Tabs : current'[t] /= None => Known(current'[t].pair)
            RowFine(r) == table'[r] /= None =>
                            \/ table[r] /= None /\ table'[r].pair = table[r].pair /\ table'[r].user = table[r].user
                            \/ Known(table[r].pair)' => table'[r].user \in Admins
            RowsFine  == \A r \in Rows : RowFine(r)
<1>1. ASSUME CallsFine, PagesFine, RowsFine
      PROVE  OfAdmins'
  <2>1. ASSUME NEW p \in 1 .. issued, Known(p)'
        PROVE  Known(p)
    <3>1. CASE stored' /= None /\ stored'.pair = p
      BY <1>1, <3>1
    <3>2. CASE \E t \in Tabs : current'[t] /= None /\ current'[t].pair = p
      BY <1>1, <3>2
    <3>3. CASE \E c \in Calls : calls'[c] /= None /\ Knows(calls'[c], p)
      BY <1>1, <3>3
    <3>. QED  BY <2>1, <3>1, <3>2, <3>3 DEF Known, Knows
  <2>2. ASSUME NEW r \in Rows, table'[r] /= None, Known(table[r].pair)'
        PROVE  table'[r].user \in Admins
    <3>1. CASE table[r] /= None /\ table'[r].pair = table[r].pair /\ table'[r].user = table[r].user
      <4>. DEFINE p == table[r].pair
      <4>1. p \in 1 .. issued
        BY <3>1 DEF Bounds
      <4>2. Known(p)
        BY <2>1, <2>2, <3>1, <4>1 DEF Known, Knows
      <4>. QED  BY <3>1, <4>2 DEF OfAdmins
    <3>2. CASE Known(table[r].pair)' => table'[r].user \in Admins
      BY <2>2, <3>2
    <3>. QED  BY <1>1, <2>2, <3>1, <3>2
  <2>3. ASSUME NEW c \in Calls, calls'[c] /= None,
               calls'[c].phase = "renewed" \/ (calls'[c].phase = "done" /\ calls'[c].kind \in AuthKinds)
        PROVE  calls'[c].as \in Admins
    <3>. HIDE DEF SessionTypeOK
    <3>. QED  BY <1>1, <2>3
  <2>. QED  BY <2>2, <2>3 DEF OfAdmins
<1>2. /\ \A c \in Calls : calls[c] /= None => calls[c] \in Call /\ Fine(calls[c])
      /\ UNCHANGED calls => CallsFine
      /\ UNCHANGED table => RowsFine
      /\ stored /= None => Known(stored.pair)
      /\ \A t \in Tabs : current[t] /= None => Known(current[t].pair)
      /\ UNCHANGED <<stored, current>> => PagesFine
  BY DEF OfAdmins, Known
<1>3. ASSUME \A d \in Calls : calls'[d] = calls[d] \/ calls'[d] = None \/ Fine(calls'[d])
      PROVE  CallsFine
  <2>. HIDE DEF Fine
  <2>. QED  BY <1>2, <1>3
<1>4. ASSUME NEW c \in Calls, calls[c] /= None,
             NEW p \in Served \cup Renewing \cup {"waiting"}, Answer(c, p),
             p \notin {"renewed", "done"}
      PROVE  CallsFine
  <2>. DEFINE new == [calls[c] EXCEPT !.phase = p]
  <2>1. new.phase = p /\ new.kind = calls[c].kind /\ new.pair = calls[c].pair
    BY <1>2, <1>4 DEF Call
  <2>2. Fine(new)
    <3>1. ASSUME NEW q \in 1 .. issued, Knows(new, q)
          PROVE  Known(q)
      <4>1. Knows(calls[c], q)
        BY <1>4, <2>1, <3>1 DEF Knows
      <4>. QED  BY <1>2, <1>4, <4>1
    <3>. QED  BY <1>4, <2>1, <3>1
  <2>3. \A d \in Calls : calls'[d] = calls[d] \/ calls'[d] = new
    BY <1>4 DEF Answer
  <2>. HIDE DEF Fine, CallsFine, new
  <2>. QED  BY <1>3, <2>2, <2>3
<1>5. ASSUME NEW t \in Tabs, NEW c \in Calls, NEW kind \in AuthKinds, Ask(t, c, kind)
      PROVE  OfAdmins'
  <2>. DEFINE new == NewCall(t, kind, current[t].user, current[t].pair)
  <2>1. Fine(new)
    BY <1>2, <1>5 DEF Ask, Screen, NewCall, Knows
  <2>2. CallsFine
    <3>1. calls' = [calls EXCEPT ![c] = new]
      BY <1>5 DEF Ask, Send
    <3>. HIDE DEF Fine, CallsFine, new
    <3>. QED  BY <1>3, <2>1, <3>1
  <2>. HIDE DEF CallsFine, PagesFine, RowsFine
  <2>. QED  BY <1>1, <1>2, <1>5, <2>2 DEF Ask, serverVars, pageVars
<1>6. ASSUME NEW t \in Tabs, NEW c \in Calls, NEW a \in Accounts, SignIn(t, c, a)
      PROVE  OfAdmins'
  <2>. DEFINE new == NewCall(t, "login", a, 0)
  <2>1. Fine(new)
    BY DEF NewCall, Knows, AuthKinds
  <2>2. CallsFine
    <3>1. calls' = [calls EXCEPT ![c] = new]
      BY <1>6 DEF SignIn, Send
    <3>. HIDE DEF Fine, CallsFine, new
    <3>. QED  BY <1>3, <2>1, <3>1
  <2>. HIDE DEF CallsFine, PagesFine, RowsFine
  <2>. QED  BY <1>1, <1>2, <1>6, <2>2 DEF SignIn, serverVars, pageVars
<1>7. ASSUME NEW t \in Tabs, Reload(t)
      PROVE  OfAdmins'
  <2>. DEFINE new(d) == [calls[d] EXCEPT !.tab = None]
  <2>1. ASSUME NEW d \in Calls, calls[d] /= None
        PROVE  Fine(new(d))
    <3>1. /\ new(d).kind = calls[d].kind /\ new(d).pair = calls[d].pair /\ new(d).phase = calls[d].phase
          /\ new(d).as = calls[d].as /\ new(d).reply = calls[d].reply
      BY <1>2, <2>1 DEF Call
    <3>2. \A p \in 1 .. issued : Knows(new(d), p) => Knows(calls[d], p)
      BY <3>1 DEF Knows
    <3>. QED  BY <1>2, <2>1, <3>1, <3>2
  <2>2. \A d \in Calls : calls'[d] \in {calls[d], None} \/ (calls[d] /= None /\ calls'[d] = new(d))
    BY <1>7 DEF Reload, Of
  <2>3. CallsFine
    <3>. HIDE DEF Fine, CallsFine, new
    <3>. QED  BY <1>3, <2>1, <2>2
  <2>4. PagesFine
    BY <1>2, <1>7 DEF Reload
  <2>. HIDE DEF CallsFine, PagesFine, RowsFine
  <2>. QED  BY <1>1, <1>2, <1>7, <2>3, <2>4 DEF Reload, serverVars
<1>8. ASSUME NEW c \in Calls, Refuse(c) \/ Deny(c) \/ FindSession(c) \/ RotateNothing(c)
      PROVE  OfAdmins'
  <2>. HIDE DEF CallsFine, PagesFine, RowsFine
  <2>1. CallsFine
    BY <1>4, <1>8 DEF Refuse, Deny, FindSession, RotateNothing, Served, Renewing
  <2>. QED  BY <1>1, <1>2, <1>8, <2>1 DEF Refuse, Deny, FindSession, RotateNothing, serverVars, pageVars
<1>9. ASSUME NEW c \in Calls, NEW r \in Rows, calls[c] /= None, calls[c].kind \in AuthKinds,
             table[r] /= None, table[r].pair = calls[c].pair
      PROVE  table[r].user \in Admins
  <2>1. Known(table[r].pair)
    BY <1>9 DEF Known, Knows
  <2>. QED  BY <1>9, <2>1 DEF OfAdmins
<1>10. ASSUME NEW c \in Calls, NEW r \in Rows, Serve(c, r)
       PROVE  OfAdmins'
  <2>. DEFINE new == [calls[c] EXCEPT !.phase = "done", !.as = table[r].user, !.effects = @ + 1]
  <2>1. /\ calls[c] /= None /\ calls[c].kind \in AuthKinds /\ table[r] \in Row /\ table[r] /= None
        /\ table[r].pair = calls[c].pair /\ calls[c] \in Call
    BY <1>10 DEF Serve, Authenticates, Live
  <2>2. new.phase = "done" /\ new.kind = calls[c].kind /\ new.pair = calls[c].pair /\ new.as = table[r].user
    BY <2>1 DEF Call
  <2>3. table[r].user \in Admins
    BY <1>9, <2>1
  <2>4. Fine(new)
    <3>. HIDE DEF new
    <3>1. ASSUME NEW q \in 1 .. issued, Knows(new, q)
          PROVE  Known(q)
      <4>1. Knows(calls[c], q)
        BY <2>1, <2>2, <3>1 DEF Knows, AuthKinds
      <4>. QED  BY <1>2, <2>1, <4>1
    <3>. QED  BY <2>2, <2>3, <3>1
  <2>5. CallsFine
    <3>1. calls' = [calls EXCEPT ![c] = new]
      BY <1>10 DEF Serve
    <3>. HIDE DEF Fine, CallsFine, new
    <3>. QED  BY <1>3, <2>4, <3>1
  <2>6. RowsFine
    BY <1>10, <2>1 DEF Serve, Row
  <2>. HIDE DEF CallsFine, PagesFine, RowsFine
  <2>. QED  BY <1>1, <1>2, <1>10, <2>5, <2>6 DEF Serve, pageVars
<1>11. ASSUME NEW c \in Calls, NEW r \in Rows, CreateSession(c, r)
       PROVE  OfAdmins'
  <2>. DEFINE new == [calls[c] EXCEPT !.phase = "done", !.as = calls[c].by, !.reply = issued + 1]
  <2>1. /\ calls[c] \in Call /\ calls[c] /= None /\ calls[c].kind = "login"
        /\ calls' = [calls EXCEPT ![c] = new] /\ UNCHANGED <<stored, current>>
    BY <1>11 DEF CreateSession, pageVars
  <2>2. /\ new.phase = "done" /\ new.kind = "login" /\ new.pair = calls[c].pair
        /\ new.as = calls[c].by /\ new.reply = issued + 1
    BY <2>1 DEF Call
  <2>. HIDE DEF new
  <2>3. Fine(new)
    <3>1. ASSUME NEW q \in 1 .. issued
          PROVE  ~Knows(new, q)
      BY <2>2 DEF Knows, AuthKinds
    <3>. QED  BY <2>2, <3>1 DEF AuthKinds
  <2>4. CallsFine
    <3>. HIDE DEF Fine, CallsFine
    <3>. QED  BY <1>3, <2>1, <2>3
  <2>5. RowFine(r)
    <3>1. table'[r].pair = issued + 1 /\ table'[r].user = calls[c].by
      BY <1>11 DEF CreateSession
    <3>2. ASSUME NEW n, n = issued + 1, Known(n)'
          PROVE  calls[c].by \in Admins
      <4>1. ~(stored' /= None /\ stored'.pair = n)
        BY <2>1, <3>2 DEF Bounds, Session
      <4>2. \A t \in Tabs : ~(current'[t] /= None /\ current'[t].pair = n)
        BY <2>1, <3>2 DEF Bounds, Session
      <4>3. PICK d \in Calls : calls'[d] /= None /\ Knows(calls'[d], n)
        BY <3>2, <4>1, <4>2 DEF Known, Knows
      <4>4. CASE d = c
        BY <2>1, <2>2, <3>2, <4>3, <4>4 DEF Knows, AuthKinds
      <4>5. CASE d /= c
        BY <2>1, <3>2, <4>3, <4>5 DEF Knows, Bounds, Call
      <4>. QED  BY <4>4, <4>5
    <3>. QED  BY <3>1, <3>2
  <2>6. RowsFine
    BY <1>11, <2>5 DEF CreateSession
  <2>7. PagesFine
    BY <1>2, <2>1
  <2>. HIDE DEF CallsFine, PagesFine, RowsFine
  <2>. QED  BY <1>1, <2>4, <2>6, <2>7
<1>12. ASSUME NEW c \in Calls, NEW r \in Rows, Rotate(c, r)
       PROVE  OfAdmins'
  <2>. DEFINE new == [calls[c] EXCEPT !.phase = "renewed", !.as = table[r].user, !.reply = issued + 1]
  <2>1. /\ calls[c] \in Call /\ calls[c] /= None /\ calls[c].phase = "found" /\ table[r] \in Row
        /\ table[r] /= None /\ table[r].pair = calls[c].pair
        /\ calls' = [calls EXCEPT ![c] = new] /\ UNCHANGED <<stored, current>>
    BY <1>12 DEF Rotate, Holds, Live, pageVars
  <2>2. calls[c].kind \in AuthKinds
    BY <2>1 DEF Effects, Served, Call
  <2>3. table[r].user \in Admins
    BY <1>9, <2>1, <2>2
  <2>4. /\ new.phase = "renewed" /\ new.kind = calls[c].kind /\ new.pair = calls[c].pair
        /\ new.as = table[r].user /\ new.reply = issued + 1
    BY <2>1 DEF Call
  <2>. HIDE DEF new
  <2>5. Fine(new)
    <3>1. ASSUME NEW q \in 1 .. issued, Knows(new, q)
          PROVE  Known(q)
      <4>1. Knows(calls[c], q)
        BY <2>2, <2>4, <3>1 DEF Knows, AuthKinds
      <4>. QED  BY <1>2, <2>1, <4>1
    <3>. QED  BY <2>3, <2>4, <3>1
  <2>6. CallsFine
    <3>. HIDE DEF Fine, CallsFine
    <3>. QED  BY <1>3, <2>1, <2>5
  <2>7. RowsFine
    BY <1>12, <2>1, <2>3 DEF Rotate, Row
  <2>8. PagesFine
    BY <1>2, <2>1
  <2>. HIDE DEF CallsFine, PagesFine, RowsFine
  <2>. QED  BY <1>1, <2>6, <2>7, <2>8
<1>13. ASSUME NEW r \in Rows, Expire(r) \/ End(r)
       PROVE  OfAdmins'
  <2>1. RowsFine
    BY <1>13 DEF Expire, End, Live, Row
  <2>. HIDE DEF CallsFine, PagesFine, RowsFine
  <2>. QED  BY <1>1, <1>2, <1>13, <2>1 DEF Expire, End, pageVars
<1>14. ASSUME NEW t \in Tabs, LearnRelease(t)
       PROVE  OfAdmins'
  <2>. HIDE DEF CallsFine, PagesFine, RowsFine
  <2>. QED  BY <1>1, <1>2, <1>14 DEF LearnRelease, serverVars
<1>15. CASE Upgrade \/ UNCHANGED sessionVars
  <2>. HIDE DEF CallsFine, PagesFine, RowsFine
  <2>. QED  BY <1>1, <1>2, <1>15 DEF Upgrade, sessionVars, serverVars, pageVars
<1>16. ASSUME NEW c \in Calls, Lose(c)
       PROVE  OfAdmins'
  <2>. HIDE DEF CallsFine, PagesFine, RowsFine
  <2>1. CallsFine
    BY <1>4, <1>16 DEF Lose, Served, Renewing
  <2>. QED  BY <1>1, <1>2, <1>16, <2>1 DEF Lose, serverVars, pageVars
<1>17. ASSUME NEW c \in Calls, Forget(c)
       PROVE  OfAdmins'
  <2>1. CallsFine
    BY <1>3, <1>17 DEF Forget
  <2>. HIDE DEF CallsFine, PagesFine, RowsFine
  <2>. QED  BY <1>1, <1>2, <1>17, <2>1 DEF Forget, serverVars, pageVars
<1>18. ASSUME NEW t \in Tabs, NEW c \in Calls, Join(c, t)
       PROVE  OfAdmins'
  <2>. HIDE DEF CallsFine, PagesFine, RowsFine
  <2>1. CallsFine
    BY <1>4, <1>18 DEF Join, Answered, Of
  <2>. QED  BY <1>1, <1>2, <1>18, <2>1 DEF Join, serverVars, pageVars
<1>19. ASSUME NEW t \in Tabs, NEW c \in Calls, Present(c, t)
       PROVE  OfAdmins'
  <2>. DEFINE new == [calls[c] EXCEPT !.phase = "presented", !.pair = current[t].pair]
  <2>1. calls[c] /= None /\ calls[c] \in Call /\ current[t] /= None /\ calls' = [calls EXCEPT ![c] = new]
    BY <1>19 DEF Present, Answered, Of, Retries
  <2>2. new.phase = "presented" /\ new.kind = calls[c].kind /\ new.pair = current[t].pair
    BY <2>1 DEF Call
  <2>. HIDE DEF new
  <2>3. Fine(new)
    <3>1. ASSUME NEW q \in 1 .. issued, Knows(new, q)
          PROVE  Known(q)
      <4>1. q = current[t].pair
        BY <2>2, <3>1 DEF Knows
      <4>. QED  BY <1>2, <2>1, <4>1
    <3>. QED  BY <2>2, <3>1
  <2>4. CallsFine
    <3>. HIDE DEF Fine, CallsFine
    <3>. QED  BY <1>3, <2>1, <2>3
  <2>. HIDE DEF CallsFine, PagesFine, RowsFine
  <2>. QED  BY <1>1, <1>2, <1>19, <2>4 DEF Present, serverVars, pageVars
<1>20. ASSUME NEW t \in Tabs, NEW s, SetSession(t, s), s /= None => Known(s.pair)
       PROVE  PagesFine
  BY <1>2, <1>20 DEF SetSession
<1>21. ASSUME NEW t \in Tabs, NEW c \in Calls, Renewed(c, t)
       PROVE  OfAdmins'
  <2>. DEFINE new(d) == [calls[d] EXCEPT !.phase = "sent", !.pair = calls[c].reply, !.reply = 0,
                                         !.as = None, !.again = TRUE]
  <2>1. calls[c] /= None /\ calls[c] \in Call /\ Known(calls[c].reply)
    BY <1>21 DEF Renewed, Of, Known, Knows
  <2>2. ASSUME NEW d \in Calls, calls[d] /= None
        PROVE  Fine(new(d))
    <3>1. new(d).phase = "sent" /\ new(d).pair = calls[c].reply
      BY <2>2 DEF Call
    <3>2. ASSUME NEW q \in 1 .. issued, Knows(new(d), q)
          PROVE  Known(q)
      <4>. HIDE DEF new
      <4>1. q = calls[c].reply
        BY <3>1, <3>2 DEF Knows
      <4>. QED  BY <2>1, <4>1
    <3>. QED  BY <3>1, <3>2
  <2>3. \A d \in Calls : calls'[d] = calls[d] \/ (calls[d] /= None /\ calls'[d] = new(d))
    BY <1>21, <2>1 DEF Renewed, Waiting, Of
  <2>4. CallsFine
    <3>. HIDE DEF Fine, CallsFine, new
    <3>. QED  BY <1>3, <2>2, <2>3
  <2>5. PagesFine
    <3>. HIDE DEF PagesFine
    <3>. QED  BY <1>20, <1>21, <2>1 DEF Renewed
  <2>. HIDE DEF CallsFine, PagesFine, RowsFine
  <2>. QED  BY <1>1, <1>2, <1>21, <2>4, <2>5 DEF Renewed, serverVars
<1>22. ASSUME NEW t \in Tabs, NEW c \in Calls, NotRenewed(c, t)
       PROVE  OfAdmins'
  <2>1. CallsFine
    BY <1>3, <1>22 DEF NotRenewed
  <2>. HIDE DEF CallsFine, PagesFine, RowsFine
  <2>2. PagesFine
    BY <1>20, <1>22 DEF NotRenewed
  <2>. QED  BY <1>1, <1>2, <1>22, <2>1, <2>2 DEF NotRenewed, serverVars
<1>23. ASSUME NEW t \in Tabs, NEW c \in Calls, Settle(c, t)
       PROVE  OfAdmins'
  <2>1. CallsFine
    BY <1>3, <1>23 DEF Settle
  <2>. HIDE DEF CallsFine, PagesFine, RowsFine
  <2>2. PagesFine
    <3>1. calls[c] /= None /\ calls[c] \in Call
      BY <1>23 DEF Settle, Answered, Of
    <3>2. CASE calls[c].kind = "login" /\ calls[c].phase = "done" /\ calls[c].as \in Admins
      <4>1. Known(calls[c].reply)
        BY <3>1, <3>2 DEF Known, Knows
      <4>2. SetSession(t, [pair |-> calls[c].reply, user |-> calls[c].as])
        BY <1>23, <3>2 DEF Settle, Outcome
      <4>. QED  BY <1>20, <4>1, <4>2
    <3>3. CASE calls[c].kind = "self" /\ calls[c].phase = "done" /\ current[t] /= None
      <4>1. SetSession(t, [current[t] EXCEPT !.user = calls[c].as])
        BY <1>23, <3>3 DEF Settle, Outcome, UpdatedSelf
      <4>2. Known(current[t].pair) /\ [current[t] EXCEPT !.user = calls[c].as].pair = current[t].pair
        BY <1>2, <3>3 DEF Session
      <4>. QED  BY <1>20, <4>1, <4>2
    <3>4. CASE calls[c].kind = "logout"
      BY <1>20, <1>23, <3>4 DEF Settle, Outcome
    <3>5. CASE /\ ~(calls[c].kind = "login" /\ calls[c].phase = "done" /\ calls[c].as \in Admins)
               /\ ~(calls[c].kind = "self" /\ calls[c].phase = "done" /\ current[t] /= None)
               /\ calls[c].kind /= "logout"
      BY <1>2, <1>23, <3>5 DEF Settle, Outcome, UpdatedSelf
    <3>. QED  BY <3>2, <3>3, <3>4, <3>5
  <2>. QED  BY <1>1, <1>2, <1>23, <2>1, <2>2 DEF Settle, serverVars
<1>. HIDE DEF SessionTypeOK
<1>24. ASSUME NEW t \in Tabs, PageStep(t)
       PROVE  OfAdmins'
  BY <1>5, <1>6, <1>7, <1>14, <1>18, <1>19, <1>21, <1>22, <1>23, <1>24 DEF PageStep, ChangeSelf, AuthKinds
<1>25. CASE ServerStep
  BY <1>8, <1>10, <1>11, <1>12, <1>13, <1>15, <1>25 DEF ServerStep
<1>. QED  BY <1>15, <1>16, <1>17, <1>24, <1>25 DEF SessionNext

\* While a page waits for the answer to the pair it presented, it presents none.
LEMMA PresentationsStep ==
  ASSUME SessionTypeOK, Bounds, Effects, Presentations, [SessionNext]_sessionVars
  PROVE  Presentations'
<1>. USE ConsoleAssumption DEF SessionTypeOK
<1>. DEFINE InOf(t, d)  == calls'[d] /= None /\ calls'[d].tab = t
            WasOf(t, d) == calls[d] /= None /\ calls[d].tab = t
            Waits(t)    == \E d \in Calls : InOf(t, d) /\ calls'[d].phase \in Renewing
            Waited(t)   == \E d \in Calls : WasOf(t, d) /\ calls[d].phase \in Renewing
            \* The invariant of one page, after the step and before it.
            Good(t) ==
              /\ current'[t] /= None /\ current'[t].pair \in presented'[t] => Waits(t)
              /\ \A c \in Calls : InOf(t, c) /\ Pending(calls'[c]) =>
                   /\ calls'[c].reply \notin presented'[t]
                   /\ current'[t] /= None => current'[t].pair /= calls'[c].reply
                   /\ \A d \in Calls : InOf(t, d) /\ Pending(calls'[d]) /\ calls'[d].reply = calls'[c].reply => d = c
            Was(t) ==
              /\ current[t] /= None /\ current[t].pair \in presented[t] => Waited(t)
              /\ \A c \in Calls : WasOf(t, c) /\ Pending(calls[c]) =>
                   /\ calls[c].reply \notin presented[t]
                   /\ current[t] /= None => current[t].pair /= calls[c].reply
                   /\ \A d \in Calls : WasOf(t, d) /\ Pending(calls[d]) /\ calls[d].reply = calls[c].reply => d = c
            \* No answer with a pair comes to the page, and it waits on.
            Quiet(t) ==
              /\ \A d \in Calls : InOf(t, d) /\ Pending(calls'[d]) =>
                   WasOf(t, d) /\ Pending(calls[d]) /\ calls'[d].reply = calls[d].reply
              /\ Waited(t) => Waits(t)
<1>1. ASSUME \A t \in Tabs : Good(t)
      PROVE  Presentations'
  BY <1>1 DEF Presentations, Of, Refreshing, Pending
<1>2. ASSUME NEW t \in Tabs
      PROVE  Was(t)
  BY DEF Presentations, Of, Refreshing
<1>3. ASSUME NEW t \in Tabs, Quiet(t), current'[t] = current[t], presented'[t] = presented[t]
      PROVE  Good(t)
  <2>. HIDE DEF InOf, WasOf, Waits, Waited
  <2>. QED  BY <1>2, <1>3
<1>4. ASSUME UNCHANGED calls, NEW t \in Tabs
      PROVE  Quiet(t)
  BY <1>4 DEF Pending
<1>5. ASSUME NEW c \in Calls, NEW new, calls[c] /= None => calls[c].phase \notin Renewing \/ new.phase \in Renewing,
             calls' = [calls EXCEPT ![c] = new], ~Pending(new),
             calls[c] = None \/ new.tab = calls[c].tab, new /= None
      PROVE  \A t \in Tabs : Quiet(t)
  <2>1. calls'[c] = new /\ \A d \in Calls \ {c} : calls'[d] = calls[d]
    BY <1>5
  <2>2. ASSUME NEW t \in Tabs, NEW d \in Calls, InOf(t, d), Pending(calls'[d])
        PROVE  WasOf(t, d) /\ Pending(calls[d]) /\ calls'[d].reply = calls[d].reply
    <3>1. d /= c
      BY <1>5, <2>1, <2>2 DEF Pending
    <3>. QED  BY <2>1, <2>2, <3>1 DEF Pending
  <2>3. ASSUME NEW t \in Tabs, NEW d \in Calls, WasOf(t, d), calls[d].phase \in Renewing
        PROVE  Waits(t)
    <3>1. CASE d = c
      BY <1>5, <2>1, <2>3, <3>1
    <3>2. CASE d /= c
      BY <2>1, <2>3, <3>2
    <3>. QED  BY <3>1, <3>2
  <2>. HIDE DEF InOf, WasOf
  <2>. QED  BY <2>2, <2>3
<1>6. ASSUME NEW c \in Calls, calls[c] /= None,
             NEW p \in Served \cup Renewing \cup {"waiting"}, Answer(c, p),
             p \notin {"renewed", "done"}, calls[c].phase \in Renewing => p \in Renewing
      PROVE  \A t \in Tabs : Quiet(t)
  <2>. DEFINE new == [calls[c] EXCEPT !.phase = p]
  <2>1. new \in Call /\ new.phase = p /\ new.tab = calls[c].tab /\ calls' = [calls EXCEPT ![c] = new]
    BY <1>6 DEF Answer, Call
  <2>2. ~Pending(new) /\ new /= None
    <3>. HIDE DEF new
    <3>. QED  BY <1>6, <2>1 DEF Pending
  <2>. HIDE DEF new, Quiet
  <2>. QED  BY <1>5, <1>6, <2>1, <2>2
<1>7. ASSUME \A t \in Tabs : Quiet(t), UNCHANGED <<current, presented>>
      PROVE  Presentations'
  <2>. HIDE DEF Quiet, Good
  <2>. QED  BY <1>1, <1>3, <1>7
<1>8. ASSUME NEW t \in Tabs, NEW c \in Calls, NEW kind \in AuthKinds, Ask(t, c, kind)
      PROVE  Presentations'
  <2>. DEFINE new == NewCall(t, kind, current[t].user, current[t].pair)
  <2>1. current[t] \in Session
    BY <1>8 DEF Ask, Screen
  <2>2. new \in Call /\ new.phase = "sent" /\ calls[c] = None /\ calls' = [calls EXCEPT ![c] = new]
    BY <1>8, <2>1 DEF Ask, Send, NewCall, Call, Session, Served
  <2>3. ~Pending(new) /\ new /= None
    <3>. HIDE DEF new
    <3>. QED  BY <2>2 DEF Pending
  <2>. HIDE DEF new, Quiet
  <2>. QED  BY <1>5, <1>7, <1>8, <2>2, <2>3 DEF Ask, pageVars, historyVars
<1>9. ASSUME NEW t \in Tabs, NEW c \in Calls, NEW a \in Accounts, SignIn(t, c, a)
      PROVE  Presentations'
  <2>. DEFINE new == NewCall(t, "login", a, 0)
  <2>1. new \in Call /\ new.phase = "sent" /\ calls[c] = None /\ calls' = [calls EXCEPT ![c] = new]
    BY <1>9 DEF SignIn, Send, NewCall, Call, Served
  <2>2. ~Pending(new) /\ new /= None
    <3>. HIDE DEF new
    <3>. QED  BY <2>1 DEF Pending
  <2>. HIDE DEF new, Quiet
  <2>. QED  BY <1>5, <1>7, <1>9, <2>1, <2>2 DEF SignIn, pageVars, historyVars
<1>10. ASSUME NEW t \in Tabs, Reload(t)
       PROVE  Presentations'
  <2>1. \A d \in Calls : ~InOf(t, d)
    BY <1>10 DEF Reload, Of, Call
  <2>2. \A u \in Tabs \ {t} : /\ current'[u] = current[u] /\ presented'[u] = presented[u]
                              /\ \A d \in Calls : WasOf(u, d) => calls'[d] = calls[d]
                              /\ \A d \in Calls : InOf(u, d) => calls'[d] = calls[d]
    BY <1>10 DEF Reload, Of, Call
  <2>3. ASSUME NEW u \in Tabs \ {t}
        PROVE  Quiet(u)
    BY <2>2 DEF Pending
  <2>4. ASSUME NEW u \in Tabs \ {t}
        PROVE  Good(u)
    <3>. HIDE DEF Quiet, Good, InOf, WasOf
    <3>. QED  BY <1>3, <2>2, <2>3
  <2>5. Good(t)
    <3>1. presented'[t] = {}
      BY <1>10 DEF Reload
    <3>. HIDE DEF InOf
    <3>. QED  BY <2>1, <3>1
  <2>. HIDE DEF Good
  <2>. QED  BY <1>1, <2>4, <2>5
<1>11. ASSUME NEW c \in Calls, Refuse(c) \/ Deny(c) \/ FindSession(c) \/ RotateNothing(c)
       PROVE  Presentations'
  <2>. HIDE DEF Quiet
  <2>1. CASE Refuse(c) \/ Deny(c)
    BY <1>6, <1>7, <2>1 DEF Refuse, Deny, Served, Renewing, pageVars, historyVars
  <2>2. CASE FindSession(c) \/ RotateNothing(c)
    BY <1>6, <1>7, <2>2 DEF FindSession, RotateNothing, Renewing, pageVars, historyVars
  <2>. QED  BY <1>11, <2>1, <2>2
<1>12. ASSUME NEW c \in Calls, NEW r \in Rows, Serve(c, r)
       PROVE  Presentations'
  <2>. DEFINE new == [calls[c] EXCEPT !.phase = "done", !.as = table[r].user, !.effects = @ + 1]
  <2>1. /\ calls[c] /= None /\ calls[c].kind \in AuthKinds /\ calls[c].phase = "sent"
        /\ calls[c] \in Call /\ table[r] \in Row
    BY <1>12 DEF Serve, Authenticates, Live
  <2>2. new \in Call
    <3>1. table[r].user \in Accounts /\ calls[c].effects + 1 \in Nat /\ "done" \in Served
      BY <2>1 DEF Call, Row, Served
    <3>. QED  BY <2>1, <3>1, CallForms
  <2>3. new.phase = "done" /\ new.kind = calls[c].kind /\ new.tab = calls[c].tab
    BY <2>1 DEF Call
  <2>4. calls' = [calls EXCEPT ![c] = new]
    BY <1>12 DEF Serve
  <2>5. ~Pending(new) /\ new /= None /\ calls[c].phase \notin Renewing
    <3>. HIDE DEF new
    <3>. QED  BY <2>1, <2>2, <2>3 DEF Pending, AuthKinds, Renewing
  <2>. HIDE DEF new, Quiet
  <2>. QED  BY <1>5, <1>7, <1>12, <2>1, <2>3, <2>4, <2>5 DEF Serve, pageVars, historyVars
<1>13. ASSUME NEW c \in Calls, NEW new \in Call, calls[c] /= None, calls' = [calls EXCEPT ![c] = new],
              Pending(new), new.tab = calls[c].tab, new.reply = issued + 1,
              calls[c].phase \in Renewing => new.phase \in Renewing,
              UNCHANGED <<current, presented>>
       PROVE  Presentations'
  <2>1. calls'[c] = new /\ \A d \in Calls \ {c} : calls'[d] = calls[d]
    BY <1>13
  <2>2. ASSUME NEW t \in Tabs, Waited(t)
        PROVE  Waits(t)
    <3>1. PICK d \in Calls : WasOf(t, d) /\ calls[d].phase \in Renewing
      BY <2>2
    <3>2. CASE d = c
      BY <1>13, <2>1, <3>1, <3>2
    <3>3. CASE d /= c
      BY <2>1, <3>1, <3>3
    <3>. QED  BY <3>2, <3>3
  <2>3. ASSUME NEW t \in Tabs, NEW d \in Calls, InOf(t, d), Pending(calls'[d])
        PROVE  /\ calls'[d].reply \notin presented'[t]
               /\ current'[t] /= None => current'[t].pair /= calls'[d].reply
               /\ \A e \in Calls : InOf(t, e) /\ Pending(calls'[e]) /\ calls'[e].reply = calls'[d].reply => e = d
    <3>. DEFINE n == issued + 1
    <3>1. (\A p \in presented[t] : p < n) /\ (current[t] /= None => current[t].pair < n)
      BY DEF Bounds, Session
    <3>2. \A e \in Calls \ {c} : calls[e] /= None => calls[e].reply < n
      BY DEF Bounds, Call
    <3>3. n \notin presented[t] /\ (current[t] /= None => current[t].pair /= n)
          /\ \A e \in Calls \ {c} : calls[e] /= None => calls[e].reply /= n
      <4>1. n \in Nat /\ presented[t] \subseteq Nat /\ (current[t] /= None => current[t].pair \in Nat)
        BY DEF Session
      <4>2. \A e \in Calls : calls[e] /= None => calls[e].reply \in Nat
        BY DEF Call
      <4>. HIDE DEF n
      <4>. QED  BY <3>1, <3>2, <4>1, <4>2
    <3>. HIDE DEF n
    <3>4. new.reply = n
      BY <1>13 DEF n
    <3>5. CASE d = c
      <4>1. \A e \in Calls \ {c} : InOf(t, e) => calls'[e].reply /= n
        BY <2>1, <3>3
      <4>. QED  BY <1>13, <2>1, <3>3, <3>4, <3>5, <4>1
    <3>6. CASE d /= c
      <4>1. WasOf(t, d) /\ Pending(calls[d]) /\ calls'[d] = calls[d] /\ calls[d].reply /= n
        BY <2>1, <2>3, <3>3, <3>6 DEF Pending
      <4>2. /\ calls[d].reply \notin presented[t]
            /\ current[t] /= None => current[t].pair /= calls[d].reply
            /\ \A e \in Calls : WasOf(t, e) /\ Pending(calls[e]) /\ calls[e].reply = calls[d].reply => e = d
        BY <1>2, <4>1
      <4>3. ASSUME NEW e \in Calls, InOf(t, e), Pending(calls'[e]), calls'[e].reply = calls'[d].reply
            PROVE  e = d
        <5>1. e /= c
          BY <2>1, <3>4, <4>1, <4>3
        <5>2. WasOf(t, e) /\ Pending(calls[e]) /\ calls[e].reply = calls[d].reply
          BY <2>1, <4>1, <4>3, <5>1 DEF Pending
        <5>. QED  BY <4>2, <5>2
      <4>. QED  BY <1>13, <4>1, <4>2, <4>3
    <3>. QED  BY <3>5, <3>6
  <2>4. ASSUME NEW t \in Tabs
        PROVE  current'[t] /= None /\ current'[t].pair \in presented'[t] => Waits(t)
    <3>. HIDE DEF Waits, Waited
    <3>. QED  BY <1>2, <1>13, <2>2
  <2>. HIDE DEF InOf, Waits
  <2>. QED  BY <1>1, <2>3, <2>4
<1>14. ASSUME NEW c \in Calls, NEW r \in Rows, CreateSession(c, r)
       PROVE  Presentations'
  <2>. DEFINE new == [calls[c] EXCEPT !.phase = "done", !.as = calls[c].by, !.reply = issued + 1]
  <2>1. /\ calls[c] \in Call /\ calls[c] /= None /\ calls[c].kind = "login" /\ calls[c].phase = "sent"
        /\ calls' = [calls EXCEPT ![c] = new] /\ UNCHANGED <<current, presented>>
    BY <1>14 DEF CreateSession, pageVars, historyVars
  <2>2. new \in Call
    <3>1. calls[c].by \in Accounts /\ issued + 1 \in Nat /\ "done" \in Served
      BY <2>1 DEF Call, Served
    <3>. QED  BY <2>1, <3>1, CallForms
  <2>3. new.phase = "done" /\ new.kind = "login" /\ new.tab = calls[c].tab /\ new.reply = issued + 1
    BY <2>1 DEF Call
  <2>. HIDE DEF new
  <2>4. Pending(new) /\ calls[c].phase \notin Renewing
    BY <2>1, <2>3 DEF Pending, Renewing
  <2>. QED  BY <1>13, <2>1, <2>2, <2>3, <2>4
<1>15. ASSUME NEW c \in Calls, NEW r \in Rows, Rotate(c, r)
       PROVE  Presentations'
  <2>. DEFINE new == [calls[c] EXCEPT !.phase = "renewed", !.as = table[r].user, !.reply = issued + 1]
  <2>1. /\ calls[c] \in Call /\ calls[c] /= None /\ table[r] \in Row
        /\ calls' = [calls EXCEPT ![c] = new] /\ UNCHANGED <<current, presented>>
    BY <1>15 DEF Rotate, Holds, Live, pageVars
  <2>2. new \in Call
    <3>1. table[r].user \in Accounts /\ issued + 1 \in Nat /\ "renewed" \in Renewing
      BY <2>1 DEF Row, Renewing
    <3>. QED  BY <2>1, <3>1, CallForms
  <2>3. new.phase = "renewed" /\ new.tab = calls[c].tab /\ new.reply = issued + 1
    BY <2>1 DEF Call
  <2>. HIDE DEF new
  <2>4. Pending(new) /\ new.phase \in Renewing
    BY <2>3 DEF Pending, Renewing
  <2>. QED  BY <1>13, <2>1, <2>2, <2>3, <2>4
<1>16. ASSUME UNCHANGED <<calls, current, presented>>
       PROVE  Presentations'
  <2>. HIDE DEF Quiet
  <2>. QED  BY <1>4, <1>7, <1>16
<1>17. ASSUME NEW c \in Calls, Lose(c)
       PROVE  Presentations'
  <2>. HIDE DEF Quiet
  <2>1. CASE calls[c].phase \in Served \ {"lost"} /\ Answer(c, "lost")
    BY <1>6, <1>7, <1>17, <2>1 DEF Lose, Served, Renewing, pageVars
  <2>2. CASE calls[c].phase \in Renewing \ {"cut"} /\ Answer(c, "cut")
    BY <1>6, <1>7, <1>17, <2>2 DEF Lose, Renewing, pageVars
  <2>. QED  BY <1>17, <2>1, <2>2 DEF Lose
<1>18. ASSUME NEW c \in Calls, Forget(c)
       PROVE  Presentations'
  <2>1. ASSUME NEW t \in Tabs
        PROVE  Quiet(t)
    <3>1. ~WasOf(t, c) /\ calls'[c] = None /\ \A d \in Calls \ {c} : calls'[d] = calls[d]
      BY <1>18 DEF Forget
    <3>. QED  BY <3>1 DEF Pending
  <2>. HIDE DEF Quiet
  <2>. QED  BY <1>7, <1>18, <2>1 DEF Forget, pageVars, historyVars
<1>19. ASSUME NEW t \in Tabs, NEW c \in Calls, Join(c, t)
       PROVE  Presentations'
  <2>. HIDE DEF Quiet
  <2>. QED  BY <1>6, <1>7, <1>19 DEF Join, Answered, Retries, Of, Renewing, pageVars, historyVars
<1>20. ASSUME NEW t \in Tabs, NEW c \in Calls, Present(c, t)
       PROVE  Presentations'
  <2>. DEFINE new == [calls[c] EXCEPT !.phase = "presented", !.pair = current[t].pair]
  <2>1. /\ calls[c] /= None /\ calls[c] \in Call /\ calls[c].tab = t /\ calls[c].phase = "denied"
        /\ current[t] \in Session /\ calls' = [calls EXCEPT ![c] = new] /\ current' = current
        /\ presented' = [presented EXCEPT ![t] = @ \cup {current[t].pair}]
    BY <1>20 DEF Present, Answered, Of, Retries, pageVars
  <2>2. new \in Call
    <3>1. current[t].pair \in Nat /\ "presented" \in Renewing
      BY <2>1 DEF Session, Renewing
    <3>. QED  BY <2>1, <3>1 DEF Call
  <2>3. new.phase = "presented" /\ new.tab = t /\ new /= None
    BY <2>1, <2>2 DEF Call
  <2>. HIDE DEF new
  <2>4. ~Pending(new) /\ new.phase \in Renewing
    BY <2>3 DEF Pending, Renewing
  <2>5. \A u \in Tabs : Quiet(u)
    <3>. HIDE DEF Quiet
    <3>. QED  BY <1>5, <2>1, <2>3, <2>4
  <2>6. ASSUME NEW u \in Tabs \ {t}
        PROVE  Good(u)
    <3>1. current'[u] = current[u] /\ presented'[u] = presented[u]
      BY <2>1
    <3>. HIDE DEF Good, Quiet
    <3>. QED  BY <1>3, <2>5, <3>1
  <2>7. Good(t)
    <3>1. Waits(t)
      BY <2>1, <2>3, <2>4
    <3>2. presented'[t] = presented[t] \cup {current[t].pair}
      BY <2>1
    <3>3. current[t] /= None
      BY <2>1
    <3>. HIDE DEF InOf, WasOf, Waits, Waited
    <3>. QED  BY <1>2, <2>1, <2>5, <3>1, <3>2, <3>3
  <2>. HIDE DEF Good
  <2>. QED  BY <1>1, <2>6, <2>7
<1>21. ASSUME NEW t \in Tabs, NEW s, SetSession(t, s), presented' = presented,
              \A u \in Tabs \ {t} : Quiet(u),
              \A d \in Calls : InOf(t, d) /\ Pending(calls'[d]) =>
                WasOf(t, d) /\ Pending(calls[d]) /\ calls'[d].reply = calls[d].reply,
              s = None \/ /\ s.pair \notin presented[t]
                          /\ \A d \in Calls : InOf(t, d) /\ Pending(calls'[d]) => s.pair /= calls[d].reply
       PROVE  Presentations'
  <2>1. current'[t] = s /\ \A u \in Tabs \ {t} : current'[u] = current[u]
    BY <1>21 DEF SetSession
  <2>2. ASSUME NEW u \in Tabs \ {t}
        PROVE  Good(u)
    <3>1. current'[u] = current[u] /\ presented'[u] = presented[u]
      BY <1>21, <2>1
    <3>. HIDE DEF Good, Quiet
    <3>. QED  BY <1>3, <1>21, <3>1
  <2>3. Good(t)
    <3>. HIDE DEF InOf, WasOf, Waits, Waited, Quiet
    <3>. QED  BY <1>2, <1>21, <2>1
  <2>. HIDE DEF Good
  <2>. QED  BY <1>1, <2>2, <2>3
<1>22. ASSUME NEW t \in Tabs, NEW c \in Calls, Renewed(c, t)
       PROVE  Presentations'
  <2>. DEFINE new(d) == [calls[d] EXCEPT !.phase = "sent", !.pair = calls[c].reply, !.reply = 0,
                                         !.as = None, !.again = TRUE]
              s == [pair |-> calls[c].reply, user |-> calls[c].as]
  <2>1. WasOf(t, c) /\ calls[c] \in Call /\ Pending(calls[c]) /\ SetSession(t, s) /\ presented' = presented
    BY <1>22 DEF Renewed, Of, Pending, historyVars
  <2>2. \A d \in Calls : \/ d /= c /\ calls'[d] = calls[d]
                         \/ WasOf(t, d) /\ calls'[d] = new(d)
    BY <1>22, <2>1 DEF Renewed, Waiting, Of
  <2>3. \A d \in Calls : calls[d] /= None => new(d).phase = "sent" /\ new(d).tab = calls[d].tab
    BY DEF Call
  <2>. HIDE DEF new
  <2>4. ASSUME NEW d \in Calls, NEW u \in Tabs, InOf(u, d), Pending(calls'[d])
        PROVE  d /= c /\ WasOf(u, d) /\ Pending(calls[d]) /\ calls'[d].reply = calls[d].reply
    BY <2>2, <2>3, <2>4 DEF Pending
  <2>5. ASSUME NEW u \in Tabs \ {t}
        PROVE  Quiet(u)
    <3>1. Waited(u) => Waits(u)
      BY <2>2
    <3>. HIDE DEF InOf, WasOf, Waits, Waited
    <3>. QED  BY <2>4, <3>1
  <2>6. s.pair \notin presented[t]
        /\ \A d \in Calls : InOf(t, d) /\ Pending(calls'[d]) => s.pair /= calls[d].reply
    <3>. HIDE DEF InOf, WasOf
    <3>. QED  BY <1>2, <2>1, <2>4
  <2>. HIDE DEF InOf, WasOf, Quiet, s
  <2>. QED  BY <1>21, <2>1, <2>4, <2>5, <2>6
<1>23. ASSUME NEW t \in Tabs, \A d \in Calls : calls'[d] \in {calls[d], None},
              \A d \in Calls : calls[d] /= None /\ calls'[d] = None => calls[d].tab = t
       PROVE  /\ \A u \in Tabs \ {t} : Quiet(u)
              /\ \A d \in Calls : InOf(t, d) /\ Pending(calls'[d]) =>
                   WasOf(t, d) /\ Pending(calls[d]) /\ calls'[d].reply = calls[d].reply
  BY <1>23 DEF Pending
<1>24. ASSUME NEW t \in Tabs, NEW c \in Calls, NotRenewed(c, t)
       PROVE  Presentations'
  <2>1. /\ \A d \in Calls : calls'[d] \in {calls[d], None}
        /\ \A d \in Calls : calls[d] /= None /\ calls'[d] = None => calls[d].tab = t
    BY <1>24 DEF NotRenewed, Waiting, Of
  <2>2. SetSession(t, None) /\ presented' = presented
    BY <1>24 DEF NotRenewed, historyVars
  <2>. HIDE DEF InOf, WasOf, Quiet
  <2>. QED  BY <1>21, <1>23, <2>1, <2>2
<1>25. ASSUME NEW t \in Tabs, NEW c \in Calls, Settle(c, t)
       PROVE  Presentations'
  <2>1. /\ WasOf(t, c) /\ calls[c] \in Call /\ calls[c].phase \in Served
        /\ calls' = [calls EXCEPT ![c] = None] /\ presented' = presented
    BY <1>25 DEF Settle, Answered, Of, historyVars
  <2>2. /\ \A d \in Calls : calls'[d] \in {calls[d], None}
        /\ \A d \in Calls : calls[d] /= None /\ calls'[d] = None => calls[d].tab = t
    BY <2>1
  <2>3. /\ \A u \in Tabs \ {t} : Quiet(u)
        /\ \A d \in Calls : InOf(t, d) /\ Pending(calls'[d]) =>
             WasOf(t, d) /\ Pending(calls[d]) /\ calls'[d].reply = calls[d].reply
    <3>. HIDE DEF InOf, WasOf, Quiet
    <3>. QED  BY <1>23, <2>2
  <2>4. Waited(t) => Waits(t)
    BY <2>1 DEF Served, Renewing
  <2>5. CASE calls[c].kind = "login" /\ calls[c].phase = "done" /\ calls[c].as \in Admins
    <3>. DEFINE s == [pair |-> calls[c].reply, user |-> calls[c].as]
    <3>1. SetSession(t, s)
      BY <1>25, <2>5 DEF Settle, Outcome
    <3>2. Pending(calls[c])
      BY <2>5 DEF Pending
    <3>3. \A d \in Calls : InOf(t, d) => d /= c
      BY <2>1
    <3>4. s.pair \notin presented[t]
          /\ \A d \in Calls : InOf(t, d) /\ Pending(calls'[d]) => s.pair /= calls[d].reply
      <4>. HIDE DEF InOf, WasOf
      <4>. QED  BY <1>2, <2>1, <2>3, <3>2, <3>3
    <3>. HIDE DEF InOf, WasOf, Quiet, s
    <3>. QED  BY <1>21, <2>1, <2>3, <3>1, <3>4
  <2>6. CASE calls[c].kind = "logout"
    <3>1. SetSession(t, None)
      BY <1>25, <2>6 DEF Settle, Outcome
    <3>. HIDE DEF InOf, WasOf, Quiet
    <3>. QED  BY <1>21, <2>1, <2>3, <3>1
  <2>7. CASE \/ calls[c].kind = "self" /\ calls[c].phase = "done" /\ current[t] /= None
             \/ UNCHANGED current
    <3>1. /\ current'[t] /= None => current[t] /= None /\ current'[t].pair = current[t].pair
          /\ \A u \in Tabs \ {t} : current'[u] = current[u]
      <4>1. CASE UNCHANGED current
        BY <4>1
      <4>2. CASE calls[c].kind = "self" /\ calls[c].phase = "done" /\ current[t] /= None
        BY <1>25, <4>2 DEF Settle, Outcome, UpdatedSelf, SetSession, Session
      <4>. QED  BY <2>7, <4>1, <4>2
    <3>2. \A u \in Tabs \ {t} : Good(u)
      <4>. HIDE DEF Good, Quiet
      <4>. QED  BY <1>3, <2>1, <2>3, <3>1
    <3>3. Good(t)
      <4>. HIDE DEF InOf, WasOf, Waits, Waited, Quiet
      <4>. QED  BY <1>2, <2>1, <2>3, <2>4, <3>1
    <3>. HIDE DEF Good
    <3>. QED  BY <1>1, <3>2, <3>3
  <2>8. CASE /\ ~(calls[c].kind = "login" /\ calls[c].phase = "done" /\ calls[c].as \in Admins)
             /\ ~(calls[c].kind = "self" /\ calls[c].phase = "done" /\ current[t] /= None)
             /\ calls[c].kind /= "logout"
    <3>1. UNCHANGED current
      BY <1>25, <2>8 DEF Settle, Outcome, UpdatedSelf
    <3>. QED  BY <2>7, <3>1
  <2>. QED  BY <2>5, <2>6, <2>7, <2>8
<1>26. ASSUME NEW t \in Tabs, LearnRelease(t)
       PROVE  Presentations'
  BY <1>16, <1>26 DEF LearnRelease, historyVars
<1>27. ASSUME NEW r \in Rows, Expire(r) \/ End(r)
       PROVE  Presentations'
  BY <1>16, <1>27 DEF Expire, End, pageVars, historyVars
<1>28. CASE Upgrade \/ UNCHANGED sessionVars
  BY <1>16, <1>28 DEF Upgrade, sessionVars, pageVars, historyVars
<1>. HIDE DEF SessionTypeOK
<1>29. ASSUME NEW t \in Tabs, PageStep(t)
       PROVE  Presentations'
  BY <1>8, <1>9, <1>10, <1>19, <1>20, <1>22, <1>24, <1>25, <1>26, <1>29 DEF PageStep, ChangeSelf, AuthKinds
<1>30. CASE ServerStep
  BY <1>11, <1>12, <1>14, <1>15, <1>27, <1>28, <1>30 DEF ServerStep
<1>. QED  BY <1>17, <1>18, <1>28, <1>29, <1>30 DEF SessionNext

-----------------------------------------------------------------------------
\* SessionInv is an invariant.
LEMMA SessionInvariant == SessionSpec => []SessionInv
<1>1. SessionInit => SessionInv
  BY ConsoleAssumption
  DEF SessionInit, SessionInv, SessionTypeOK, Bounds, Exchanges, ExchangedOnce, Effects, OfAdmins,
      Known, Presentations, Of
<1>2. SessionInv /\ [SessionNext]_sessionVars => SessionInv'
  BY TypeStep, BoundsStep, ExchangesStep, EffectsStep, OfAdminsStep, PresentationsStep DEF SessionInv
<1>. QED  BY <1>1, <1>2, PTL DEF SessionSpec

\* Type correctness; in particular a page and local storage only ever hold the
\* session of an administrator (api.ts: login).
THEOREM SessionTypeCorrect == SessionSpec => []SessionTypeOK
<1>1. SessionInv => SessionTypeOK
  BY DEF SessionInv
<1>. QED  BY <1>1, SessionInvariant, PTL

\* A refresh token is exchanged at most once, however many pages present it at
\* once (RefreshSession's conditional UPDATE).
THEOREM SessionExchangedOnce == SessionSpec => []ExchangedOnce
<1>1. SessionInv => ExchangedOnce
  BY DEF SessionInv, Exchanges
<1>. QED  BY <1>1, SessionInvariant, PTL

\* No page presents a pair twice (api.ts: refreshing).
THEOREM SessionPresentedOnce == SessionSpec => PresentedOnce
<1>1. SessionInv /\ [SessionNext]_sessionVars =>
        [\A t \in Tabs, c \in Calls : Present(c, t) => current[t].pair \notin presented[t]]_sessionVars
  <2>1. ASSUME SessionInv, NEW t \in Tabs, NEW c \in Calls, Present(c, t)
        PROVE  current[t].pair \notin presented[t]
    BY <2>1 DEF SessionInv, Presentations, Present, Joins, Retries, Answered, Of
  <2>. QED  BY <2>1
<1>. QED  BY <1>1, SessionInvariant, PTL DEF SessionSpec, PresentedOnce

\* A call is carried out at most once, although a 401 has it sent again
\* (api.ts: send, upload).
THEOREM SessionCarriedOutOnce == SessionSpec => []CarriedOutOnce
<1>1. SessionInv => CarriedOutOnce
  BY DEF SessionInv, Effects, CarriedOutOnce
<1>. QED  BY <1>1, SessionInvariant, PTL

=============================================================================
