--------------------------- MODULE ConsoleSession ---------------------------
(***************************************************************************)
(* The sessions of the admin console: pages of one browser that share      *)
(* local storage, the calls they have under way, and the session table of  *)
(* the server.  An access token and the refresh token issued with it are   *)
(* one pair, and pairs are numbered in the order they are issued.          *)
(*                                                                         *)
(* A call that is answered 401 presents the page's refresh token, or waits *)
(* for the call of the same page that is doing so, and is then sent again. *)
(***************************************************************************)
EXTENDS Naturals, FiniteSets

CONSTANTS
  Tabs, Calls,       \* the pages, and the calls that can be under way
  Accounts, Admins,  \* everyone who can sign in; who may use the console
  Rows,              \* the rows the session table can hold
  None,
  MaxPairs, MaxLosses, MaxReloads   \* bounds: pairs, lost calls, reloads

VARIABLES
  table,       \* server: the session rows
  issued,      \* server: how many pairs it has issued
  release,     \* server: the release it runs
  stored,      \* the session in local storage
  current,     \* the session each page holds in memory
  pageRelease, \* the release each page was built for
  outdated,    \* the pages that know the server runs another release
  calls,       \* the calls under way
  presented,   \* history: the pairs each page has presented for refresh
  grants,      \* history: the exchanges the server has granted
  losses, reloads

serverVars  == <<table, issued, release>>
pageVars    == <<stored, current, pageRelease, outdated>>
historyVars == <<presented, grants, losses, reloads>>
sessionVars == <<serverVars, pageVars, calls, historyVars>>

\* A page keeps administrators' sessions only.
Session == [pair : Nat \ {0}, user : Admins]
Row     == [user : Accounts, pair : Nat, expired : BOOLEAN, over : BOOLEAN]

\* The calls that carry the access token: an upload, a change of the
\* administrator's own account (any other call is like it, without its
\* effect on the page), signing out.
AuthKinds == {"import", "self", "logout"}
Served    == {"sent", "done", "denied", "refused", "lost"}
Renewing  == {"presented", "found", "renewed", "rejected", "cut"}
Call == [tab : Tabs \cup {None}, kind : AuthKinds \cup {"login"},
         by : Accounts,                 \* whose button was pressed
         as : Accounts \cup {None},     \* whom the server acted for
         pair : Nat, reply : Nat, release : {1, 2}, again : BOOLEAN,
         effects : Nat, phase : Served \cup Renewing \cup {"waiting"}]

ASSUME ConsoleAssumption ==
  /\ Admins \subseteq Accounts
  /\ None \notin Accounts \cup Tabs /\ None \notin Session /\ None \notin Call
  /\ MaxPairs \in Nat /\ MaxLosses \in Nat /\ MaxReloads \in Nat

Of(t) == {c \in Calls : calls[c] /= None /\ calls[c].tab = t}
Refreshing(t) == {c \in Of(t) : calls[c].phase \in Renewing}
Waiting(t) == {c \in Of(t) : calls[c].phase = "waiting"}

-----------------------------------------------------------------------------
(* What a page shows and lets the administrator do. *)

Screen(t) ==
  IF t \in outdated THEN "reload" ELSE IF current[t] = None THEN "entry" ELSE "shell"

\* sessionStore.set: in memory and in local storage.
SetSession(t, s) == current' = [current EXCEPT ![t] = s] /\ stored' = s

NewCall(t, kind, by, pair) ==
  [tab |-> t, kind |-> kind, by |-> by, as |-> None, pair |-> pair, reply |-> 0,
   release |-> pageRelease[t], again |-> FALSE, effects |-> 0, phase |-> "sent"]

Send(c, call) == calls[c] = None /\ calls' = [calls EXCEPT ![c] = call]

\* The shell's queries and buttons.
Ask(t, c, kind) ==
  /\ Screen(t) = "shell" /\ issued < MaxPairs
  /\ Send(c, NewCall(t, kind, current[t].user, current[t].pair))
  /\ UNCHANGED <<serverVars, pageVars, historyVars>>

\* My account, whose form is disabled while a change is pending.
ChangeSelf(t, c) == (\A d \in Of(t) : calls[d].kind /= "self") /\ Ask(t, c, "self")

\* The entry form, disabled while a sign-in is pending.
SignIn(t, c, a) ==
  /\ Screen(t) = "entry" /\ issued < MaxPairs
  /\ \A d \in Of(t) : calls[d].kind /= "login"
  /\ Send(c, NewCall(t, "login", a, 0))
  /\ UNCHANGED <<serverVars, pageVars, historyVars>>

\* A new page reads local storage once; what the old one had under way may
\* still reach the server.
Reload(t) ==
  /\ reloads < MaxReloads /\ reloads' = reloads + 1
  /\ current' = [current EXCEPT ![t] = stored]
  /\ pageRelease' = [pageRelease EXCEPT ![t] = release]
  /\ outdated' = outdated \ {t}
  /\ presented' = [presented EXCEPT ![t] = {}]
  /\ calls' = [c \in Calls |->
       IF c \notin Of(t) THEN calls[c]
       ELSE IF calls[c].phase \in {"sent", "presented", "found"}
            THEN [calls[c] EXCEPT !.tab = None] ELSE None]
  /\ UNCHANGED <<serverVars, stored, grants, losses>>

-----------------------------------------------------------------------------
(* The server. *)

Live(r) == table[r] /= None /\ ~table[r].over

Authenticates(r, c) == Live(r) /\ ~table[r].expired /\ table[r].pair = calls[c].pair

Answer(c, phase) == calls' = [calls EXCEPT ![c].phase = phase]

Refuse(c) ==
  /\ calls[c] /= None /\ calls[c].phase = "sent" /\ calls[c].release /= release
  /\ Answer(c, "refused")
  /\ UNCHANGED <<serverVars, pageVars, historyVars>>

Deny(c) ==
  /\ calls[c] /= None /\ calls[c].phase = "sent" /\ calls[c].release = release
  /\ \A r \in Rows : ~Authenticates(r, c)
  /\ Answer(c, "denied")
  /\ UNCHANGED <<serverVars, pageVars, historyVars>>

\* The handler runs for the account of the row; DELETE /sessions/current
\* revokes it.
Serve(c, r) ==
  /\ calls[c] /= None /\ calls[c].phase = "sent" /\ calls[c].release = release
  /\ calls[c].kind \in AuthKinds /\ Authenticates(r, c)
  /\ calls' = [calls EXCEPT ![c].phase = "done", ![c].as = table[r].user,
                            ![c].effects = @ + 1]
  /\ table' = [table EXCEPT ![r].over = calls[c].kind = "logout"]
  /\ UNCHANGED <<issued, release, pageVars, historyVars>>

\* CreateSession: right password, or 401, which api.login does not retry.
CreateSession(c, r) ==
  /\ calls[c] /= None /\ calls[c].phase = "sent" /\ calls[c].release = release
  /\ calls[c].kind = "login" /\ table[r] = None
  /\ issued' = issued + 1
  /\ table' = [table EXCEPT ![r] =
       [user |-> calls[c].by, pair |-> issued + 1, expired |-> FALSE, over |-> FALSE]]
  /\ calls' = [calls EXCEPT ![c].phase = "done", ![c].as = calls[c].by,
                            ![c].reply = issued + 1]
  /\ UNCHANGED <<release, pageVars, historyVars>>

\* RefreshSession reads the row of the token it is given ...
FindSession(c) ==
  /\ calls[c] /= None /\ calls[c].phase = "presented"
  /\ Answer(c, IF \E r \in Rows : Live(r) /\ table[r].pair = calls[c].pair
               THEN "found" ELSE "rejected")
  /\ UNCHANGED <<serverVars, pageVars, historyVars>>

\* Mutant: UPDATE ... WHERE id = ?: the row the token was found in.
HoldsLater(r, c) ==
  Live(r) /\ (table[r].pair = calls[c].pair \/ \E g \in grants : g[1] = calls[c].pair /\ g[2] = table[r].pair)

\* ... and replaces the pair if the row still holds it and is not revoked.
Holds(r, c) == Live(r) /\ table[r].pair = calls[c].pair

Rotate(c, r) ==
  /\ calls[c] /= None /\ calls[c].phase = "found" /\ Holds(r, c)
  /\ issued' = issued + 1
  /\ table' = [table EXCEPT ![r].pair = issued + 1, ![r].expired = FALSE]
  /\ calls' = [calls EXCEPT ![c].phase = "renewed", ![c].as = table[r].user,
                            ![c].reply = issued + 1]
  /\ grants' = grants \cup {<<calls[c].pair, issued + 1>>}
  /\ UNCHANGED <<release, pageVars, presented, losses, reloads>>

RotateNothing(c) ==
  /\ calls[c] /= None /\ calls[c].phase = "found" /\ \A r \in Rows : ~Holds(r, c)
  /\ Answer(c, "rejected")
  /\ UNCHANGED <<serverVars, pageVars, historyVars>>

\* Fifteen minutes pass.
Expire(r) ==
  /\ Live(r) /\ ~table[r].expired
  /\ table' = [table EXCEPT ![r].expired = TRUE]
  /\ UNCHANGED <<issued, release, pageVars, calls, historyVars>>

\* The account is disabled, deleted or given a password by someone else, or
\* the refresh token's thirty days are over.
End(r) ==
  /\ Live(r)
  /\ table' = [table EXCEPT ![r].over = TRUE]
  /\ UNCHANGED <<issued, release, pageVars, calls, historyVars>>

Upgrade ==
  /\ release = 1 /\ release' = 2
  /\ UNCHANGED <<table, issued, pageVars, calls, historyVars>>

\* GET /instance tells a page the server's release.
LearnRelease(t) ==
  /\ t \notin outdated /\ pageRelease[t] /= release
  /\ outdated' = outdated \cup {t}
  /\ UNCHANGED <<serverVars, stored, current, pageRelease, calls, historyVars>>

-----------------------------------------------------------------------------
(* What a page does with an answer. *)

\* The request or its answer is lost.
Lose(c) ==
  /\ calls[c] /= None /\ losses < MaxLosses /\ losses' = losses + 1
  /\ \/ calls[c].phase \in Served \ {"lost"} /\ Answer(c, "lost")
     \/ calls[c].phase \in Renewing \ {"cut"} /\ Answer(c, "cut")
  /\ UNCHANGED <<serverVars, pageVars, presented, grants, reloads>>

\* Nobody waits for the answer of a page that is gone.
Forget(c) ==
  /\ calls[c] /= None /\ calls[c].tab = None
  /\ calls[c].phase \notin {"sent", "presented", "found"}
  /\ calls' = [calls EXCEPT ![c] = None]
  /\ UNCHANGED <<serverVars, pageVars, historyVars>>

\* Mutant: a call that got no answer is sent again too.
RetriesLost(c) ==
  /\ calls[c].kind \in AuthKinds /\ ~calls[c].again
  /\ calls[c].phase \in {"denied", "lost"} /\ current[calls[c].tab] /= None

\* 401 on the first attempt, and the page holds a session.
Retries(c) ==
  /\ calls[c].kind \in AuthKinds /\ ~calls[c].again
  /\ calls[c].phase = "denied" /\ current[calls[c].tab] /= None

Answered(c, t) == c \in Of(t) /\ calls[c].phase \in Served \ {"sent"}

\* Mutant: every 401 presents the refresh token.
JoinsNone(t) == FALSE

\* One refresh at a time.
Joins(t) == Refreshing(t) /= {}

Join(c, t) ==
  /\ Answered(c, t) /\ Retries(c) /\ Joins(t)
  /\ Answer(c, "waiting")
  /\ UNCHANGED <<serverVars, pageVars, historyVars>>

\* The refresh call does not name the page's release.
Present(c, t) ==
  /\ Answered(c, t) /\ Retries(c) /\ ~Joins(t)
  /\ calls' = [calls EXCEPT ![c].phase = "presented", ![c].pair = current[t].pair]
  /\ presented' = [presented EXCEPT ![t] = @ \cup {current[t].pair}]
  /\ UNCHANGED <<serverVars, pageVars, grants, losses, reloads>>

\* The new session is kept, and every call that waited is sent again with it.
Renewed(c, t) ==
  /\ c \in Of(t) /\ calls[c].phase = "renewed"
  /\ SetSession(t, [pair |-> calls[c].reply, user |-> calls[c].as])
  /\ calls' = [d \in Calls |->
       IF d \in {c} \cup Waiting(t)
       THEN [calls[d] EXCEPT !.phase = "sent", !.pair = calls[c].reply, !.reply = 0,
                             !.as = None, !.again = TRUE]
       ELSE calls[d]]
  /\ UNCHANGED <<serverVars, pageRelease, outdated, historyVars>>

\* Any failure of the refresh, the network's included, ends the session here.
NotRenewed(c, t) ==
  /\ c \in Of(t) /\ calls[c].phase \in {"rejected", "cut"}
  /\ SetSession(t, None)
  /\ calls' = [d \in Calls |-> IF d \in {c} \cup Waiting(t) THEN None ELSE calls[d]]
  /\ UNCHANGED <<serverVars, pageRelease, outdated, historyVars>>

\* useUpdateSelf writes the account into whatever session the page holds by now.
UpdatedSelf(t, user) ==
  IF current[t] = None THEN UNCHANGED <<stored, current>>
  ELSE SetSession(t, [current[t] EXCEPT !.user = user])

\* api.login keeps an administrator's session; signing out drops the page's
\* whatever the server said.
Outcome(c, t) ==
  LET call == calls[c] IN
  CASE call.kind = "login" /\ call.phase = "done" /\ call.as \in Admins ->
         SetSession(t, [pair |-> call.reply, user |-> call.as])
    [] call.kind = "logout" -> SetSession(t, None)
    [] call.kind = "self" /\ call.phase = "done" -> UpdatedSelf(t, call.as)
    [] OTHER -> UNCHANGED <<stored, current>>

Settle(c, t) ==
  /\ Answered(c, t) /\ ~Retries(c)
  /\ Outcome(c, t)
  /\ calls' = [calls EXCEPT ![c] = None]
  \* send() reports a 426 to its first attempt; upload() reports none.
  /\ outdated' = IF calls[c].phase = "refused" /\ ~calls[c].again /\ calls[c].kind /= "import"
                 THEN outdated \cup {t} ELSE outdated
  /\ UNCHANGED <<serverVars, pageRelease, historyVars>>

-----------------------------------------------------------------------------
SessionInit ==
  /\ table = [r \in Rows |-> None] /\ issued = 0 /\ release = 1
  /\ stored = None /\ current = [t \in Tabs |-> None]
  /\ pageRelease = [t \in Tabs |-> 1] /\ outdated = {}
  /\ calls = [c \in Calls |-> None]
  /\ presented = [t \in Tabs |-> {}] /\ grants = {}
  /\ losses = 0 /\ reloads = 0

PageStep(t) ==
  \/ Reload(t) \/ LearnRelease(t)
  \/ \E c \in Calls :
       \/ \E kind \in AuthKinds \ {"self"} : Ask(t, c, kind)
       \/ ChangeSelf(t, c)
       \/ \E a \in Accounts : SignIn(t, c, a)
       \/ Join(c, t) \/ Present(c, t) \/ Renewed(c, t) \/ NotRenewed(c, t) \/ Settle(c, t)

ServerStep ==
  \/ Upgrade
  \/ \E r \in Rows : Expire(r) \/ End(r)
  \/ \E c \in Calls :
       \/ Refuse(c) \/ Deny(c) \/ FindSession(c) \/ RotateNothing(c)
       \/ \E r \in Rows : Serve(c, r) \/ CreateSession(c, r) \/ Rotate(c, r)

SessionNext ==
  \/ \E t \in Tabs : PageStep(t)
  \/ ServerStep
  \/ \E c \in Calls : Lose(c) \/ Forget(c)

SessionSpec == SessionInit /\ [][SessionNext]_sessionVars

-----------------------------------------------------------------------------
(* Type correctness of the tables, the pages and the calls; the session a   *)
(* page or local storage holds is an administrator's (api.ts: login).      *)
SessionTypeOK ==
  /\ table \in [Rows -> Row \cup {None}]
  /\ issued \in Nat /\ release \in {1, 2}
  /\ stored \in Session \cup {None}
  /\ current \in [Tabs -> Session \cup {None}]
  /\ pageRelease \in [Tabs -> {1, 2}] /\ outdated \subseteq Tabs
  /\ calls \in [Calls -> Call \cup {None}]
  /\ presented \in [Tabs -> SUBSET Nat]
  /\ grants \subseteq Nat \X Nat
  /\ losses \in Nat /\ reloads \in Nat

(* A refresh token is exchanged at most once, however many pages present   *)
(* it at once (session.go: the conditional UPDATE of RefreshSession).      *)
ExchangedOnce == \A g, h \in grants : g[1] = h[1] => g = h

(* "A burst of 401s must not spend the refresh token twice" (api.ts): no   *)
(* page presents a pair it has presented before.                           *)
PresentedOnce ==
  [][\A t \in Tabs, c \in Calls : Present(c, t) => current[t].pair \notin presented[t]]_sessionVars

(* A call that is sent again is carried out once: the answer that has it   *)
(* sent again is one the server gives before it does anything (api.ts:     *)
(* send, upload).                                                          *)
CarriedOutOnce == \A c \in Calls : calls[c] /= None => calls[c].effects <= 1

=============================================================================
