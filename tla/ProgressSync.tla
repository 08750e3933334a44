---------------------------- MODULE ProgressSync ----------------------------
(***************************************************************************)
(* Reading progress between the Android app and the server: the local      *)
(* position, outbox and cursor of each device, the sync engines that drain *)
(* the outbox, and the exchange with ReadingStore over a network that      *)
(* loses requests and answers, delays requests past the client's timeout   *)
(* and delivers them afterwards.                                           *)
(*                                                                         *)
(* An engine is one thread inside SyncEngine.runOnce.  The app starts such *)
(* threads from two uniquely named jobs, the sync button and sign-out, and *)
(* nothing keeps them apart, so a device may have several.  Each step is   *)
(* one transaction of the device's database, one message, or one server    *)
(* transaction's step.                                                     *)
(***************************************************************************)
EXTENDS ReadingStore

CONSTANTS
  Devices, Engines,
  EngineDevice,      \* the device an engine runs on
  Nobody,            \* the sender of a request whose client stopped waiting
  BatchSize, MaxPages,
  AccessSets,        \* the sets of books the reader may be given
  Removals,          \* the removals administrators may make
  MaxFailures,       \* bound: exchanges, processes and transactions that die
  MaxSignOuts,       \* bound: sessions that end
  MaxRelease         \* bound: the last minor release

ASSUME SyncAssumption ==
  /\ EngineDevice \in [Engines -> Devices]
  /\ Nobody \notin Engines /\ Clients = Engines \cup {Nobody}
  /\ AccessSets \subseteq SUBSET Books /\ Removals \subseteq Removable
  /\ BatchSize \in Nat \ {0} /\ MaxPages \in Nat \ {0}
  /\ MaxFailures \in Nat /\ MaxSignOuts \in Nat /\ MaxRelease \in Nat

VARIABLES
  position,   \* the local position of each book read on the device
  outbox,     \* events the server has not acknowledged, oldest first by seq
  cursor,     \* the last server revision the device has seen
  session,    \* signed in, signing out (with or without the warning), or out
  engine,     \* where each runOnce stands
  requests,   \* requests on their way to the server
  recorded,   \* history: every event ever recorded
  discarded,  \* history: events a sign-out threw away
  serverRelease, appRelease,   \* the minor releases that are installed
  failures, signOuts

deviceVars == <<position, outbox, cursor, session>>
releaseVars == <<serverRelease, appRelease>>
historyVars == <<recorded, discarded, releaseVars, failures, signOuts>>
syncVars == <<storeVars, deviceVars, engine, requests, historyVars>>

OutboxRow == [seq : Nat, change : Changes, status : {"pending", "rejected"}]
Engine == [pc : {"idle", "page", "send", "wait", "check"}, pages : 0 .. MaxPages,
           batch : Seq(Changes), rest : Seq(Changes), single : BOOLEAN]
Message == [by : Clients, cursor : Nat, changes : Seq(Changes), release : Nat]

IdleEngine == [pc |-> "idle", pages |-> 0, batch |-> <<>>, rest |-> <<>>,
               single |-> FALSE]

-----------------------------------------------------------------------------
(* The device's database. *)

Pending(d) == {o \in outbox[d] : o.status = "pending"}

\* pending(limit): the oldest pending events, in order.
OldestPending(d, batch) ==
  LET pending == Pending(d)
      rank(o) == Cardinality({p \in pending : p.seq <= o.seq})
  IN  /\ Len(batch) = IF Cardinality(pending) < BatchSize
                      THEN Cardinality(pending) ELSE BatchSize
      /\ \A i \in 1 .. Len(batch) :
           \E o \in pending : o.change = batch[i] /\ rank(o) = i

PutPositions(d, changes) ==
  {p \in position[d] : \A c \in changes : c.book /= p.book} \cup changes

\* Mutant: unsent events do not hold the server's position back.
ShouldAdoptOverUnsent(d, c, unsent) ==
  \A p \in position[d] : p.book = c.book => Later(c.at, p.at)

\* The canonical positions of an answer the device takes: not for a book with
\* an unsent event, and only over an older local position.
ShouldAdopt(d, c, unsent) ==
  /\ \A o \in unsent : o.change.book /= c.book
  /\ \A p \in position[d] : p.book = c.book => Later(c.at, p.at)

\* Mutant: a successful answer empties the outbox.
ApplySyncAll(d, answer) ==
  /\ outbox' = [outbox EXCEPT ![d] = {}]
  /\ position' = position
  /\ cursor' = [cursor EXCEPT ![d] = answer.cursor]

\* Mutant: unsent events are counted before acknowledged ones are deleted.
ApplySyncEarly(d, answer) ==
  LET acked   == {a.id : a \in answer.acks}
      left    == {o \in outbox[d] : o.change.id \notin acked}
      adopted == {c \in {p.change : p \in answer.progress} : ShouldAdopt(d, c, Pending(d))}
  IN  /\ outbox' = [outbox EXCEPT ![d] = left]
      /\ position' = [position EXCEPT ![d] = PutPositions(d, adopted)]
      /\ cursor' = [cursor EXCEPT ![d] = answer.cursor]

\* Mutant: the cursor is not stored.
ApplySyncNoCursor(d, answer) ==
  /\ outbox' = [outbox EXCEPT ![d] =
       {o \in @ : o.change.id \notin {a.id : a \in answer.acks}}]
  /\ UNCHANGED <<position, cursor>>

\* applySync: acknowledged events leave the outbox, positions are merged and
\* the cursor is stored, in one transaction.
ApplySync(d, answer) ==
  LET acked   == {a.id : a \in answer.acks}
      left    == {o \in outbox[d] : o.change.id \notin acked}
      unsent  == {o \in left : o.status = "pending"}
      adopted == {c \in {p.change : p \in answer.progress} : ShouldAdopt(d, c, unsent)}
  IN  /\ outbox' = [outbox EXCEPT ![d] = left]
      /\ position' = [position EXCEPT ![d] = PutPositions(d, adopted)]
      /\ cursor' = [cursor EXCEPT ![d] = answer.cursor]

\* ProgressRecorder.record and store.record: nothing when the place has not
\* changed, else the local position and an outbox row in one transaction.
Record(d, c) ==
  /\ session[d] /= "out"
  /\ \A r \in recorded : r.id /= c.id
  /\ \A p \in position[d] : ~(p.edition = c.edition /\ p.place = c.place)
  /\ position' = [position EXCEPT ![d] = PutPositions(d, {c})]
  /\ outbox' = [outbox EXCEPT ![d] = @ \cup
       {[seq |-> Cardinality(recorded), change |-> c, status |-> "pending"]}]
  /\ recorded' = recorded \cup {c}
  /\ UNCHANGED <<storeVars, cursor, session, engine, requests, discarded,
                 releaseVars, failures, signOuts>>

-----------------------------------------------------------------------------
(* SyncEngine.runOnce. *)

Goto(e, next) == engine' = [engine EXCEPT ![e] = next]

\* The top of the loop, or the test at its end.
Loop(e, pc) ==
  [pc |-> pc, pages |-> engine[e].pages, batch |-> <<>>, rest |-> <<>>, single |-> FALSE]

\* A worker, the sync button or sign-out; a worker without tokens does nothing.
StartRun(e) ==
  /\ engine[e].pc = "idle"
  /\ session[EngineDevice[e]] /= "out"
  /\ Goto(e, Loop(e, "page"))
  /\ UNCHANGED <<storeVars, deviceVars, requests, historyVars>>

\* Mutant: pages are counted but not limited.
ReadOutboxForever(e, batch) ==
  /\ engine[e].pc = "page"
  /\ OldestPending(EngineDevice[e], batch)
  /\ Goto(e, [pc |-> "send", pages |-> engine[e].pages + 1, batch |-> batch,
              rest |-> <<>>, single |-> FALSE])
  /\ UNCHANGED <<storeVars, deviceVars, requests, historyVars>>

ReadOutbox(e, batch) ==
  /\ engine[e].pc = "page" /\ engine[e].pages < MaxPages
  /\ OldestPending(EngineDevice[e], batch)
  /\ Goto(e, [pc |-> "send", pages |-> engine[e].pages + 1, batch |-> batch,
              rest |-> <<>>, single |-> FALSE])
  /\ UNCHANGED <<storeVars, deviceVars, requests, historyVars>>

OutOfPages(e) ==
  /\ engine[e].pc = "page" /\ engine[e].pages = MaxPages
  /\ Goto(e, IdleEngine)
  /\ UNCHANGED <<storeVars, deviceVars, requests, historyVars>>

\* The cursor is read when the request is made, not with the batch.
Send(e) ==
  /\ engine[e].pc = "send" /\ session[EngineDevice[e]] /= "out"
  /\ requests' = requests \cup {[by |-> e, cursor |-> cursor[EngineDevice[e]],
                                 changes |-> engine[e].batch,
                                 release |-> appRelease[EngineDevice[e]]]}
  /\ Goto(e, [engine[e] EXCEPT !.pc = "wait"])
  /\ UNCHANGED <<storeVars, deviceVars, historyVars>>

\* Without tokens the call throws, and so does runOnce.
SendSignedOut(e) ==
  /\ engine[e].pc = "send" /\ session[EngineDevice[e]] /= "in"
  /\ Goto(e, IdleEngine)
  /\ UNCHANGED <<storeVars, deviceVars, requests, historyVars>>

\* isolate: the first of these events is sent alone.
Isolate(e, events) ==
  [pc |-> "send", pages |-> engine[e].pages, batch |-> <<Head(events)>>,
   rest |-> Tail(events), single |-> TRUE]

\* The next event of isolate, or back to the loop after the last one.
NextSingle(e) ==
  IF engine[e].rest = <<>> THEN Loop(e, "page") ELSE Isolate(e, engine[e].rest)

\* After a page: go on while the server has more, stop when it acknowledged
\* nothing, else see whether events are pending.
AfterPage(e, answer) ==
  IF answer.hasMore THEN Loop(e, "page")
  ELSE IF answer.acks = {} THEN IdleEngine
  ELSE Loop(e, "check")

Applied(e) ==
  /\ engine[e].pc = "wait" /\ reply[e].status = "ok"
  /\ TakeReply(e)
  /\ ApplySync(EngineDevice[e], reply[e])
  /\ Goto(e, IF engine[e].single THEN NextSingle(e) ELSE AfterPage(e, reply[e]))
  /\ UNCHANGED <<session, requests, historyVars>>

Check(e) ==
  /\ engine[e].pc = "check"
  /\ Goto(e, IF Pending(EngineDevice[e]) = {} THEN IdleEngine
             ELSE Loop(e, "page"))
  /\ UNCHANGED <<storeVars, deviceVars, requests, historyVars>>

\* PermanentSyncError: any 4xx but 401, 408 and 429, 426 included.
Refused(e) ==
  /\ engine[e].pc = "wait"
  /\ reply[e].status \in {"invalid_change", "unknown_edition", "event_id_conflict",
                         "version_mismatch"}
  /\ TakeReply(e)

\* A refused batch of several is sent again one by one.
StartIsolating(e) ==
  /\ Refused(e)
  /\ ~engine[e].single /\ Len(engine[e].batch) > 1
  /\ Goto(e, Isolate(e, engine[e].batch))
  /\ UNCHANGED <<deviceVars, requests, historyVars>>

\* Mutant: a refused event stays pending.
RejectedNot(rows, events) == rows

\* reject: a refused event is kept as rejected and never sent again.
Rejected(rows, events) ==
  LET refused == {events[i].id : i \in 1 .. Len(events)}
  IN  {IF o.change.id \in refused THEN [o EXCEPT !.status = "rejected"] ELSE o : o \in rows}

\* Mutant: a refused batch is rejected whole, never isolated.
RejectWhole(e) ==
  LET d == EngineDevice[e] IN
  /\ Refused(e)
  /\ outbox' = [outbox EXCEPT ![d] = Rejected(outbox[d], engine[e].batch)]
  /\ Goto(e, Loop(e, "page"))
  /\ UNCHANGED <<position, cursor, session, requests, historyVars>>

Reject(e) ==
  LET d == EngineDevice[e] IN
  /\ Refused(e)
  /\ engine[e].single \/ Len(engine[e].batch) <= 1
  /\ outbox' = [outbox EXCEPT ![d] = Rejected(outbox[d], engine[e].batch)]
  /\ Goto(e, IF engine[e].single THEN NextSingle(e) ELSE Loop(e, "page"))
  /\ UNCHANGED <<position, cursor, session, requests, historyVars>>

\* A 5xx answer propagates out of runOnce; nothing local changed.
ServerFailed(e) ==
  /\ engine[e].pc = "wait" /\ reply[e].status = "internal_error"
  /\ TakeReply(e)
  /\ Goto(e, IdleEngine)
  /\ UNCHANGED <<deviceVars, requests, historyVars>>

-----------------------------------------------------------------------------
(* Network, processes, sign-out, administrators. *)

Receive(m) ==
  /\ requests' = requests \ {m}
  /\ IF m.release = serverRelease THEN Request(m.by, m.cursor, m.changes)
     ELSE RefuseVersion(m.by)
  /\ UNCHANGED <<deviceVars, engine, historyVars>>

\* The app is killed, the connection breaks or times out.  The request may be
\* lost, may arrive later with nobody waiting, or was answered in vain.
Fail(e, late) ==
  LET mine == {m \in requests : m.by = e} IN
  /\ failures < MaxFailures
  /\ engine[e].pc /= "idle"
  /\ \A t \in tx : t.by /= e
  /\ Goto(e, IdleEngine)
  /\ requests' = (requests \ mine) \cup
                 {[m EXCEPT !.by = Nobody] : m \in IF late THEN mine ELSE {}}
  /\ IF reply[e] = NoReply THEN UNCHANGED storeVars ELSE TakeReply(e)
  /\ failures' = failures + 1
  /\ UNCHANGED <<deviceVars, recorded, discarded, releaseVars, signOuts>>

\* A finished transaction writes its answer to a connection nobody reads.
DropReply ==
  /\ TakeReply(Nobody)
  /\ UNCHANGED <<deviceVars, engine, requests, historyVars>>

\* signOut: at once when nothing is unsent, else after the reader confirmed
\* that unsent events will be discarded.  The session is then ended over the
\* network while the app stays usable.
SignOut(d) ==
  /\ session[d] = "in" /\ signOuts < MaxSignOuts
  /\ \E way \in {"leaving", "confirmed"} :
       /\ way = "leaving" => Pending(d) = {}
       /\ session' = [session EXCEPT ![d] = way]
  /\ signOuts' = signOuts + 1
  /\ UNCHANGED <<storeVars, position, outbox, cursor, engine, requests,
                 recorded, discarded, releaseVars, failures>>

\* The tokens go, and with clear() the positions, the outbox and the cursor.
Clear(d) ==
  /\ session[d] \in {"leaving", "confirmed"}
  /\ session' = [session EXCEPT ![d] = "out"]
  /\ position' = [position EXCEPT ![d] = {}]
  /\ outbox' = [outbox EXCEPT ![d] = {}]
  /\ cursor' = [cursor EXCEPT ![d] = 0]
  /\ discarded' = discarded \cup {o.change : o \in outbox[d]}
  /\ UNCHANGED <<storeVars, engine, requests, recorded, releaseVars, failures, signOuts>>

\* The worker's 401: the session is dead, the tokens go, everything else stays.
Expire(d) ==
  /\ session[d] = "in" /\ signOuts < MaxSignOuts
  /\ session' = [session EXCEPT ![d] = "out"]
  /\ signOuts' = signOuts + 1
  /\ UNCHANGED <<storeVars, position, outbox, cursor, engine, requests,
                 recorded, discarded, releaseVars, failures>>

SignIn(d) ==
  /\ session[d] = "out"
  /\ session' = [session EXCEPT ![d] = "in"]
  /\ UNCHANGED <<storeVars, position, outbox, cursor, engine, requests, historyVars>>

Administer ==
  /\ \/ \E books \in AccessSets : books /= visible /\ SetVisible(books)
     \/ \E removed \in Removals : RemoveEditions(removed)
     \/ Tick
  /\ UNCHANGED <<deviceVars, engine, requests, historyVars>>

ServerStep ==
  /\ \E t \in tx : Handle(t)
  /\ UNCHANGED <<deviceVars, engine, requests, historyVars>>

ServerAbort ==
  /\ failures < MaxFailures
  /\ \E t \in tx : Abort(t)
  /\ failures' = failures + 1
  /\ UNCHANGED <<deviceVars, engine, requests, recorded, discarded, releaseVars, signOuts>>

\* Server and app are released together and updated apart; installing the app
\* ends its process.
UpdateServer ==
  /\ serverRelease < MaxRelease
  /\ serverRelease' = serverRelease + 1
  /\ UNCHANGED <<storeVars, deviceVars, engine, requests, recorded, discarded,
                 appRelease, failures, signOuts>>

UpdateApp(d) ==
  /\ appRelease[d] < MaxRelease
  /\ \A e \in Engines : EngineDevice[e] = d => engine[e].pc = "idle"
  /\ appRelease' = [appRelease EXCEPT ![d] = @ + 1]
  /\ UNCHANGED <<storeVars, deviceVars, engine, requests, recorded, discarded,
                 serverRelease, failures, signOuts>>

-----------------------------------------------------------------------------

SyncInit ==
  /\ StoreInit
  /\ position = [d \in Devices |-> {}]
  /\ outbox = [d \in Devices |-> {}]
  /\ cursor = [d \in Devices |-> 0]
  /\ session = [d \in Devices |-> "in"]
  /\ engine = [e \in Engines |-> IdleEngine]
  /\ requests = {}
  /\ recorded = {} /\ discarded = {}
  /\ serverRelease = 0 /\ appRelease = [d \in Devices |-> 0]
  /\ failures = 0 /\ signOuts = 0

EngineStep(e) ==
  \/ \E batch \in Batches : ReadOutbox(e, batch)
  \/ OutOfPages(e) \/ Send(e) \/ SendSignedOut(e) \/ Applied(e) \/ Check(e)
  \/ StartIsolating(e) \/ Reject(e) \/ ServerFailed(e)

SyncNext ==
  \/ \E d \in Devices, c \in Changes : Record(d, c)
  \/ \E e \in Engines : StartRun(e) \/ EngineStep(e)
  \/ \E e \in Engines, late \in BOOLEAN : Fail(e, late)
  \/ \E m \in requests : Receive(m)
  \/ ServerStep \/ ServerAbort \/ DropReply \/ Administer \/ UpdateServer
  \/ \E d \in Devices : SignOut(d) \/ Clear(d) \/ Expire(d) \/ SignIn(d) \/ UpdateApp(d)

SyncSpec == SyncInit /\ [][SyncNext]_syncVars

\* The periodic job starts a run whenever none is going, threads make progress,
\* and the server finishes what it began; failures are finitely many.
Fairness ==
  /\ \A e \in Engines : WF_syncVars(StartRun(e)) /\ WF_syncVars(EngineStep(e))
  /\ WF_syncVars(ServerStep) /\ WF_syncVars(DropReply)
  /\ \A e \in Engines : SF_syncVars(\E m \in requests : m.by = e /\ Receive(m))

FairSyncSpec == SyncSpec /\ Fairness

-----------------------------------------------------------------------------
(* Histories in which less can happen, for the theorems that need them. *)

\* Events later than what the server's clock allows at the time n.
AheadOfClock(c, n) == Later(c.at, [sec |-> n + MaxFutureClockSkew, frac |-> 0])

\* Nothing but the event decides what the server answers: releases and access
\* stay, and the clock does not reach an event it is behind of.
Settled ==
  /\ AccessSets = {} /\ MaxRelease = 0 /\ MaxBatchSize > 0
  /\ \A c \in Changes : AheadOfClock(c, 0) => AheadOfClock(c, MaxNow)

\* No administrator, sign-out or update interferes, the batches fit, every
\* event is one the server takes, and within a book the times are distinct and
\* their texts sort like the instants.
Calm ==
  /\ AccessSets = {} /\ Removals = {} /\ MaxRelease = 0 /\ MaxSignOuts = 0
  /\ BatchSize <= MaxBatchSize
  /\ \A c \in Changes : /\ c.form = "good" /\ EditionBook[c.edition] = c.book
                        /\ ~AheadOfClock(c, 0)
  /\ \A c, k \in Changes : c.book = k.book =>
       (c.at = k.at => c = k) /\ (TextLater(c.at, k.at) => Later(c.at, k.at))

-----------------------------------------------------------------------------
(* Properties. *)

DeviceTypeOK ==
  /\ TypeOK
  /\ position \in [Devices -> SUBSET Changes]
  /\ outbox \in [Devices -> SUBSET OutboxRow]
  /\ cursor \in [Devices -> Nat]
  /\ session \in [Devices -> {"in", "leaving", "confirmed", "out"}]
  /\ engine \in [Engines -> Engine]
  /\ requests \subseteq Message
  /\ discarded \subseteq recorded /\ recorded \subseteq Changes
  /\ serverRelease \in Nat /\ appRelease \in [Devices -> Nat]

\* docs/offline-sync.md: "A failed sync never deletes queued work".  Whatever
\* was lost, refused, retried, delayed or run twice at once, an event a device
\* recorded is still in an outbox or already in the server's log, unless the
\* reader signed out over it or its edition left the catalog.
NoQueuedWorkLost ==
  \A c \in recorded \ discarded :
    \/ \E d \in Devices : \E o \in outbox[d] : o.change = c
    \/ \E e \in db.events : e.change = c
    \/ c.edition \notin editions

\* docs/offline-sync.md: "This keeps freshly recorded offline activity visible
\* until the server has had a chance to reconcile it".
FreshActivityVisible ==
  \A d \in Devices : \A o \in Pending(d) :
    (\A q \in outbox[d] : q.change.book = o.change.book => q.seq <= o.seq)
      => o.change \in position[d]

\* The device has been told of every event of the position's book, and has none
\* of its own unsent.  (An answer may acknowledge the device's event in a page
\* that does not reach it yet.)
Told(d, p) ==
  /\ session[d] = "in"
  /\ p.change.book \in visible
  /\ \A e \in db.events : e.change.book = p.change.book => e.rev <= cursor[d]
  /\ \A o \in Pending(d) : o.change.book /= p.change.book

Alone(d) == \A e, f \in Engines : EngineDevice[e] = d /\ EngineDevice[f] = d => e = f

\* PermanentSyncError: "A rejected server request that will never succeed as
\* written".  Only an event the store refuses is given up: a good event is not
\* rejected for the company it was sent in, nor for the app that sent it.
OnlyHopelessRejected ==
  \A d \in Devices : \A o \in outbox[d] : o.status = "rejected" =>
    ~(ValidChange(o.change) /\ KnownEdition(o.change) /\ o.change.form = "good")

\* Devices agree: a device shows the canonical position of every book it has
\* been told about and has nothing unsent of.  docs/offline-sync.md: "The client
\* applies a server position when its source event is newer than the local
\* position and is not still represented by an unacknowledged local event".
ShowsCanonical ==
  \A d \in Devices : Alone(d) =>
    \A p \in db.progress : Told(d, p) => p.change \in position[d]

\* A device that runs one engine never asks again for what it has seen: its
\* cursor only grows, and only sign-out resets it.
CursorNeverRewinds ==
  [][\A d \in Devices : Alone(d) =>
       cursor'[d] >= cursor[d] \/ session'[d] = "out"]_syncVars

\* SyncEngine: "One bad event must not wedge the queue".  Once the network and
\* the server stop failing, every queue empties.
OutboxDrains == \A d \in Devices : <>[](Pending(d) = {})

\* And a device on the server's release learns of every event the reader may see.
DevicesCatchUp ==
  \A d \in Devices : <>[](appRelease[d] = serverRelease) => <>[](Unseen(db, cursor[d]) = {})

=============================================================================
