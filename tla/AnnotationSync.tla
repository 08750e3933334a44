--------------------------- MODULE AnnotationSync ---------------------------
(***************************************************************************)
(* One reader's annotations on several devices and the server: the rows of *)
(* each device with their dirty marks, the list an open book shows, the    *)
(* threads inside AnnotationSyncEngine.runOnce, and the exchange with      *)
(* AnnotationStore over a network that loses or delays calls.  As for      *)
(* reading progress, nothing keeps two engines of a device apart.          *)
(*                                                                         *)
(* The text of an edit is its number, so every edit can be told apart.     *)
(***************************************************************************)
EXTENDS AnnotationStore

CONSTANTS
  Devices, Engines, EngineDevice,
  Times,             \* what the devices' clocks may read
  Volatile,          \* the books administrators remove or withhold
  BatchSize, MaxPages,
  MaxFailures, MaxSignOuts   \* bounds: exchanges that die, sessions that end

ASSUME SyncAssumption ==
  /\ EngineDevice \in [Engines -> Devices]
  /\ Texts \subseteq Nat \ {0} /\ Times \subseteq Nat
  /\ Volatile \subseteq Books
  /\ BatchSize \in Nat \ {0} /\ MaxPages \in Nat \ {0}
  /\ MaxFailures \in Nat /\ MaxSignOuts \in Nat

VARIABLES
  rows,       \* the annotation table of each device
  cursor,     \* the last revision the device has seen
  listed,     \* what the open book lists and the device has a row for
  orphaned,   \* what the open book lists although its row is gone
  signedIn,
  engine,     \* where each runOnce stands
  requests,   \* requests on their way to the server
  edits,      \* history: every edit a device stored, and by which device
  ignored,    \* history: edits that found no row to change
  discarded,  \* history: edits a sign-out threw away
  failures, signOuts

deviceVars  == <<rows, cursor, listed, orphaned, signedIn>>
historyVars == <<edits, ignored, discarded, failures, signOuts>>
syncVars    == <<storeVars, deviceVars, engine, requests, historyVars>>

LocalRow == [version : Version, dirty : BOOLEAN]
Edit     == [by : Devices, version : Version]
Engine   == [pc : {"idle", "page", "send", "wait", "check"}, pages : 0 .. MaxPages,
             batch : SUBSET Version, answer : Answer]
Message  == [by : SUBSET Engines, cursor : Nat, changes : SUBSET Version]

Idle == [pc |-> "idle", pages |-> 0, batch |-> {}, answer |-> NoAnswer]

Dirty(d) == {r \in rows[d] : r.dirty}

-----------------------------------------------------------------------------
(* The reader. *)

NextText == Cardinality(edits) + Cardinality(ignored) + 1

\* Two edits of an annotation on one device are not made in the same instant.
Stamp(d, id, at) ==
  \A e \in edits : e.by = d /\ e.version.id = id => e.version.at /= at

Store(d, v) ==
  /\ rows' = [rows EXCEPT ![d] =
       {r \in @ : r.version.id /= v.id} \cup {[version |-> v, dirty |-> TRUE]}]
  /\ edits' = edits \cup {[by |-> d, version |-> v]}

\* The reader opens a book: its annotations are listed as they are now.
OpenBook(d, b) ==
  /\ signedIn[d]
  /\ listed' = [listed EXCEPT ![d] =
       {r.version.id : r \in {q \in rows[d] : IdBook[q.version.id] = b /\ ~q.version.deleted}}]
  /\ orphaned' = [orphaned EXCEPT ![d] = {}]
  /\ <<listed', orphaned'>> /= <<listed, orphaned>>
  /\ UNCHANGED <<storeVars, rows, cursor, signedIn, engine, requests, historyVars>>

\* A new annotation, its ID a fresh UUID.
Add(d, id, at) ==
  /\ signedIn[d] /\ NextText \in Texts
  /\ \A e \in edits : e.version.id /= id
  /\ Store(d, [id |-> id, at |-> at, text |-> NextText, deleted |-> FALSE])
  /\ listed' = [listed EXCEPT ![d] = @ \cup {id}]
  /\ UNCHANGED <<storeVars, cursor, orphaned, signedIn, engine, requests,
                 ignored, discarded, failures, signOuts>>

\* A note is written: the row is marked dirty and its updated_at set.
SetNote(d, id, at) ==
  /\ signedIn[d] /\ NextText \in Texts /\ Stamp(d, id, at)
  /\ id \in listed[d]
  /\ \E r \in rows[d] :
       /\ r.version.id = id
       /\ Store(d, [r.version EXCEPT !.at = at, !.text = NextText])
  /\ UNCHANGED <<storeVars, cursor, listed, orphaned, signedIn, engine, requests,
                 ignored, discarded, failures, signOuts>>

\* A sync removed the row under the open list: the UPDATE changes nothing.
SetNoteOnNothing(d, id, at) ==
  /\ signedIn[d] /\ NextText \in Texts
  /\ id \in orphaned[d]
  /\ ignored' = ignored \cup
       {[by |-> d, version |-> [id |-> id, at |-> at, text |-> NextText, deleted |-> FALSE]]}
  /\ UNCHANGED <<storeVars, deviceVars, engine, requests, edits, discarded,
                 failures, signOuts>>

\* A delete leaves a tombstone, and the open list drops the annotation.
Delete(d, id, at) ==
  /\ signedIn[d] /\ NextText \in Texts /\ Stamp(d, id, at)
  /\ id \in listed[d]
  /\ \E r \in rows[d] :
       /\ r.version.id = id
       /\ Store(d, [r.version EXCEPT !.at = at, !.text = NextText, !.deleted = TRUE])
  /\ listed' = [listed EXCEPT ![d] = @ \ {id}]
  /\ UNCHANGED <<storeVars, cursor, orphaned, signedIn, engine, requests,
                 ignored, discarded, failures, signOuts>>

-----------------------------------------------------------------------------
(* AnnotationStore.applySync. *)

\* Mutant: what was sent is clean whatever the reader did meanwhile.
CleanedAll(d, batch, settled) ==
  {IF \E v \in batch : v.id = r.version.id /\ v.id \in settled
   THEN [r EXCEPT !.dirty = FALSE] ELSE r : r \in rows[d]}

\* What was sent and settled is clean, unless it was edited again meanwhile.
Cleaned(d, batch, settled) ==
  {IF \E v \in batch : v.id = r.version.id /\ v.at = r.version.at /\ v.id \in settled
   THEN [r EXCEPT !.dirty = FALSE] ELSE r : r \in rows[d]}

\* Incoming versions replace clean rows; a tombstone makes no new row.
Merged(local, incoming) ==
  LET known == {r.version.id : r \in local}
      kept  == {r.version.id : r \in {q \in local : q.dirty}}
      taken == {v \in incoming : v.id \notin kept /\ (v.id \in known \/ ~v.deleted)}
  IN  {r \in local : \A v \in taken : v.id /= r.version.id}
        \cup {[version |-> v, dirty |-> FALSE] : v \in taken}

\* Mutant: tombstones go whether the server knows of them or not.
SweptAll(local) == {r \in local : ~r.version.deleted}

\* Acknowledged tombstones have done their job.
Swept(local) == {r \in local : r.dirty \/ ~r.version.deleted}

ApplySync(d, batch, answer) ==
  LET settled == answer.accepted \cup answer.rejected
      left    == Swept(Merged(Cleaned(d, batch, settled), answer.annotations))
      present == {r.version.id : r \in left}
  IN  /\ rows' = [rows EXCEPT ![d] = left]
      /\ cursor' = [cursor EXCEPT ![d] = answer.cursor]
      /\ listed' = [listed EXCEPT ![d] = @ \cap present]
      /\ orphaned' = [orphaned EXCEPT ![d] = @ \cup (listed[d] \ present)]

-----------------------------------------------------------------------------
(* AnnotationSyncEngine.runOnce. *)

Goto(e, next) == engine' = [engine EXCEPT ![e] = next]

At(e, pc) == [Idle EXCEPT !.pc = pc, !.pages = engine[e].pages]

StartRun(e) ==
  /\ engine[e].pc = "idle" /\ signedIn[EngineDevice[e]]
  /\ Goto(e, At(e, "page"))
  /\ UNCHANGED <<storeVars, deviceVars, requests, historyVars>>

\* Mutant: pages are counted but not limited.
ReadDirtyForever(e) ==
  /\ engine[e].pc = "page"
  /\ Goto(e, [At(e, "send") EXCEPT !.pages = @ + 1,
                                   !.batch = {r.version : r \in Dirty(EngineDevice[e])}])
  /\ UNCHANGED <<storeVars, deviceVars, requests, historyVars>>

\* pending(100): the oldest by the text of updated_at, which follows the clock
\* only to the second, so any selection of the right size.
ReadDirty(e) ==
  LET dirty == Dirty(EngineDevice[e]) IN
  /\ engine[e].pc = "page" /\ engine[e].pages < MaxPages
  /\ \E some \in SUBSET dirty :
       /\ some = dirty \/ Cardinality(some) = BatchSize
       /\ Cardinality(some) <= BatchSize
       /\ Goto(e, [At(e, "send") EXCEPT !.pages = @ + 1,
                                        !.batch = {r.version : r \in some}])
  /\ UNCHANGED <<storeVars, deviceVars, requests, historyVars>>

OutOfPages(e) ==
  /\ engine[e].pc = "page" /\ engine[e].pages = MaxPages
  /\ Goto(e, Idle)
  /\ UNCHANGED <<storeVars, deviceVars, requests, historyVars>>

Send(e) ==
  /\ engine[e].pc = "send" /\ signedIn[EngineDevice[e]]
  /\ requests' = requests \cup
       {[by |-> {e}, cursor |-> cursor[EngineDevice[e]], changes |-> engine[e].batch]}
  /\ Goto(e, [engine[e] EXCEPT !.pc = "wait"])
  /\ UNCHANGED <<storeVars, deviceVars, historyVars>>

SendSignedOut(e) ==
  /\ engine[e].pc = "send" /\ ~signedIn[EngineDevice[e]]
  /\ Goto(e, Idle)
  /\ UNCHANGED <<storeVars, deviceVars, requests, historyVars>>

\* The page is applied; a run goes on while the server has more or edits are
\* left, unless the server settled nothing.
Applied(e) ==
  LET answer == engine[e].answer IN
  /\ engine[e].pc = "wait" /\ answer.ok
  /\ ApplySync(EngineDevice[e], engine[e].batch, answer)
  /\ Goto(e, IF answer.hasMore THEN At(e, "page")
             ELSE IF answer.accepted \cup answer.rejected = {} THEN Idle
             ELSE At(e, "check"))
  /\ UNCHANGED <<storeVars, signedIn, requests, historyVars>>

Check(e) ==
  /\ engine[e].pc = "check"
  /\ Goto(e, IF Dirty(EngineDevice[e]) = {} THEN Idle ELSE At(e, "page"))
  /\ UNCHANGED <<storeVars, deviceVars, requests, historyVars>>

EngineStep(e) ==
  \/ ReadDirty(e) \/ OutOfPages(e) \/ Send(e) \/ SendSignedOut(e)
  \/ Applied(e) \/ Check(e)

-----------------------------------------------------------------------------
(* Server, network, sign-out. *)

\* The server answers a request; perhaps nobody waits for it any more.
Serve(m) ==
  \E order \in Orders(Winners(m.changes)) :
    /\ Sync(m.changes, order)
    /\ requests' = requests \ {m}
    /\ engine' = [e \in Engines |->
         IF e \in m.by
         THEN [engine[e] EXCEPT !.answer =
                 AnswerTo(Stored(m.changes, order), m.cursor, m.changes)]
         ELSE engine[e]]
    /\ UNCHANGED <<deviceVars, historyVars>>

\* The app is killed, the connection breaks, the server fails or is updated.
\* The request is lost, or served later with nobody waiting, or was served.
Fail(e, late) ==
  LET mine == {m \in requests : e \in m.by} IN
  /\ failures < MaxFailures
  /\ engine[e].pc /= "idle"
  /\ Goto(e, Idle)
  /\ requests' = (requests \ mine) \cup
                 {[m EXCEPT !.by = {}] : m \in IF late THEN mine ELSE {}}
  /\ failures' = failures + 1
  /\ UNCHANGED <<storeVars, deviceVars, edits, ignored, discarded, signOuts>>

\* The end of signOut: the tokens go, and clear() empties the table and the
\* cursor.  What was unsent is thrown away; a warning came first.
SignOut(d) ==
  /\ signedIn[d] /\ signOuts < MaxSignOuts
  /\ signedIn' = [signedIn EXCEPT ![d] = FALSE]
  /\ rows' = [rows EXCEPT ![d] = {}]
  /\ cursor' = [cursor EXCEPT ![d] = 0]
  /\ listed' = [listed EXCEPT ![d] = {}]
  /\ orphaned' = [orphaned EXCEPT ![d] = {}]
  /\ discarded' = discarded \cup
       {e \in edits : e.by = d /\ \E r \in Dirty(d) : r.version.id = e.version.id}
  /\ signOuts' = signOuts + 1
  /\ UNCHANGED <<storeVars, engine, requests, edits, ignored, failures>>

SignIn(d) ==
  /\ ~signedIn[d]
  /\ signedIn' = [signedIn EXCEPT ![d] = TRUE]
  /\ UNCHANGED <<storeVars, rows, cursor, listed, orphaned, engine, requests, historyVars>>

Administer ==
  /\ \/ \E b \in Volatile : RemoveBook(b) \/ Withhold(b) \/ Grant(b)
     \/ Tick
  /\ UNCHANGED <<deviceVars, engine, requests, historyVars>>

-----------------------------------------------------------------------------

SyncInit ==
  /\ StoreInit
  /\ rows = [d \in Devices |-> {}]
  /\ cursor = [d \in Devices |-> 0]
  /\ listed = [d \in Devices |-> {}] /\ orphaned = [d \in Devices |-> {}]
  /\ signedIn = [d \in Devices |-> TRUE]
  /\ engine = [e \in Engines |-> Idle]
  /\ requests = {}
  /\ edits = {} /\ ignored = {} /\ discarded = {}
  /\ failures = 0 /\ signOuts = 0

Reader(d) ==
  \/ \E b \in Books : OpenBook(d, b)
  \/ \E id \in Ids, at \in Times :
       Add(d, id, at) \/ SetNote(d, id, at) \/ SetNoteOnNothing(d, id, at) \/ Delete(d, id, at)

SyncNext ==
  \/ \E d \in Devices : Reader(d) \/ SignOut(d) \/ SignIn(d)
  \/ \E e \in Engines : StartRun(e) \/ EngineStep(e)
  \/ \E e \in Engines, late \in BOOLEAN : Fail(e, late)
  \/ \E m \in requests : Serve(m)
  \/ Administer

SyncSpec == SyncInit /\ [][SyncNext]_syncVars

\* The daily job starts a run whenever none is going, threads make progress,
\* and the server answers; failures are finitely many.
Fairness ==
  \A e \in Engines :
    /\ WF_syncVars(StartRun(e)) /\ WF_syncVars(EngineStep(e))
    /\ WF_syncVars(\E m \in requests : e \in m.by /\ Serve(m))

FairSyncSpec == SyncSpec /\ Fairness

-----------------------------------------------------------------------------
(* Properties. *)

AnnotationTypeOK ==
  /\ StoreTypeOK
  /\ rows \in [Devices -> SUBSET LocalRow]
  /\ cursor \in [Devices -> Nat]
  /\ listed \in [Devices -> SUBSET Ids] /\ orphaned \in [Devices -> SUBSET Ids]
  /\ signedIn \in [Devices -> BOOLEAN]
  /\ engine \in [Engines -> Engine]
  /\ requests \subseteq Message
  /\ edits \cup ignored \cup discarded \subseteq Edit

\* The server took the edit, or has a newer one; one stamped ahead of the
\* server's clock counts as made when the server took it.
Settled(e) ==
  \E r \in annotations :
    /\ r.version.id = e.version.id
    /\ r.version.at >= e.version.at \/ e.version.at > MaxFutureSkew

\* reader.md: "Annotations are saved on the device first, then synced".  An
\* edit a device stored is settled or still marked for sending, or a later
\* edit of the annotation on that device is, unless the server refuses it,
\* a sign-out threw it away, or its book is gone.
NoEditLost ==
  \A e \in edits \ discarded :
    \E f \in edits :
      /\ f.by = e.by /\ f.version.id = e.version.id /\ f.version.text >= e.version.text
      /\ \/ Settled(f)
         \/ [version |-> f.version, dirty |-> TRUE] \in rows[f.by]
         \/ f.version.text \in Overlong
         \/ IdBook[f.version.id] \notin books \ (withheld \cup regranted)

Alone(d) == \A e, f \in Engines : EngineDevice[e] = d /\ EngineDevice[f] = d => e = f

\* "A client whose edit lost always converges on the winner": whatever a device
\* has been told of by its cursor it shows, tombstones by showing nothing,
\* unless it has an unsent edit of its own.  For a device that runs one engine,
\* as long as nobody signed out.
ShowsWinner ==
  \A d \in Devices, r \in annotations :
    (/\ Alone(d) /\ signOuts = 0
     /\ r.rev <= cursor[d]
     /\ Readable(r.version.id) /\ IdBook[r.version.id] \notin regranted
     /\ \A e \in edits : e.by = d /\ e.version.id = r.version.id => e.version.text \notin Overlong)
    => \/ \E l \in rows[d] : l.version.id = r.version.id /\ (l.dirty \/ l.version = r.version)
       \/ r.version.deleted /\ \A l \in rows[d] : l.version.id /= r.version.id

\* The edit a device stored reaches the server, and what other devices did
\* reaches the device, once nothing fails any more.
DevicesConverge ==
  \A d \in Devices : <>[]signedIn[d] =>
    <>[](Dirty(d) = {} /\ Unseen(annotations, cursor[d]) = {})

\* The store's promise, over every step of the system.
NewestKept == [][LastEditWins]_syncVars

\* reader.md: "Annotations are saved on the device first": no note is thrown
\* away because its annotation changed under the open list.
NotesAreSaved == ignored = {}

=============================================================================
