------------------------- MODULE ProgressSyncProofs -------------------------
(***************************************************************************)
(* What holds of devices, engines, network and store together, for every   *)
(* number of devices and threads, every batch size and every event.        *)
(*                                                                         *)
(* No work lost: an event leaves an outbox only when an answer names its   *)
(* ID; whatever such an answer names was recorded by a device and is in    *)
(* the committed log; and no two recorded events share an ID.              *)
(*                                                                         *)
(* Fresh activity: an outbox is emptied in the order it was filled, so     *)
(* what an answer leaves unsent of a book holds back the book's older      *)
(* positions.                                                              *)
(*                                                                         *)
(* Cursors: an engine has one round trip at a time, so a device with one   *)
(* engine gets back what it asked from where it stands, and no less.       *)
(*                                                                         *)
(* Refusals: an answer of refusal is made for a batch that has an event    *)
(* the store never takes, and isolate sends such an event alone.           *)
(*                                                                         *)
(* What is shown: in a calm history, a device has been told what the log   *)
(* has up to its cursor, and shows the canonical position of every book    *)
(* it has nothing unsent of. Its own events come back in the answers: one  *)
(* that is logged and still pending is in the batch being sent.            *)
(***************************************************************************)
EXTENDS ProgressSync, ReadingStoreProofs, FiniteSetTheorems

-----------------------------------------------------------------------------
(* The inductive invariant. *)

EngineOver(S) ==
  [pc : {"idle", "page", "send", "wait", "check"}, pages : 0 .. MaxPages,
   batch : Seq(S), rest : Seq(S), single : BOOLEAN]

RowOver(S) == [seq : Nat, change : S, status : {"pending", "rejected"}]

MessageOver(S) == [by : Clients, cursor : Nat, changes : Seq(S), release : Nat]

\* Only recorded events are anywhere on the way to the server.
OnlyRecorded ==
  /\ IsFiniteSet(recorded) /\ recorded \subseteq Changes /\ discarded \subseteq recorded
  /\ \A r, s \in recorded : r.id = s.id => r = s
  /\ outbox \in [Devices -> SUBSET RowOver(recorded)]
  /\ engine \in [Engines -> EngineOver(recorded)]
  /\ requests \subseteq MessageOver(recorded)
  /\ \A t \in tx : t.todo \in Seq(recorded)
  /\ position \in [Devices -> SUBSET Changes]
  /\ cursor \in [Devices -> Nat]
  /\ session \in [Devices -> {"in", "leaving", "confirmed", "out"}]
  /\ serverRelease \in Nat /\ appRelease \in [Devices -> Nat]

\* What these acknowledgements name is known and, while its edition is present,
\* among these log rows.
Named(acks, rows, known, present) ==
  \A a \in acks : \E r \in known :
    /\ r.id = a.id
    /\ r.edition \in present => \E e \in rows : e.change = r

AcksNameRecorded ==
  /\ \A client \in Clients : Named(reply[client].acks, db.events, recorded, editions)
  /\ \A t \in tx : Named(t.acks, t.db.events, recorded, editions)

SyncInv == IInv /\ OnlyRecorded /\ AcksNameRecorded /\ NoQueuedWorkLost

-----------------------------------------------------------------------------
(* Types. *)

\* A sequence of elements of T is one over T.
LEMMA SeqOver ==
  ASSUME NEW S, NEW T, NEW s \in Seq(S), \A i \in 1 .. Len(s) : s[i] \in T
  PROVE  s \in Seq(T)
OBVIOUS

\* More elements, more sequences.
LEMMA SeqMonotone ==
  ASSUME NEW S, NEW T, S \subseteq T
  PROVE  Seq(S) \subseteq Seq(T)
<1> SUFFICES ASSUME NEW s \in Seq(S) PROVE s \in Seq(T)
  OBVIOUS
<1>1. \A i \in 1 .. Len(s) : s[i] \in T
  OBVIOUS
<1> QED BY <1>1, SeqOver

\* The types grow with the events recorded.
LEMMA OverMonotone ==
  ASSUME NEW S, NEW T, S \subseteq T
  PROVE  /\ EngineOver(S) \subseteq EngineOver(T)
         /\ RowOver(S) \subseteq RowOver(T)
         /\ MessageOver(S) \subseteq MessageOver(T)
BY SeqMonotone DEF EngineOver, RowOver, MessageOver

\* The states an engine moves to, whatever set its events come from.
LEMMA EngineStates ==
  ASSUME NEW S, NEW e \in Engines, engine[e] \in EngineOver(S)
  PROVE  /\ IdleEngine \in EngineOver(S)
         /\ \A pc \in {"page", "check"} : Loop(e, pc) \in EngineOver(S)
         /\ \A s \in Seq(S) : s /= <<>> => Isolate(e, s) \in EngineOver(S)
         /\ NextSingle(e) \in EngineOver(S)
         /\ \A answer : AfterPage(e, answer) \in EngineOver(S)
<1>1. IdleEngine \in EngineOver(S)
  BY SyncAssumption DEF SyncAssumption, IdleEngine, EngineOver
<1>2. \A pc \in {"page", "check"} : Loop(e, pc) \in EngineOver(S)
  BY DEF Loop, EngineOver
<1>3. ASSUME NEW s \in Seq(S), s /= <<>>
      PROVE  Isolate(e, s) \in EngineOver(S)
  <2>1. Head(s) \in S /\ Tail(s) \in Seq(S)
    BY <1>3
  <2>2. <<Head(s)>> \in Seq(S)
    BY <2>1
  <2> QED BY <2>1, <2>2 DEF Isolate, EngineOver
<1>4. NextSingle(e) \in EngineOver(S)
  <2>1. engine[e].rest \in Seq(S)
    BY DEF EngineOver
  <2> QED BY <1>2, <1>3, <2>1 DEF NextSingle
<1>5. \A answer : AfterPage(e, answer) \in EngineOver(S)
  BY <1>1, <1>2 DEF AfterPage
<1> QED BY <1>1, <1>2, <1>3, <1>4, <1>5

\* What is over recorded events is of the declared types.
LEMMA OnlyRecordedTypes ==
  ASSUME IInv, OnlyRecorded
  PROVE  DeviceTypeOK
<1>1. EngineOver(Changes) = Engine /\ RowOver(Changes) = OutboxRow
      /\ MessageOver(Changes) = Message
  BY DEF EngineOver, RowOver, MessageOver, Engine, OutboxRow, Message
<1>2. /\ EngineOver(recorded) \subseteq Engine /\ RowOver(recorded) \subseteq OutboxRow
      /\ MessageOver(recorded) \subseteq Message
  BY <1>1, OverMonotone DEF OnlyRecorded
<1> QED BY <1>2 DEF OnlyRecorded, DeviceTypeOK, IInv

\* Nothing is recorded at first.
LEMMA InitSync == SyncInit => SyncInv
<1> SUFFICES ASSUME SyncInit PROVE SyncInv
  OBVIOUS
<1>1. IInv
  BY InitInvariant DEF SyncInit
<1>2. OnlyRecorded
  <2>1. IdleEngine \in EngineOver(recorded)
    BY SyncAssumption DEF SyncAssumption, IdleEngine, EngineOver
  <2> QED BY <2>1, FS_EmptySet DEF SyncInit, StoreInit, OnlyRecorded
<1>3. AcksNameRecorded
  BY DEF SyncInit, StoreInit, AcksNameRecorded, Named, NoReply, Answer
<1>4. NoQueuedWorkLost
  BY DEF SyncInit, NoQueuedWorkLost
<1> QED BY <1>1, <1>2, <1>3, <1>4 DEF SyncInv

-----------------------------------------------------------------------------
(* The composition takes only steps of the store. *)

\* A step of the store, with any batch of recorded events and any cursor.
StoreStep ==
  \/ SyncStep
  \/ \E removed \in Removable : RemoveEditions(removed)
  \/ \E client \in Clients, from \in Nat, changes \in Seq(recorded) :
       Request(client, from, changes)
  \/ \E client \in Clients : RefuseVersion(client) \/ TakeReply(client)
  \/ \E books \in SUBSET Books : SetVisible(books)
  \/ Tick
  \/ UNCHANGED storeVars

\* Whatever the composition does, the store sees one of its own steps.
LEMMA StoreSteps ==
  ASSUME SyncInv, [SyncNext]_syncVars
  PROVE  StoreStep
<1>1. Engines \subseteq Clients /\ Nobody \in Clients
  BY SyncAssumption DEF SyncAssumption
<1>2. CASE \E d \in Devices, c \in Changes : Record(d, c)
  BY <1>2 DEF Record, StoreStep
<1>3. CASE \E e \in Engines : StartRun(e) \/ EngineStep(e)
  <2>1. PICK e \in Engines : StartRun(e) \/ EngineStep(e)
    BY <1>3
  <2>2. CASE \/ StartRun(e) \/ \E batch \in Batches : ReadOutbox(e, batch)
             \/ OutOfPages(e) \/ Send(e) \/ SendSignedOut(e) \/ Check(e)
    BY <2>2 DEF StartRun, ReadOutbox, OutOfPages, Send, SendSignedOut, Check, StoreStep
  <2>3. CASE Applied(e) \/ StartIsolating(e) \/ Reject(e) \/ ServerFailed(e)
    BY <1>1, <2>3 DEF Applied, StartIsolating, Reject, Refused, ServerFailed, StoreStep
  <2> QED BY <2>1, <2>2, <2>3 DEF EngineStep
<1>4. CASE \E e \in Engines, late \in BOOLEAN : Fail(e, late)
  BY <1>1, <1>4 DEF Fail, StoreStep
<1>5. CASE \E m \in requests : Receive(m)
  <2>1. PICK m \in requests : Receive(m)
    BY <1>5
  <2>2. m.by \in Clients /\ m.cursor \in Nat /\ m.changes \in Seq(recorded)
    BY DEF SyncInv, OnlyRecorded, MessageOver
  <2> QED BY <2>1, <2>2 DEF Receive, StoreStep
<1>6. CASE ServerStep \/ ServerAbort \/ DropReply
  BY <1>1, <1>6 DEF ServerStep, ServerAbort, DropReply, SyncStep, StoreStep
<1>7. CASE Administer
  BY <1>7, SyncAssumption DEF SyncAssumption, Administer, StoreStep
<1>8. CASE \/ UpdateServer
           \/ \E d \in Devices : \/ SignOut(d) \/ Clear(d) \/ Expire(d) \/ SignIn(d)
                                \/ UpdateApp(d)
  BY <1>8 DEF SignOut, Clear, Expire, SignIn, UpdateServer, UpdateApp, StoreStep
<1>9. CASE UNCHANGED syncVars
  BY <1>9 DEF syncVars, StoreStep
<1> QED BY <1>2, <1>3, <1>4, <1>5, <1>6, <1>7, <1>8, <1>9 DEF SyncNext

\* So the store's invariant holds in the composition.
LEMMA StoreStepKeeps ==
  ASSUME SyncInv, StoreStep
  PROVE  IInv'
<1>1. Seq(recorded) \subseteq Seq(Changes)
  BY SeqMonotone DEF SyncInv, OnlyRecorded
<1> QED BY <1>1, SyncStepKeeps, RemoveEditionsKeeps, OtherStepsKeep
        DEF StoreStep, SyncInv

\* A transaction works through recorded events.
LEMMA TodoKept ==
  ASSUME SyncInv, StoreStep
  PROVE  \A t \in tx' : t.todo \in Seq(recorded)
<1>1. \A t \in tx : t.todo \in Seq(recorded)
  BY DEF SyncInv, OnlyRecorded
<1>2. CASE SyncStep
  <2>1. PICK t \in tx : Handle(t) \/ Abort(t)
    BY <1>2 DEF SyncStep
  <2>2. CASE RecordNew(t) \/ RecordDuplicate(t)
    <3>1. PICK f, ack : Advance(t, f, ack)
      BY <2>2 DEF RecordNew, RecordDuplicate
    <3>2. t.todo /= <<>>
      BY <2>2 DEF RecordNew, RecordDuplicate
    <3>3. Tail(t.todo) \in Seq(recorded)
      BY <1>1, <3>2
    <3>4. \A u \in tx' : u.todo = Tail(t.todo)
      BY <3>1 DEF Advance
    <3> QED BY <3>3, <3>4
  <2>3. CASE ~(RecordNew(t) \/ RecordDuplicate(t))
    <3>1. tx' = {}
      BY <2>1, <2>3 DEF Handle, RecordConflict, RecordUnknown, RecordWrongFormat,
                        CommitSync, CommitWithoutRow, Abort, Rollback
    <3> QED BY <3>1
  <2> QED BY <2>2, <2>3
<1>3. CASE \E client \in Clients, from \in Nat, changes \in Seq(recorded) :
             BeginSync(client, from, changes)
  <2>1. PICK client \in Clients, from \in Nat, changes \in Seq(recorded) :
          BeginSync(client, from, changes)
    BY <1>3
  <2>2. \A u \in tx' : u.todo = changes
    BY <2>1 DEF BeginSync
  <2> QED BY <2>2
<1>4. CASE \/ \E client \in Clients, from \in Nat, changes \in Seq(recorded) :
                RefuseSync(client, changes)
           \/ \E removed \in Removable : RemoveEditions(removed)
           \/ \E client \in Clients : RefuseVersion(client) \/ TakeReply(client)
           \/ \E books \in SUBSET Books : SetVisible(books)
           \/ Tick \/ UNCHANGED storeVars
  <2>1. tx' = tx
    BY <1>4 DEF RefuseSync, RemoveEditions, RefuseVersion, TakeReply, SetVisible, Tick, storeVars
  <2> QED BY <1>1, <2>1
<1> QED BY <1>2, <1>3, <1>4 DEF StoreStep, Request

-----------------------------------------------------------------------------
(* What the store's steps do to the log and to acknowledgements. *)

\* Committed events stay while their edition does.
LEMMA LogKept ==
  ASSUME IInv, StoreStep
  PROVE  /\ editions' \subseteq editions
         /\ \A e \in db.events : e.change.edition \in editions' => e \in db'.events
<1>1. CASE \E t \in tx : CommitSync(t)
  BY <1>1 DEF CommitSync, IInv, Extends
<1>2. CASE \E removed \in Removable : RemoveEditions(removed)
  BY <1>2 DEF RemoveEditions
<1>3. CASE \/ \E t \in tx : \/ RecordNew(t) \/ RecordDuplicate(t) \/ RecordConflict(t)
                           \/ RecordUnknown(t) \/ RecordWrongFormat(t)
                           \/ CommitWithoutRow(t) \/ Abort(t)
           \/ \E client \in Clients, from \in Nat, changes \in Seq(recorded) :
                Request(client, from, changes)
           \/ \E client \in Clients : RefuseVersion(client) \/ TakeReply(client)
           \/ \E books \in SUBSET Books : SetVisible(books)
           \/ Tick \/ UNCHANGED storeVars
  <2>1. db' = db /\ editions' = editions
    BY <1>3 DEF RecordNew, RecordDuplicate, RecordConflict, RecordUnknown,
                RecordWrongFormat, CommitWithoutRow, Abort, Rollback, Advance, Request,
                RefuseSync, BeginSync, RefuseVersion, TakeReply, SetVisible, Tick, storeVars
  <2> QED BY <2>1
<1> QED BY <1>1, <1>2, <1>3 DEF StoreStep, SyncStep, Handle

\* What a longer log and a smaller catalog leave of Named.
LEMMA NamedKept ==
  ASSUME NEW acks, NEW rows, NEW known, NEW present,
         NEW rows2, NEW known2, NEW present2,
         Named(acks, rows, known, present),
         known \subseteq known2, present2 \subseteq present,
         \A e \in rows : e.change.edition \in present2 => e \in rows2
  PROVE  Named(acks, rows2, known2, present2)
<1> SUFFICES ASSUME NEW a \in acks
             PROVE  \E r \in known2 :
                      /\ r.id = a.id
                      /\ r.edition \in present2 => \E e \in rows2 : e.change = r
  BY DEF Named
<1>1. PICK r \in known :
        /\ r.id = a.id
        /\ r.edition \in present => \E e \in rows : e.change = r
  BY DEF Named
<1>2. ASSUME r.edition \in present2
      PROVE  \E e \in rows2 : e.change = r
  <2>1. r.edition \in present
    BY <1>2
  <2>2. PICK e \in rows : e.change = r
    BY <1>1, <2>1
  <2>3. e \in rows2
    BY <1>2, <2>2
  <2> QED BY <2>2, <2>3
<1> QED BY <1>1, <1>2

\* The change the transaction records is in its copy of the log.
LEMMA RecordedIsLogged ==
  ASSUME NEW d, NEW c
  PROVE  /\ \E e \in RecordChange(d, c).events : e.change = c
         /\ d.events \subseteq RecordChange(d, c).events
<1> DEFINE disp == IF \A p \in RowsOf(c.book, d.progress) :
                         Beats([rev |-> d.revision + 1, change |-> c], p)
                   THEN "applied" ELSE "superseded"
           new  == [rev |-> d.revision + 1, change |-> c, disposition |-> disp]
<1>1. RecordChange(d, c).events = d.events \cup {new}
  BY DEF RecordChange
<1>2. new.change = c
  OBVIOUS
<1> QED BY <1>1, <1>2

\* One more acknowledged change, after which the copy of the log is f.
LEMMA AdvanceNames ==
  ASSUME SyncInv, NEW t \in tx, t.todo /= <<>>, NEW f, NEW ack,
         Advance(t, f, ack), t.db.events \subseteq f.events,
         ack.id = Head(t.todo).id, \E e \in f.events : e.change = Head(t.todo),
         recorded \subseteq recorded'
  PROVE  AcksNameRecorded'
<1> DEFINE u == [by |-> t.by, cursor |-> t.cursor, todo |-> Tail(t.todo),
                 acks |-> t.acks \cup {ack}, db |-> f]
<1>1. tx' = {u} /\ UNCHANGED <<db, reply, editions>>
  BY DEF Advance
<1>2. u.acks = t.acks \cup {ack} /\ u.db.events = f.events
  OBVIOUS
<1>3. Head(t.todo) \in recorded
  BY DEF SyncInv, OnlyRecorded
<1>4. Named(t.acks, f.events, recorded, editions)
  <2>1. Named(t.acks, t.db.events, recorded, editions)
    BY DEF SyncInv, AcksNameRecorded
  <2> QED BY <2>1, NamedKept
<1>5. Named(u.acks, u.db.events, recorded, editions)
  <2> HIDE DEF u
  <2> QED BY <1>2, <1>3, <1>4 DEF Named
<1>6. Named(u.acks, u.db.events, recorded', editions')
  <2> HIDE DEF u
  <2> QED BY <1>1, <1>5, NamedKept
<1>7. ASSUME NEW client \in Clients
      PROVE  Named(reply'[client].acks, db'.events, recorded', editions')
  BY <1>1, NamedKept DEF SyncInv, AcksNameRecorded
<1> HIDE DEF u
<1> QED BY <1>1, <1>6, <1>7 DEF AcksNameRecorded

\* No acknowledgement is made: every answer is an old one or has none.
LEMMA NoNewAcks ==
  ASSUME SyncInv, StoreStep, recorded \subseteq recorded',
         \A client \in Clients : reply'[client].acks \subseteq reply[client].acks,
         \A u \in tx' : u.acks = {} \/ (u \in tx /\ editions' = editions)
  PROVE  AcksNameRecorded'
<1>1. /\ editions' \subseteq editions
      /\ \A e \in db.events : e.change.edition \in editions' => e \in db'.events
  BY LogKept DEF SyncInv
<1>2. ASSUME NEW client \in Clients
      PROVE  Named(reply'[client].acks, db'.events, recorded', editions')
  <2>1. Named(reply[client].acks, db'.events, recorded', editions')
    BY <1>1, NamedKept DEF SyncInv, AcksNameRecorded
  <2> QED BY <2>1 DEF Named
<1>3. ASSUME NEW u \in tx'
      PROVE  Named(u.acks, u.db.events, recorded', editions')
  <2>1. CASE u.acks = {}
    BY <2>1 DEF Named
  <2>2. CASE u \in tx /\ editions' = editions
    BY <2>2, NamedKept DEF SyncInv, AcksNameRecorded
  <2> QED BY <2>1, <2>2
<1> QED BY <1>2, <1>3 DEF AcksNameRecorded

\* Acknowledgements, in a transaction or in an answer, go on naming logged events.
LEMMA AcksKept ==
  ASSUME SyncInv, StoreStep, recorded \subseteq recorded'
  PROVE  AcksNameRecorded'
<1>1. /\ reply \in [Clients -> Reply] /\ tx \subseteq Transaction
      /\ \A t, u \in tx : t = u
  BY DEF SyncInv, IInv, TypeOK
<1>2. CASE \E t \in tx : RecordNew(t)
  <2>1. PICK t \in tx : RecordNew(t)
    BY <1>2
  <2> DEFINE c == Head(t.todo)
             f == RecordChange(t.db, c)
  <2>2. PICK ack : ack.id = c.id /\ Advance(t, f, ack)
    BY <2>1 DEF RecordNew
  <2>3. /\ t.todo /= <<>> /\ t.db.events \subseteq f.events
        /\ \E e \in f.events : e.change = c
    BY <2>1, RecordedIsLogged DEF RecordNew
  <2> HIDE DEF f
  <2> QED BY <2>2, <2>3, AdvanceNames
<1>3. CASE \E t \in tx : RecordDuplicate(t)
  <2>1. PICK t \in tx : RecordDuplicate(t)
    BY <1>3
  <2>2. PICK e \in t.db.events :
          /\ e.change = Head(t.todo)
          /\ \E ack : ack.id = Head(t.todo).id /\ Advance(t, t.db, ack)
    BY <2>1 DEF RecordDuplicate
  <2> QED BY <2>1, <2>2, AdvanceNames DEF RecordDuplicate
<1>4. ASSUME NEW t \in tx, NEW status \in Status, Rollback(t, status)
      PROVE  AcksNameRecorded'
  <2>1. /\ tx' = {} /\ reply' = [reply EXCEPT ![t.by] = Answer(status)]
        /\ t.by \in Clients /\ Answer(status).acks = {}
    BY <1>1, <1>4 DEF Rollback, Transaction, Answer
  <2>2. \A client \in Clients : reply'[client].acks \subseteq reply[client].acks
    BY <1>1, <2>1
  <2> QED BY <2>1, <2>2, NoNewAcks
<1>5. CASE \E t \in tx : \/ RecordConflict(t) \/ RecordUnknown(t) \/ RecordWrongFormat(t)
                       \/ CommitWithoutRow(t) \/ Abort(t)
  BY <1>4, <1>5 DEF RecordConflict, RecordUnknown, RecordWrongFormat,
                    CommitWithoutRow, Abort, Status
<1>6. CASE \E t \in tx : CommitSync(t)
  <2>1. PICK t \in tx : CommitSync(t)
    BY <1>6
  <2>2. /\ db' = t.db /\ tx' = {} /\ editions' = editions /\ t.by \in Clients
        /\ \E answer : answer.acks = t.acks /\ reply' = [reply EXCEPT ![t.by] = answer]
    BY <1>1, <2>1 DEF CommitSync, Transaction
  <2>3. Named(t.acks, db'.events, recorded', editions')
    BY <2>2, NamedKept DEF SyncInv, AcksNameRecorded
  <2>4. db.events \subseteq db'.events
    BY <2>2 DEF SyncInv, IInv, Extends
  <2>5. ASSUME NEW client \in Clients
        PROVE  Named(reply'[client].acks, db'.events, recorded', editions')
    <3>1. CASE client = t.by
      BY <1>1, <2>2, <2>3, <3>1
    <3>2. CASE client /= t.by
      <4>1. reply'[client] = reply[client]
        BY <1>1, <2>2, <3>2
      <4> QED BY <2>2, <2>4, <4>1, NamedKept DEF SyncInv, AcksNameRecorded
    <3> QED BY <3>1, <3>2
  <2> QED BY <2>2, <2>5 DEF AcksNameRecorded
<1>7. CASE \E client \in Clients, from \in Nat, changes \in Seq(recorded) :
             Request(client, from, changes)
  <2>1. PICK client \in Clients, from \in Nat, changes \in Seq(recorded) :
          Request(client, from, changes)
    BY <1>7
  <2>2. CASE RefuseSync(client, changes)
    <3>1. \A k \in Clients : reply'[k].acks \subseteq reply[k].acks
      BY <1>1, <2>2 DEF RefuseSync, Answer
    <3> QED BY <2>2, <3>1, NoNewAcks DEF RefuseSync
  <2>3. CASE BeginSync(client, from, changes)
    BY <2>3, NoNewAcks DEF BeginSync
  <2> QED BY <2>1, <2>2, <2>3 DEF Request
<1>8. CASE \E client \in Clients : RefuseVersion(client) \/ TakeReply(client)
  <2>1. \A k \in Clients : reply'[k].acks \subseteq reply[k].acks
    BY <1>1, <1>8 DEF RefuseVersion, TakeReply, NoReply, Answer
  <2>2. tx' = tx /\ editions' = editions
    BY <1>8 DEF RefuseVersion, TakeReply
  <2> QED BY <2>1, <2>2, NoNewAcks
<1>9. CASE \/ \E removed \in Removable : RemoveEditions(removed)
           \/ \E books \in SUBSET Books : SetVisible(books)
           \/ Tick \/ UNCHANGED storeVars
  BY <1>9, NoNewAcks DEF RemoveEditions, SetVisible, Tick, storeVars
<1> QED BY <1>2, <1>3, <1>5, <1>6, <1>7, <1>8, <1>9
        DEF StoreStep, SyncStep, Handle

-----------------------------------------------------------------------------
(* What a device's and an engine's step do. *)

\* An engine moves to another state over the recorded events; what else
\* OnlyRecorded names is as it was.
LEMMA EngineMoves ==
  ASSUME SyncInv, StoreStep, NEW e \in Engines, NEW next \in EngineOver(recorded),
         Goto(e, next),
         UNCHANGED <<position, outbox, cursor, session, requests,
                   recorded, discarded, serverRelease, appRelease>>
  PROVE  OnlyRecorded'
<1>1. engine' \in [Engines -> EngineOver(recorded)]
  BY DEF Goto, SyncInv, OnlyRecorded
<1> QED BY <1>1, TodoKept DEF SyncInv, OnlyRecorded

\* A new event is recorded before it is anywhere else.
LEMMA RecordTypes ==
  ASSUME SyncInv, StoreStep, NEW d \in Devices, NEW c \in Changes, Record(d, c)
  PROVE  OnlyRecorded'
<1>1. recorded' = recorded \cup {c} /\ recorded \subseteq recorded' /\ discarded' = discarded
  BY DEF Record, releaseVars
<1>2. IsFiniteSet(recorded') /\ Cardinality(recorded) \in Nat
  BY <1>1, FS_AddElement, FS_CardinalityType DEF SyncInv, OnlyRecorded
<1>3. \A r, s \in recorded' : r.id = s.id => r = s
  BY <1>1 DEF Record, SyncInv, OnlyRecorded
<1>4. /\ EngineOver(recorded) \subseteq EngineOver(recorded')
      /\ RowOver(recorded) \subseteq RowOver(recorded')
      /\ MessageOver(recorded) \subseteq MessageOver(recorded')
      /\ Seq(recorded) \subseteq Seq(recorded')
  BY <1>1, OverMonotone, SeqMonotone
<1>5. outbox' \in [Devices -> SUBSET RowOver(recorded')]
  <2> DEFINE row == [seq |-> Cardinality(recorded), change |-> c, status |-> "pending"]
  <2>1. row \in RowOver(recorded')
    BY <1>1, <1>2 DEF RowOver
  <2>2. outbox' = [outbox EXCEPT ![d] = outbox[d] \cup {row}]
    BY DEF Record, releaseVars
  <2> HIDE DEF row
  <2> QED BY <1>4, <2>1, <2>2 DEF SyncInv, OnlyRecorded
<1>6. position' \in [Devices -> SUBSET Changes]
  BY DEF Record, PutPositions, SyncInv, OnlyRecorded
<1>7. engine' \in [Engines -> EngineOver(recorded')] /\ requests' \subseteq MessageOver(recorded')
  BY <1>4 DEF Record, releaseVars, SyncInv, OnlyRecorded
<1>8. \A t \in tx' : t.todo \in Seq(recorded')
  BY <1>4, TodoKept
<1>9. UNCHANGED <<cursor, session, serverRelease, appRelease>>
  BY DEF Record, releaseVars
<1> QED BY <1>1, <1>2, <1>3, <1>5, <1>6, <1>7, <1>8, <1>9 DEF SyncInv, OnlyRecorded

\* The batch an engine reads is of recorded events.
LEMMA BatchRecorded ==
  ASSUME SyncInv, NEW d \in Devices, NEW batch \in Batches, OldestPending(d, batch)
  PROVE  batch \in Seq(recorded)
<1>1. batch \in Seq(Changes)
  BY StoreAssumption DEF StoreAssumption
<1>2. \A o \in Pending(d) : o.change \in recorded
  BY DEF Pending, SyncInv, OnlyRecorded, RowOver
<1>3. \A i \in 1 .. Len(batch) : batch[i] \in recorded
  BY <1>2 DEF OldestPending
<1> QED BY <1>1, <1>3, SeqOver

\* A merged answer leaves rows of the outbox and adds logged positions.
LEMMA AppliedTypes ==
  ASSUME SyncInv, StoreStep, NEW e \in Engines, Applied(e)
  PROVE  OnlyRecorded'
<1> DEFINE d == EngineDevice[e]
<1>1. d \in Devices /\ e \in Clients
  BY SyncAssumption DEF SyncAssumption
<1>2. reply[e] \in Reply
  BY <1>1 DEF SyncInv, IInv, TypeOK
<1>3. \A p \in reply[e].progress : p.change \in Changes
  BY <1>2 DEF Reply, ProgressRow
<1>4. cursor' \in [Devices -> Nat]
  BY <1>1, <1>2 DEF Applied, ApplySync, Reply, SyncInv, OnlyRecorded
<1>5. outbox' \in [Devices -> SUBSET RowOver(recorded)]
  BY <1>1 DEF Applied, ApplySync, SyncInv, OnlyRecorded
<1>6. position' \in [Devices -> SUBSET Changes]
  <2>1. PICK adopted \in SUBSET Changes :
          position' = [position EXCEPT ![d] = PutPositions(d, adopted)]
    BY <1>3 DEF Applied, ApplySync
  <2>2. PutPositions(d, adopted) \in SUBSET Changes
    BY <1>1 DEF PutPositions, SyncInv, OnlyRecorded
  <2> QED BY <2>1, <2>2 DEF SyncInv, OnlyRecorded
<1>7. engine' \in [Engines -> EngineOver(recorded)]
  <2>1. engine[e] \in EngineOver(recorded) /\ engine \in [Engines -> EngineOver(recorded)]
    BY DEF SyncInv, OnlyRecorded
  <2>2. NextSingle(e) \in EngineOver(recorded) /\ AfterPage(e, reply[e]) \in EngineOver(recorded)
    BY <2>1, EngineStates
  <2> QED BY <2>1, <2>2 DEF Applied, Goto
<1>8. UNCHANGED <<session, requests,
                   recorded, discarded, serverRelease, appRelease>>
  BY DEF Applied, historyVars, releaseVars
<1> QED BY <1>4, <1>5, <1>6, <1>7, <1>8, TodoKept DEF SyncInv, OnlyRecorded

\* A rejected row is the row it was, with another status.
LEMMA RejectTypes ==
  ASSUME SyncInv, StoreStep, NEW e \in Engines, Reject(e)
  PROVE  OnlyRecorded'
<1> DEFINE d == EngineDevice[e]
<1>1. d \in Devices
  BY SyncAssumption DEF SyncAssumption
<1>2. outbox' \in [Devices -> SUBSET RowOver(recorded)]
  <2> DEFINE rows == Rejected(outbox[d], engine[e].batch)
  <2>1. outbox[d] \subseteq RowOver(recorded)
    BY <1>1 DEF SyncInv, OnlyRecorded
  <2>2. ASSUME NEW o \in RowOver(recorded)
        PROVE  [o EXCEPT !.status = "rejected"] \in RowOver(recorded)
    BY DEF RowOver
  <2>3. outbox' = [outbox EXCEPT ![d] = rows]
    BY DEF Reject
  <2>4. rows \in SUBSET RowOver(recorded)
    BY <2>1, <2>2 DEF Rejected
  <2> HIDE DEF rows
  <2> QED BY <1>1, <2>3, <2>4 DEF SyncInv, OnlyRecorded
<1>3. engine' \in [Engines -> EngineOver(recorded)]
  <2>1. engine[e] \in EngineOver(recorded) /\ engine \in [Engines -> EngineOver(recorded)]
    BY DEF SyncInv, OnlyRecorded
  <2>2. NextSingle(e) \in EngineOver(recorded) /\ Loop(e, "page") \in EngineOver(recorded)
    BY <2>1, EngineStates
  <2> QED BY <2>1, <2>2 DEF Reject, Goto
<1>4. UNCHANGED <<position, cursor, session, requests,
                   recorded, discarded, serverRelease, appRelease>>
  BY DEF Reject, historyVars, releaseVars
<1> QED BY <1>2, <1>3, <1>4, TodoKept DEF SyncInv, OnlyRecorded

\* Steps that neither record, apply nor reject.
LEMMA OtherTypes ==
  ASSUME SyncInv, StoreStep,
         \/ \E e \in Engines :
              \/ StartRun(e) \/ \E batch \in Batches : ReadOutbox(e, batch)
              \/ OutOfPages(e) \/ Send(e) \/ SendSignedOut(e) \/ Check(e)
              \/ StartIsolating(e) \/ ServerFailed(e)
         \/ \E e \in Engines, late \in BOOLEAN : Fail(e, late)
         \/ \E m \in requests : Receive(m)
         \/ ServerStep \/ ServerAbort \/ DropReply \/ Administer
         \/ \E d \in Devices : SignOut(d) \/ Clear(d) \/ Expire(d) \/ SignIn(d)
         \/ UpdateServer \/ \E d \in Devices : UpdateApp(d)
         \/ UNCHANGED syncVars
  PROVE  OnlyRecorded'
<1>1. engine \in [Engines -> EngineOver(recorded)]
  BY DEF SyncInv, OnlyRecorded
<1>2. ASSUME NEW e \in Engines
      PROVE  /\ IdleEngine \in EngineOver(recorded)
             /\ \A pc \in {"page", "check"} : Loop(e, pc) \in EngineOver(recorded)
             /\ \A s \in Seq(recorded) : s /= <<>> => Isolate(e, s) \in EngineOver(recorded)
             /\ engine[e].batch \in Seq(recorded)
             /\ engine[e].pages \in 0 .. MaxPages
  BY <1>1, EngineStates DEF EngineOver
<1>3. CASE \E e \in Engines : StartRun(e) \/ OutOfPages(e) \/ SendSignedOut(e) \/ Check(e)
                              \/ ServerFailed(e)
  <2>1. PICK e \in Engines : StartRun(e) \/ OutOfPages(e) \/ SendSignedOut(e) \/ Check(e)
                             \/ ServerFailed(e)
    BY <1>3
  <2>2. Goto(e, IdleEngine) \/ Goto(e, Loop(e, "page"))
    BY <2>1 DEF StartRun, OutOfPages, SendSignedOut, Check, ServerFailed
  <2>3. UNCHANGED <<position, outbox, cursor, session, requests,
                   recorded, discarded, serverRelease, appRelease>>
    BY <2>1 DEF StartRun, OutOfPages, SendSignedOut, Check, ServerFailed, deviceVars, historyVars, releaseVars
  <2> QED BY <1>2, <2>2, <2>3, EngineMoves
<1>4. CASE \E e \in Engines, batch \in Batches : ReadOutbox(e, batch)
  <2>1. PICK e \in Engines, batch \in Batches : ReadOutbox(e, batch)
    BY <1>4
  <2> DEFINE next == [pc |-> "send", pages |-> engine[e].pages + 1, batch |-> batch,
                      rest |-> <<>>, single |-> FALSE]
  <2>2. Goto(e, next)
    BY <2>1 DEF ReadOutbox
  <2>3. batch \in Seq(recorded)
    BY <2>1, SyncAssumption, BatchRecorded DEF SyncAssumption, ReadOutbox
  <2>4. engine[e].pages + 1 \in 0 .. MaxPages
    BY <1>2, <2>1, SyncAssumption DEF SyncAssumption, ReadOutbox
  <2>5. next \in EngineOver(recorded)
    BY <2>3, <2>4 DEF EngineOver
  <2>6. UNCHANGED <<position, outbox, cursor, session, requests,
                   recorded, discarded, serverRelease, appRelease>>
    BY <2>1 DEF ReadOutbox, deviceVars, historyVars, releaseVars
  <2> HIDE DEF next
  <2> QED BY <2>2, <2>5, <2>6, EngineMoves
<1>5. CASE \E e \in Engines : StartIsolating(e)
  <2>1. PICK e \in Engines : StartIsolating(e)
    BY <1>5
  <2>2. Isolate(e, engine[e].batch) \in EngineOver(recorded)
    BY <1>2, <2>1 DEF StartIsolating
  <2>3. UNCHANGED <<position, outbox, cursor, session, requests,
                   recorded, discarded, serverRelease, appRelease>>
    BY <2>1 DEF StartIsolating, deviceVars, historyVars, releaseVars
  <2> QED BY <2>1, <2>2, <2>3, EngineMoves DEF StartIsolating
<1>6. CASE \E e \in Engines : Send(e)
  <2>1. PICK e \in Engines : Send(e)
    BY <1>6
  <2> DEFINE m == [by |-> e, cursor |-> cursor[EngineDevice[e]], changes |-> engine[e].batch,
                  release |-> appRelease[EngineDevice[e]]]
  <2>2. requests' = requests \cup {m}
    BY <2>1 DEF Send
  <2>3. m \in MessageOver(recorded)
    BY <1>2, SyncAssumption DEF SyncAssumption, MessageOver, SyncInv, OnlyRecorded
  <2>4. engine' \in [Engines -> EngineOver(recorded)]
    <3>1. engine' = [engine EXCEPT ![e] = [engine[e] EXCEPT !.pc = "wait"]]
      BY <2>1 DEF Send, Goto
    <3>2. [engine[e] EXCEPT !.pc = "wait"] \in EngineOver(recorded)
      BY <1>1 DEF EngineOver
    <3> QED BY <1>1, <3>1, <3>2
  <2>5. UNCHANGED <<position, outbox, cursor, session, recorded, discarded, serverRelease, appRelease>>
    BY <2>1 DEF Send, deviceVars, historyVars, releaseVars
  <2> HIDE DEF m
  <2> QED BY <2>2, <2>3, <2>4, <2>5, TodoKept DEF SyncInv, OnlyRecorded
<1>7. CASE \E e \in Engines, late \in BOOLEAN : Fail(e, late)
  <2>1. PICK e \in Engines, late \in BOOLEAN : Fail(e, late)
    BY <1>7
  <2>2. requests' \subseteq MessageOver(recorded)
    <3> Nobody \in Clients
      BY SyncAssumption DEF SyncAssumption
    <3>1. \A m \in MessageOver(recorded) : [m EXCEPT !.by = Nobody] \in MessageOver(recorded)
      BY DEF MessageOver
    <3>2. \A r \in requests' : r \in requests \/ \E m \in requests : r = [m EXCEPT !.by = Nobody]
      BY <2>1 DEF Fail
    <3> QED BY <3>1, <3>2 DEF SyncInv, OnlyRecorded
  <2>3. engine' \in [Engines -> EngineOver(recorded)]
    BY <1>1, <1>2, <2>1 DEF Fail, Goto
  <2>4. UNCHANGED <<position, outbox, cursor, session, recorded, discarded, serverRelease, appRelease>>
    BY <2>1 DEF Fail, deviceVars, releaseVars
  <2> QED BY <2>2, <2>3, <2>4, TodoKept DEF SyncInv, OnlyRecorded
<1>8. CASE \/ \E m \in requests : Receive(m)
           \/ ServerStep \/ ServerAbort \/ DropReply \/ Administer \/ UNCHANGED syncVars
  <2>1. /\ requests' \subseteq requests
        /\ UNCHANGED <<position, outbox, cursor, session, engine, recorded, discarded, serverRelease, appRelease>>
    BY <1>8 DEF Receive, ServerStep, ServerAbort, DropReply, Administer, syncVars,
                deviceVars, historyVars, releaseVars
  <2> QED BY <2>1, TodoKept DEF SyncInv, OnlyRecorded
<1>9. CASE \E d \in Devices : SignOut(d) \/ Clear(d) \/ Expire(d) \/ SignIn(d)
  <2>1. PICK d \in Devices : SignOut(d) \/ Clear(d) \/ Expire(d) \/ SignIn(d)
    BY <1>9
  <2>2. CASE Clear(d)
    <3>1. \A o \in outbox[d] : o.change \in recorded
      BY DEF SyncInv, OnlyRecorded, RowOver
    <3>2. discarded' \subseteq recorded /\ recorded' = recorded
      BY <2>2, <3>1 DEF Clear, SyncInv, OnlyRecorded
    <3>3. UNCHANGED <<engine, requests, serverRelease, appRelease>>
      BY <2>2 DEF Clear, releaseVars
    <3>4. /\ outbox' \in [Devices -> SUBSET RowOver(recorded)]
          /\ position' \in [Devices -> SUBSET Changes]
          /\ cursor' \in [Devices -> Nat]
          /\ session' \in [Devices -> {"in", "leaving", "confirmed", "out"}]
      BY <2>2 DEF Clear, SyncInv, OnlyRecorded
    <3> QED BY <3>2, <3>3, <3>4, TodoKept DEF SyncInv, OnlyRecorded
  <2>3. CASE SignOut(d) \/ Expire(d) \/ SignIn(d)
    <3>1. UNCHANGED <<position, outbox, cursor, engine, requests,
                   recorded, discarded, serverRelease, appRelease>>
      BY <2>3 DEF SignOut, Expire, SignIn, historyVars, releaseVars
    <3>2. session' \in [Devices -> {"in", "leaving", "confirmed", "out"}]
      BY <2>3 DEF SignOut, Expire, SignIn, SyncInv, OnlyRecorded
    <3> QED BY <3>1, <3>2, TodoKept DEF SyncInv, OnlyRecorded
  <2> QED BY <2>1, <2>2, <2>3
<1>10. CASE UpdateServer \/ \E d \in Devices : UpdateApp(d)
  <2>1. UNCHANGED <<position, outbox, cursor, session, engine, requests, recorded, discarded>>
    BY <1>10 DEF UpdateServer, UpdateApp, deviceVars
  <2>2. serverRelease' \in Nat /\ appRelease' \in [Devices -> Nat]
    BY <1>10 DEF UpdateServer, UpdateApp, SyncInv, OnlyRecorded
  <2> QED BY <2>1, <2>2, TodoKept DEF SyncInv, OnlyRecorded
<1> QED BY <1>3, <1>4, <1>5, <1>6, <1>7, <1>8, <1>9, <1>10

-----------------------------------------------------------------------------
(* Queued work. *)

\* A recorded event that is in an outbox or in the log, unless its edition left.
Kept(c) ==
  \/ \E d \in Devices : \E o \in outbox[d] : o.change = c
  \/ \E e \in db.events : e.change = c
  \/ c.edition \notin editions

\* The log keeps what it has while the edition is there.
LEMMA LoggedKept ==
  ASSUME SyncInv, StoreStep, NEW c,
         (\E e \in db.events : e.change = c) \/ c.edition \notin editions
  PROVE  Kept(c)'
<1>1. /\ editions' \subseteq editions
      /\ \A e \in db.events : e.change.edition \in editions' => e \in db'.events
  BY LogKept DEF SyncInv
<1> QED BY <1>1 DEF Kept

\* Applying an answer takes out only events the log has.
LEMMA AppliedKeeps ==
  ASSUME SyncInv, StoreStep, NEW e \in Engines, Applied(e), NEW c \in recorded, Kept(c)
  PROVE  Kept(c)'
<1> DEFINE d == EngineDevice[e]
<1>1. d \in Devices /\ e \in Clients
  BY SyncAssumption DEF SyncAssumption
<1>2. outbox' = [outbox EXCEPT ![d] =
        {o \in outbox[d] : o.change.id \notin {a.id : a \in reply[e].acks}}]
  BY DEF Applied, ApplySync
<1>3. outbox \in [Devices -> SUBSET RowOver(recorded)]
  BY DEF SyncInv, OnlyRecorded
<1>4. CASE \E a \in reply[e].acks : a.id = c.id
  <2>1. PICK a \in reply[e].acks : a.id = c.id
    BY <1>4
  <2>2. PICK r \in recorded :
          /\ r.id = a.id
          /\ r.edition \in editions => \E f \in db.events : f.change = r
    BY <1>1, <2>1 DEF SyncInv, AcksNameRecorded, Named
  <2>3. r = c
    BY <2>1, <2>2 DEF SyncInv, OnlyRecorded
  <2> QED BY <2>2, <2>3, LoggedKept
<1>5. CASE ~\E a \in reply[e].acks : a.id = c.id
  <2>1. ASSUME NEW k \in Devices, NEW o \in outbox[k], o.change = c
        PROVE  o \in outbox'[k]
    BY <1>2, <1>3, <1>5, <2>1
  <2>2. CASE \E k \in Devices : \E o \in outbox[k] : o.change = c
    BY <2>1, <2>2 DEF Kept
  <2> QED BY <2>2, LoggedKept DEF Kept
<1> QED BY <1>4, <1>5

\* Rejecting loses no row.
LEMMA RejectKeeps ==
  ASSUME SyncInv, StoreStep, NEW e \in Engines, Reject(e), NEW c \in recorded, Kept(c)
  PROVE  Kept(c)'
<1> DEFINE d == EngineDevice[e]
<1>1. outbox' = [outbox EXCEPT ![d] = Rejected(outbox[d], engine[e].batch)]
  BY DEF Reject
<1>2. outbox \in [Devices -> SUBSET RowOver(recorded)]
  BY DEF SyncInv, OnlyRecorded
<1>3. ASSUME NEW k \in Devices, NEW o \in outbox[k], o.change = c
      PROVE  \E r \in outbox'[k] : r.change = c
  <2>1. CASE k = d
    <3>1. PICK r \in Rejected(outbox[d], engine[e].batch) :
            r = o \/ r = [o EXCEPT !.status = "rejected"]
      BY <2>1 DEF Rejected
    <3>2. r.change = o.change
      BY <1>2, <3>1 DEF RowOver
    <3> QED BY <1>1, <1>2, <1>3, <2>1, <3>1, <3>2
  <2>2. CASE k /= d
    BY <1>1, <1>2, <1>3, <2>2
  <2> QED BY <2>1, <2>2
<1>4. CASE \E k \in Devices : \E o \in outbox[k] : o.change = c
  BY <1>3, <1>4 DEF Kept
<1> QED BY <1>4, LoggedKept DEF Kept

\* An event leaves an outbox acknowledged, discarded, or not at all.
LEMMA QueueKept ==
  ASSUME SyncInv, StoreStep, [SyncNext]_syncVars
  PROVE  NoQueuedWorkLost'
<1>1. \A c \in recorded \ discarded : Kept(c)
  BY DEF SyncInv, NoQueuedWorkLost, Kept
<1>2. outbox \in [Devices -> SUBSET RowOver(recorded)]
  BY DEF SyncInv, OnlyRecorded
<1> SUFFICES ASSUME NEW c \in recorded' \ discarded' PROVE Kept(c)'
  BY DEF NoQueuedWorkLost, Kept
<1>3. CASE \E d \in Devices, n \in Changes : Record(d, n)
  <2>1. PICK d \in Devices, n \in Changes : Record(d, n)
    BY <1>3
  <2> DEFINE row == [seq |-> Cardinality(recorded), change |-> n, status |-> "pending"]
  <2>2. /\ outbox' = [outbox EXCEPT ![d] = outbox[d] \cup {row}]
        /\ recorded' = recorded \cup {n} /\ discarded' = discarded
    BY <2>1 DEF Record
  <2>3. \A k \in Devices : outbox[k] \subseteq outbox'[k]
    BY <1>2, <2>2
  <2>4. \E o \in outbox'[d] : o.change = n
    <3>1. row \in outbox'[d]
      BY <1>2, <2>2
    <3> QED BY <3>1
  <2>5. CASE c = n
    BY <2>4, <2>5 DEF Kept
  <2>6. CASE c \in recorded \ discarded
    <3>1. CASE \E k \in Devices : \E o \in outbox[k] : o.change = c
      BY <2>3, <3>1 DEF Kept
    <3> QED BY <1>1, <2>6, <3>1, LoggedKept DEF Kept
  <2> QED BY <2>2, <2>5, <2>6
<1>4. CASE \E e \in Engines : Applied(e) \/ Reject(e)
  <2>1. PICK e \in Engines : Applied(e) \/ Reject(e)
    BY <1>4
  <2>2. recorded' = recorded /\ discarded' = discarded
    BY <2>1 DEF Applied, Reject, historyVars, releaseVars
  <2> QED BY <1>1, <2>1, <2>2, AppliedKeeps, RejectKeeps
<1>5. CASE \E d \in Devices : Clear(d)
  <2>1. PICK d \in Devices : Clear(d)
    BY <1>5
  <2>2. /\ outbox' = [outbox EXCEPT ![d] = {}] /\ recorded' = recorded
        /\ discarded' = discarded \cup {o.change : o \in outbox[d]}
    BY <2>1 DEF Clear
  <2>3. c \in recorded \ discarded /\ \A o \in outbox[d] : o.change /= c
    BY <2>2
  <2>4. CASE \E k \in Devices : \E o \in outbox[k] : o.change = c
    BY <1>2, <2>2, <2>3, <2>4 DEF Kept
  <2> QED BY <1>1, <2>3, <2>4, LoggedKept DEF Kept
<1>6. CASE UNCHANGED <<outbox, recorded, discarded>>
  <2>1. CASE \E k \in Devices : \E o \in outbox[k] : o.change = c
    BY <1>6, <2>1 DEF Kept
  <2> QED BY <1>1, <1>6, <2>1, LoggedKept DEF Kept
<1>7. \/ \E d \in Devices, n \in Changes : Record(d, n)
      \/ \E e \in Engines : Applied(e) \/ Reject(e)
      \/ \E d \in Devices : Clear(d)
      \/ UNCHANGED <<outbox, recorded, discarded>>
  BY DEF SyncNext, EngineStep, StartRun, ReadOutbox, OutOfPages, Send, SendSignedOut, Check,
         StartIsolating, ServerFailed, Fail, Receive, ServerStep, ServerAbort, DropReply,
         Administer, UpdateServer, UpdateApp, SignOut, Expire, SignIn, syncVars, deviceVars, historyVars, releaseVars
<1> QED BY <1>3, <1>4, <1>5, <1>6, <1>7

-----------------------------------------------------------------------------
(* The theorems. *)

\* The parts together are inductive.
LEMMA SyncStepInvariant == SyncInv /\ [SyncNext]_syncVars => SyncInv'
<1> SUFFICES ASSUME SyncInv, [SyncNext]_syncVars PROVE SyncInv'
  OBVIOUS
<1>1. StoreStep
  BY StoreSteps
<1>2. IInv'
  BY <1>1, StoreStepKeeps
<1>3. recorded \subseteq recorded'
  BY DEF SyncNext, Record, EngineStep, StartRun, ReadOutbox, OutOfPages, Send, SendSignedOut,
         Applied, Check, StartIsolating, Reject, ServerFailed, Fail, Receive, ServerStep,
         ServerAbort, DropReply, Administer, UpdateServer, UpdateApp, SignOut, Clear, Expire, SignIn, syncVars,
         historyVars, releaseVars
<1>4. AcksNameRecorded'
  BY <1>1, <1>3, AcksKept
<1>5. NoQueuedWorkLost'
  BY <1>1, QueueKept
<1>6. OnlyRecorded'
  <2>1. CASE \E d \in Devices, c \in Changes : Record(d, c)
    BY <1>1, <2>1, RecordTypes
  <2>2. CASE \E e \in Engines : Applied(e)
    BY <1>1, <2>2, AppliedTypes
  <2>3. CASE \E e \in Engines : Reject(e)
    BY <1>1, <2>3, RejectTypes
  <2> QED BY <1>1, <2>1, <2>2, <2>3, OtherTypes DEF SyncNext, EngineStep
<1> QED BY <1>2, <1>4, <1>5, <1>6 DEF SyncInv

\* The inductive invariant holds of every behaviour of devices and store.
THEOREM SyncInvariant == SyncSpec => []SyncInv
<1>1. SyncInit => SyncInv
  BY InitSync
<1>2. SyncInv /\ [SyncNext]_syncVars => SyncInv'
  BY SyncStepInvariant
<1> QED BY <1>1, <1>2, PTL DEF SyncSpec

\* Every variable of the devices, the engines, the network and the store keeps
\* its type.
THEOREM SyncTypeCorrect == SyncSpec => []DeviceTypeOK
<1>1. SyncInv => DeviceTypeOK
  BY OnlyRecordedTypes DEF SyncInv
<1> QED BY <1>1, SyncInvariant, PTL

\* docs/offline-sync.md: "A failed sync never deletes queued work", for any
\* number of devices, threads and events, any batch size, any failures.
THEOREM SyncNoQueuedWorkLost == SyncSpec => []NoQueuedWorkLost
<1>1. SyncInv => NoQueuedWorkLost
  BY DEF SyncInv
<1> QED BY <1>1, SyncInvariant, PTL

\* What the store promises alone it keeps when real devices use it: the
\* canonical row of every book is the latest event logged for it, and an
\* acknowledgement, however late it is read, names a logged event.
THEOREM SyncStoreCorrect ==
  SyncSpec => [](KeysOK /\ CanonicalIsLogged /\ CanonicalIsLatest /\ AcksAreDurable)
<1>1. SyncInv => KeysOK /\ CanonicalIsLogged /\ CanonicalIsLatest /\ AcksAreDurable
  BY DEF SyncInv, IInv, Good, KeysOK, CanonicalIsLogged, CanonicalIsLatest, AcksAreDurable
<1> QED BY <1>1, SyncInvariant, PTL

-----------------------------------------------------------------------------
(* One round trip at a time. *)

IdsOf(s) == {s[i].id : i \in 1 .. Len(s)}
AckedIds(acks) == {a.id : a \in acks}

\* A request with somebody waiting is the only one of that engine, made of the
\* batch the engine waits with, and not yet being answered.
RequestsOfBatches ==
  \A m \in requests : m.by \in Engines =>
    /\ engine[m.by].pc = "wait" /\ m.changes = engine[m.by].batch
    /\ reply[m.by] = NoReply
    /\ \A t \in tx : t.by /= m.by
    /\ \A n \in requests : n.by = m.by => n = m

\* A transaction has acknowledged the batch but for what it has still to do.
TransactionsOfBatches ==
  \A t \in tx :
    /\ reply[t.by] = NoReply
    /\ t.by \in Engines =>
         /\ engine[t.by].pc = "wait"
         /\ AckedIds(t.acks) \cup IdsOf(t.todo) = IdsOf(engine[t.by].batch)

\* An answer is waited for; one of success acknowledges the batch, no more and
\* no less.
RepliesOfBatches ==
  \A e \in Engines :
    /\ reply[e] /= NoReply => engine[e].pc = "wait"
    /\ reply[e].status = "ok" => AckedIds(reply[e].acks) = IdsOf(engine[e].batch)

RoundTrip == RequestsOfBatches /\ TransactionsOfBatches /\ RepliesOfBatches

\* No round trip has begun.
LEMMA InitRoundTrip == SyncInit => RoundTrip
BY SyncAssumption DEF SyncAssumption, SyncInit, StoreInit, RoundTrip, RequestsOfBatches,
   TransactionsOfBatches, RepliesOfBatches, NoReply, Answer

\* The first event of a sequence and the rest of it.
LEMMA IdsOfParts ==
  ASSUME NEW S, NEW s \in Seq(S), s /= <<>>
  PROVE  IdsOf(s) = {Head(s).id} \cup IdsOf(Tail(s))
<1>1. Len(s) \in Nat /\ Len(s) >= 1 /\ Head(s) = s[1]
  OBVIOUS
<1>2. Len(Tail(s)) = Len(s) - 1 /\ \A i \in 1 .. Len(s) - 1 : Tail(s)[i] = s[i + 1]
  OBVIOUS
<1>3. ASSUME NEW i \in 1 .. Len(s)
      PROVE  s[i].id \in {Head(s).id} \cup IdsOf(Tail(s))
  <2>1. CASE i = 1
    BY <1>1, <2>1
  <2>2. CASE i /= 1
    <3>1. i - 1 \in 1 .. Len(s) - 1 /\ (i - 1) + 1 = i
      BY <1>1, <2>2
    <3>2. Tail(s)[i - 1] = s[i]
      BY <1>2, <3>1
    <3> QED BY <1>2, <3>1, <3>2 DEF IdsOf
  <2> QED BY <2>1, <2>2
<1>4. ASSUME NEW i \in 1 .. Len(Tail(s))
      PROVE  Tail(s)[i].id \in IdsOf(s)
  <2>1. i + 1 \in 1 .. Len(s) /\ Tail(s)[i] = s[i + 1]
    BY <1>1, <1>2
  <2> QED BY <2>1 DEF IdsOf
<1>5. Head(s).id \in IdsOf(s)
  <2>1. 1 \in 1 .. Len(s)
    BY <1>1
  <2> QED BY <1>1, <2>1 DEF IdsOf
<1> QED BY <1>3, <1>4, <1>5 DEF IdsOf

\* An engine that does not wait has nothing on its way.
LEMMA NothingOnTheWay ==
  ASSUME RoundTrip, NEW e \in Engines, engine[e].pc /= "wait"
  PROVE  /\ \A m \in requests : m.by /= e
         /\ \A t \in tx : t.by /= e
         /\ reply[e] = NoReply
BY DEF RoundTrip, RequestsOfBatches, TransactionsOfBatches, RepliesOfBatches

\* One whose answer is there has nothing else on its way.
LEMMA AnswerIsAll ==
  ASSUME RoundTrip, NEW e \in Engines, reply[e] /= NoReply
  PROVE  /\ \A m \in requests : m.by /= e
         /\ \A t \in tx : t.by /= e
BY DEF RoundTrip, RequestsOfBatches, TransactionsOfBatches
\* An engine's round trip is over, or it had none; the others' go on.
LEMMA RoundTripEnds ==
  ASSUME SyncInv, RoundTrip, NEW e \in Engines,
         \A m \in requests' : m.by \in Engines => m \in requests /\ m.by /= e,
         tx' = tx, \A t \in tx : t.by /= e,
         \A k \in Engines : k /= e => engine'[k] = engine[k],
         \A k \in Clients : k /= e => reply'[k] = reply[k],
         reply'[e] = NoReply
  PROVE  RoundTrip'
<1>1. Engines \subseteq Clients
  BY SyncAssumption DEF SyncAssumption
<1>2. \A t \in tx : t.by \in Clients
  BY DEF SyncInv, IInv, TypeOK, Transaction
<1>3. RequestsOfBatches'
  <2> SUFFICES ASSUME NEW m \in requests', m.by \in Engines
               PROVE  /\ engine'[m.by].pc = "wait" /\ m.changes = engine'[m.by].batch
                      /\ reply'[m.by] = NoReply
                      /\ \A t \in tx' : t.by /= m.by
                      /\ \A n \in requests' : n.by = m.by => n = m
    BY DEF RequestsOfBatches
  <2>1. m \in requests /\ m.by /= e
    OBVIOUS
  <2>2. /\ engine[m.by].pc = "wait" /\ m.changes = engine[m.by].batch
        /\ reply[m.by] = NoReply /\ \A t \in tx : t.by /= m.by
        /\ \A n \in requests : n.by = m.by => n = m
    BY <2>1 DEF RoundTrip, RequestsOfBatches
  <2>3. engine'[m.by] = engine[m.by] /\ reply'[m.by] = reply[m.by]
    BY <1>1, <2>1
  <2> QED BY <2>2, <2>3
<1>4. TransactionsOfBatches'
  <2> SUFFICES ASSUME NEW t \in tx
               PROVE  /\ reply'[t.by] = NoReply
                      /\ t.by \in Engines =>
                           /\ engine'[t.by].pc = "wait"
                           /\ AckedIds(t.acks) \cup IdsOf(t.todo) = IdsOf(engine'[t.by].batch)
    BY DEF TransactionsOfBatches
  <2>1. reply'[t.by] = reply[t.by]
    BY <1>2
  <2>2. t.by \in Engines => engine'[t.by] = engine[t.by]
    OBVIOUS
  <2> QED BY <2>1, <2>2 DEF RoundTrip, TransactionsOfBatches
<1>5. RepliesOfBatches'
  <2> SUFFICES ASSUME NEW k \in Engines
               PROVE  /\ reply'[k] /= NoReply => engine'[k].pc = "wait"
                      /\ reply'[k].status = "ok" =>
                           AckedIds(reply'[k].acks) = IdsOf(engine'[k].batch)
    BY DEF RepliesOfBatches
  <2>1. CASE k = e
    BY <2>1 DEF NoReply, Answer
  <2>2. CASE k /= e
    BY <1>1, <2>2 DEF RoundTrip, RepliesOfBatches
  <2> QED BY <2>1, <2>2
<1> QED BY <1>3, <1>4, <1>5 DEF RoundTrip

\* A transaction ends with an answer to whoever waits for it.
LEMMA RoundTripAnswers ==
  ASSUME SyncInv, RoundTrip, NEW t \in tx, NEW answer,
         tx' = {}, reply' = [reply EXCEPT ![t.by] = answer],
         answer.status = "ok" => t.todo = <<>> /\ answer.acks = t.acks,
         UNCHANGED <<requests, engine>>
  PROVE  RoundTrip'
<1>1. Engines \subseteq Clients /\ reply \in [Clients -> Reply] /\ t.by \in Clients
  BY SyncAssumption DEF SyncAssumption, SyncInv, IInv, TypeOK, Transaction
<1>2. \A k \in Clients : k /= t.by => reply'[k] = reply[k]
  BY <1>1
<1>3. RequestsOfBatches'
  <2>1. \A m \in requests : m.by \in Engines => m.by /= t.by
    BY DEF RoundTrip, RequestsOfBatches
  <2> QED BY <1>1, <1>2, <2>1 DEF RoundTrip, RequestsOfBatches
<1>4. TransactionsOfBatches'
  BY DEF TransactionsOfBatches
<1>5. ASSUME NEW k \in Engines
      PROVE  /\ reply'[k] /= NoReply => engine'[k].pc = "wait"
             /\ reply'[k].status = "ok" => AckedIds(reply'[k].acks) = IdsOf(engine'[k].batch)
  <2>1. CASE k = t.by
    <3>1. engine[k].pc = "wait"
          /\ AckedIds(t.acks) \cup IdsOf(t.todo) = IdsOf(engine[k].batch)
      BY <2>1 DEF RoundTrip, TransactionsOfBatches
    <3>2. reply'[k] = answer
      BY <1>1, <2>1
    <3>3. ASSUME answer.status = "ok"
          PROVE  AckedIds(answer.acks) = IdsOf(engine[k].batch)
      <4>1. IdsOf(t.todo) = {}
        BY <3>3 DEF IdsOf
      <4> QED BY <3>1, <3>3, <4>1
    <3> QED BY <3>1, <3>2, <3>3
  <2>2. CASE k /= t.by
    BY <1>1, <1>2, <2>2 DEF RoundTrip, RepliesOfBatches
  <2> QED BY <2>1, <2>2
<1>6. RepliesOfBatches'
  BY <1>5 DEF RepliesOfBatches
<1> QED BY <1>3, <1>4, <1>6 DEF RoundTrip

\* A transaction has acknowledged one change more.
LEMMA RoundTripAdvances ==
  ASSUME SyncInv, RoundTrip, NEW t \in tx, t.todo /= <<>>, NEW f, NEW ack,
         ack.id = Head(t.todo).id, Advance(t, f, ack), UNCHANGED <<requests, engine>>
  PROVE  RoundTrip'
<1> DEFINE u == [by |-> t.by, cursor |-> t.cursor, todo |-> Tail(t.todo),
                 acks |-> t.acks \cup {ack}, db |-> f]
<1>1. tx' = {u} /\ reply' = reply
  BY DEF Advance
<1>2. u.by = t.by /\ u.acks = t.acks \cup {ack} /\ u.todo = Tail(t.todo)
  OBVIOUS
<1>3. AckedIds(u.acks) = AckedIds(t.acks) \cup {ack.id}
  BY <1>2 DEF AckedIds
<1> HIDE DEF u
<1>4. IdsOf(t.todo) = {ack.id} \cup IdsOf(u.todo)
  <2>1. t.todo \in Seq(recorded)
    BY DEF SyncInv, OnlyRecorded
  <2> QED BY <1>2, <2>1, IdsOfParts
<1>5. AckedIds(u.acks) \cup IdsOf(u.todo) = AckedIds(t.acks) \cup IdsOf(t.todo)
  BY <1>3, <1>4
<1>6. TransactionsOfBatches'
  BY <1>1, <1>2, <1>5 DEF RoundTrip, TransactionsOfBatches
<1>7. RequestsOfBatches'
  BY <1>1, <1>2 DEF RoundTrip, RequestsOfBatches
<1>8. RepliesOfBatches'
  BY <1>1 DEF RoundTrip, RepliesOfBatches
<1> QED BY <1>6, <1>7, <1>8 DEF RoundTrip
\* A request is refused before a transaction starts.
LEMMA RoundTripRefused ==
  ASSUME SyncInv, RoundTrip, NEW m \in requests, NEW answer,
         answer.status /= "ok", reply' = [reply EXCEPT ![m.by] = answer],
         \A t \in tx : t.by /= m.by,
         requests' = requests \ {m}, UNCHANGED <<tx, engine>>
  PROVE  RoundTrip'
<1>1. Engines \subseteq Clients /\ reply \in [Clients -> Reply] /\ m.by \in Clients
  BY SyncAssumption DEF SyncAssumption, SyncInv, IInv, TypeOK, OnlyRecorded, MessageOver
<1>2. /\ \A k \in Clients : k /= m.by => reply'[k] = reply[k]
      /\ reply'[m.by] = answer
  BY <1>1
<1>3. \A t \in tx : t.by \in Clients
  BY DEF SyncInv, IInv, TypeOK, Transaction
<1>4. RequestsOfBatches'
  <2>1. \A n \in requests' : n.by \in Engines => n \in requests /\ n.by /= m.by
    BY DEF RoundTrip, RequestsOfBatches
  <2> QED BY <1>1, <1>2, <2>1 DEF RoundTrip, RequestsOfBatches
<1>5. TransactionsOfBatches'
  BY <1>2, <1>3 DEF RoundTrip, TransactionsOfBatches
<1>6. ASSUME NEW k \in Engines
      PROVE  /\ reply'[k] /= NoReply => engine'[k].pc = "wait"
             /\ reply'[k].status = "ok" => AckedIds(reply'[k].acks) = IdsOf(engine'[k].batch)
  <2>1. CASE k = m.by
    BY <1>2, <2>1 DEF RoundTrip, RequestsOfBatches
  <2>2. CASE k /= m.by
    BY <1>1, <1>2, <2>2 DEF RoundTrip, RepliesOfBatches
  <2> QED BY <2>1, <2>2
<1>7. RepliesOfBatches'
  BY <1>6 DEF RepliesOfBatches
<1> QED BY <1>4, <1>5, <1>7 DEF RoundTrip

\* The server takes a request up.
LEMMA RoundTripBegins ==
  ASSUME SyncInv, RoundTrip, NEW m \in requests, BeginSync(m.by, m.cursor, m.changes),
         requests' = requests \ {m}, UNCHANGED engine
  PROVE  RoundTrip'
<1> DEFINE u == [by |-> m.by, cursor |-> m.cursor, todo |-> m.changes,
                 acks |-> {}, db |-> db]
<1>1. tx' = {u} /\ reply' = reply /\ reply[m.by] = NoReply
  BY DEF BeginSync
<1>2. u.by = m.by /\ u.todo = m.changes /\ u.acks = {}
  OBVIOUS
<1> HIDE DEF u
<1>3. AckedIds(u.acks) = {}
  BY <1>2 DEF AckedIds
<1>4. RequestsOfBatches'
  <2>1. \A n \in requests' : n.by \in Engines => n \in requests /\ n.by /= m.by
    BY DEF RoundTrip, RequestsOfBatches
  <2> QED BY <1>1, <1>2, <2>1 DEF RoundTrip, RequestsOfBatches
<1>5. TransactionsOfBatches'
  <2>1. m.by \in Engines => engine[m.by].pc = "wait" /\ m.changes = engine[m.by].batch
    BY DEF RoundTrip, RequestsOfBatches
  <2> QED BY <1>1, <1>2, <1>3, <2>1 DEF TransactionsOfBatches
<1>6. RepliesOfBatches'
  BY <1>1 DEF RoundTrip, RepliesOfBatches
<1> QED BY <1>4, <1>5, <1>6 DEF RoundTrip

\* Sending starts the only round trip of the engine.
LEMMA RoundTripSent ==
  ASSUME SyncInv, RoundTrip, NEW e \in Engines, Send(e)
  PROVE  RoundTrip'
<1> DEFINE m == [by |-> e, cursor |-> cursor[EngineDevice[e]], changes |-> engine[e].batch,
                 release |-> appRelease[EngineDevice[e]]]
           next == [engine[e] EXCEPT !.pc = "wait"]
<1>1. requests' = requests \cup {m} /\ UNCHANGED <<reply, tx>> /\ engine[e].pc = "send"
  BY DEF Send, storeVars
<1>2. m.by = e /\ m.changes = engine[e].batch
  OBVIOUS
<1>3. engine \in [Engines -> EngineOver(recorded)]
  BY DEF SyncInv, OnlyRecorded
<1>4. next.pc = "wait" /\ next.batch = engine[e].batch
  BY <1>3 DEF EngineOver
<1>5. engine' = [engine EXCEPT ![e] = next]
  BY DEF Send, Goto
<1> HIDE DEF m, next
<1>6. /\ \A k \in Engines : k /= e => engine'[k] = engine[k]
      /\ engine'[e] = next
  BY <1>3, <1>5
<1>7. /\ \A n \in requests : n.by /= e
      /\ \A t \in tx : t.by /= e
      /\ reply[e] = NoReply
  BY <1>1, NothingOnTheWay
<1>8. RequestsOfBatches'
  <2> SUFFICES ASSUME NEW n \in requests', n.by \in Engines
               PROVE  /\ engine'[n.by].pc = "wait" /\ n.changes = engine'[n.by].batch
                      /\ reply'[n.by] = NoReply
                      /\ \A t \in tx' : t.by /= n.by
                      /\ \A q \in requests' : q.by = n.by => q = n
    BY DEF RequestsOfBatches
  <2>1. CASE n = m
    BY <1>1, <1>2, <1>4, <1>6, <1>7, <2>1
  <2>2. CASE n \in requests
    <3>1. n.by /= e
      BY <1>7, <2>2
    <3> QED BY <1>1, <1>2, <1>6, <2>2, <3>1 DEF RoundTrip, RequestsOfBatches
  <2> QED BY <1>1, <2>1, <2>2
<1>9. TransactionsOfBatches'
  BY <1>1, <1>6, <1>7 DEF RoundTrip, TransactionsOfBatches
<1>10. RepliesOfBatches'
  BY <1>1, <1>6, <1>7 DEF RoundTrip, RepliesOfBatches, NoReply, Answer
<1> QED BY <1>8, <1>9, <1>10 DEF RoundTrip

\* Every step leaves each engine at most one round trip.
LEMMA RoundTripKept ==
  ASSUME SyncInv, RoundTrip, [SyncNext]_syncVars
  PROVE  RoundTrip'
<1>1. /\ Engines \subseteq Clients /\ Nobody \in Clients /\ Nobody \notin Engines
      /\ reply \in [Clients -> Reply] /\ engine \in [Engines -> EngineOver(recorded)]
  BY SyncAssumption DEF SyncAssumption, SyncInv, IInv, TypeOK, OnlyRecorded
<1>2. CASE UNCHANGED <<requests, tx, reply, engine>>
  BY <1>2 DEF RoundTrip, RequestsOfBatches, TransactionsOfBatches, RepliesOfBatches
<1>3. CASE \E e \in Engines : \/ StartRun(e) \/ OutOfPages(e) \/ SendSignedOut(e) \/ Check(e)
                              \/ \E batch \in Batches : ReadOutbox(e, batch)
  <2>1. PICK e \in Engines : \/ StartRun(e) \/ OutOfPages(e) \/ SendSignedOut(e) \/ Check(e)
                             \/ \E batch \in Batches : ReadOutbox(e, batch)
    BY <1>3
  <2>2. engine[e].pc /= "wait"
    BY <2>1 DEF StartRun, ReadOutbox, OutOfPages, SendSignedOut, Check
  <2>3. UNCHANGED <<requests, tx, reply>> /\ \E next : Goto(e, next)
    BY <2>1 DEF StartRun, ReadOutbox, OutOfPages, SendSignedOut, Check, storeVars
  <2>4. \A k \in Engines : k /= e => engine'[k] = engine[k]
    BY <1>1, <2>3 DEF Goto
  <2> QED BY <2>2, <2>3, <2>4, NothingOnTheWay, RoundTripEnds
<1>4. CASE \E e \in Engines : Applied(e) \/ StartIsolating(e) \/ Reject(e) \/ ServerFailed(e)
  <2>1. PICK e \in Engines : Applied(e) \/ StartIsolating(e) \/ Reject(e) \/ ServerFailed(e)
    BY <1>4
  <2>2. TakeReply(e) /\ requests' = requests /\ \E next : Goto(e, next)
    BY <2>1 DEF Applied, StartIsolating, Reject, Refused, ServerFailed
  <2>3. /\ \A k \in Engines : k /= e => engine'[k] = engine[k]
        /\ \A k \in Clients : k /= e => reply'[k] = reply[k]
        /\ reply'[e] = NoReply /\ reply[e] /= NoReply /\ tx' = tx
    BY <1>1, <2>2 DEF Goto, TakeReply
  <2> QED BY <2>2, <2>3, AnswerIsAll, RoundTripEnds
<1>5. CASE \E e \in Engines, late \in BOOLEAN : Fail(e, late)
  <2>1. PICK e \in Engines, late \in BOOLEAN : Fail(e, late)
    BY <1>5
  <2>2. requests \in SUBSET MessageOver(recorded)
    BY DEF SyncInv, OnlyRecorded
  <2>3. ASSUME NEW m \in requests', m.by \in Engines
        PROVE  m \in requests /\ m.by /= e
    <3>1. \/ m \in requests /\ m.by /= e
          \/ \E n \in requests : m = [n EXCEPT !.by = Nobody]
      BY <2>1, <2>3 DEF Fail
    <3>2. \A n \in requests : [n EXCEPT !.by = Nobody].by = Nobody
      BY <2>2 DEF MessageOver
    <3> QED BY <1>1, <2>3, <3>1, <3>2
  <2>4. /\ \A k \in Engines : k /= e => engine'[k] = engine[k]
        /\ \A k \in Clients : k /= e => reply'[k] = reply[k]
        /\ reply'[e] = NoReply /\ tx' = tx
    BY <1>1, <2>1 DEF Fail, Goto, TakeReply, storeVars
  <2>5. \A t \in tx : t.by /= e
    BY <2>1 DEF Fail
  <2> QED BY <2>3, <2>4, <2>5, RoundTripEnds
<1>6. CASE \E e \in Engines : Send(e)
  BY <1>6, RoundTripSent
<1>7. CASE \E m \in requests : Receive(m)
  <2>1. PICK m \in requests : Receive(m)
    BY <1>7
  <2>2. requests' = requests \ {m} /\ engine' = engine
    BY <2>1 DEF Receive
  <2>3. CASE BeginSync(m.by, m.cursor, m.changes)
    BY <2>2, <2>3, RoundTripBegins
  <2>4. CASE RefuseVersion(m.by) \/ RefuseSync(m.by, m.changes)
    <3>1. PICK status \in {"version_mismatch", "invalid_change"} :
            reply' = [reply EXCEPT ![m.by] = Answer(status)]
      BY <2>4 DEF RefuseVersion, RefuseSync
    <3>2. Answer(status).status /= "ok"
      BY DEF Answer
    <3>3. tx' = tx /\ \A t \in tx : t.by /= m.by
      BY <2>4 DEF RefuseVersion, RefuseSync
    <3> QED BY <2>2, <3>1, <3>2, <3>3, RoundTripRefused
  <2> QED BY <2>1, <2>3, <2>4 DEF Receive, Request
<1>8. CASE ServerStep \/ ServerAbort
  <2>1. PICK t \in tx : Handle(t) \/ Abort(t)
    BY <1>8 DEF ServerStep, ServerAbort
  <2>2. UNCHANGED <<requests, engine>>
    BY <1>8 DEF ServerStep, ServerAbort
  <2>3. CASE RecordNew(t) \/ RecordDuplicate(t)
    <3>1. PICK f, ack : ack.id = Head(t.todo).id /\ Advance(t, f, ack)
      BY <2>3 DEF RecordNew, RecordDuplicate
    <3> QED BY <2>2, <2>3, <3>1, RoundTripAdvances DEF RecordNew, RecordDuplicate
  <2>4. CASE CommitSync(t)
    <3>1. /\ t.todo = <<>> /\ tx' = {}
          /\ \E answer : answer.acks = t.acks /\ reply' = [reply EXCEPT ![t.by] = answer]
      BY <2>4 DEF CommitSync
    <3> QED BY <2>2, <3>1, RoundTripAnswers
  <2>5. CASE \/ RecordConflict(t) \/ RecordUnknown(t) \/ RecordWrongFormat(t)
             \/ CommitWithoutRow(t) \/ Abort(t)
    <3>1. PICK status \in Status \ {"ok"} : Rollback(t, status)
      BY <2>5 DEF RecordConflict, RecordUnknown, RecordWrongFormat, CommitWithoutRow,
                  Abort, Status
    <3>2. /\ tx' = {} /\ reply' = [reply EXCEPT ![t.by] = Answer(status)]
          /\ Answer(status).status /= "ok"
      BY <3>1 DEF Rollback, Answer
    <3> QED BY <2>2, <3>2, RoundTripAnswers
  <2> QED BY <2>1, <2>3, <2>4, <2>5 DEF Handle
<1>9. CASE DropReply
  <2>1. UNCHANGED <<requests, tx, engine>> /\ reply' = [reply EXCEPT ![Nobody] = NoReply]
    BY <1>9 DEF DropReply, TakeReply
  <2>2. \A t \in tx : reply'[t.by] = NoReply
    BY <1>1, <2>1 DEF RoundTrip, TransactionsOfBatches, SyncInv, IInv, TypeOK, Transaction
  <2>3. \A k \in Engines : reply'[k] = reply[k]
    BY <1>1, <2>1
  <2> QED BY <2>1, <2>2, <2>3
          DEF RoundTrip, RequestsOfBatches, TransactionsOfBatches, RepliesOfBatches
<1>10. CASE \/ \E d \in Devices, c \in Changes : Record(d, c)
            \/ Administer \/ UpdateServer
            \/ \E d \in Devices : \/ SignOut(d) \/ Clear(d) \/ Expire(d) \/ SignIn(d)
                                 \/ UpdateApp(d)
            \/ UNCHANGED syncVars
  <2>1. UNCHANGED <<requests, tx, reply, engine>>
    BY <1>10 DEF Record, Administer, SetVisible, RemoveEditions, Tick, UpdateServer, UpdateApp,
                 SignOut, Clear, Expire, SignIn, syncVars, storeVars, deviceVars
  <2> QED BY <1>2, <2>1
<1> QED BY <1>3, <1>4, <1>5, <1>6, <1>7, <1>8, <1>9, <1>10 DEF SyncNext, EngineStep

-----------------------------------------------------------------------------
(* The order of the outbox. *)

\* A row's place in the queue and its event are its own, and new events go to
\* the end.
QueueKeys ==
  \A d \in Devices :
    /\ IsFiniteSet(outbox[d])
    /\ \A o \in outbox[d] : o.seq < Cardinality(recorded)
    /\ \A o, q \in outbox[d] : (o.seq = q.seq \/ o.change = q.change) => o = q

\* Wherever y stands in what an engine has still to send, x stands before it.
Ahead(x, y, s) ==
  /\ \A i \in 1 .. Len(s.batch) :
       s.batch[i] = y => \E j \in 1 .. (i - 1) : s.batch[j] = x
  /\ \A i \in 1 .. Len(s.rest) :
       s.rest[i] = y => \/ \E j \in 1 .. Len(s.batch) : s.batch[j] = x
                        \/ \E j \in 1 .. (i - 1) : s.rest[j] = x

\* An engine sends an event after every older one that is still pending.
Orderly(e) ==
  engine[e].pc \in {"send", "wait"} =>
    /\ engine[e].single => Len(engine[e].batch) = 1
    /\ ~engine[e].single => engine[e].rest = <<>>
    /\ \A o \in Pending(EngineDevice[e]), q \in outbox[EngineDevice[e]] :
         o.seq < q.seq => Ahead(o.change, q.change, engine[e])

OldestFirst == \A e \in Engines : Orderly(e)

QueueInv == RoundTrip /\ QueueKeys /\ OldestFirst /\ FreshActivityVisible

\* The steps that touch an outbox or a position.
LEMMA OutboxSteps ==
  ASSUME [SyncNext]_syncVars
  PROVE  \/ \E d \in Devices, c \in Changes : Record(d, c)
         \/ \E e \in Engines : Applied(e) \/ Reject(e)
         \/ \E d \in Devices : Clear(d)
         \/ UNCHANGED <<outbox, position, recorded>>
BY DEF SyncNext, EngineStep, StartRun, ReadOutbox, OutOfPages, Send, SendSignedOut, Check,
       StartIsolating, ServerFailed, Fail, Receive, ServerStep, ServerAbort, DropReply,
       Administer, UpdateServer, UpdateApp, SignOut, Expire, SignIn, syncVars, deviceVars, historyVars, releaseVars

\* A row after reject.
Marked(o, events) ==
  IF o.change.id \in IdsOf(events) THEN [o EXCEPT !.status = "rejected"] ELSE o

\* What reject leaves of the rows: the same rows, some no longer pending.
LEMMA RejectedRows ==
  ASSUME NEW S, NEW rows, NEW events, \A o \in rows : o \in RowOver(S)
  PROVE  /\ \A r \in Rejected(rows, events) : \E o \in rows :
              /\ r.seq = o.seq /\ r.change = o.change
              /\ r = Marked(o, events)
              /\ r.status = "pending" => r = o /\ o.change.id \notin IdsOf(events)
         /\ IsFiniteSet(rows) => IsFiniteSet(Rejected(rows, events))
<1>1. Rejected(rows, events) = {Marked(o, events) : o \in rows}
  BY DEF Rejected, IdsOf, Marked
<1>2. ASSUME NEW o \in rows
      PROVE  /\ Marked(o, events).seq = o.seq /\ Marked(o, events).change = o.change
             /\ Marked(o, events).status = "pending" => Marked(o, events) = o /\ o.change.id \notin IdsOf(events)
  <2>1. CASE o.change.id \in IdsOf(events)
    <3>1. Marked(o, events) = [o EXCEPT !.status = "rejected"]
      BY <2>1 DEF Marked
    <3>2. o \in RowOver(S)
      OBVIOUS
    <3> QED BY <3>1, <3>2 DEF RowOver
  <2>2. CASE o.change.id \notin IdsOf(events)
    BY <2>2 DEF Marked
  <2> QED BY <2>1, <2>2
<1>3. IsFiniteSet(rows) => IsFiniteSet({Marked(o, events) : o \in rows})
  <2> SUFFICES ASSUME IsFiniteSet(rows) PROVE IsFiniteSet({Marked(o, events) : o \in rows})
    OBVIOUS
  <2> DEFINE f == [o \in rows |-> Marked(o, events)]
  <2>1. f \in Surjection(rows, {Marked(o, events) : o \in rows})
    BY DEF Surjection
  <2> QED BY <2>1, FS_Surjection
<1> QED BY <1>1, <1>2, <1>3

\* Every step keeps the keys of the outbox.
LEMMA QueueKeysKept ==
  ASSUME SyncInv, QueueKeys, [SyncNext]_syncVars
  PROVE  QueueKeys'
<1>1. outbox \in [Devices -> SUBSET RowOver(recorded)]
  BY DEF SyncInv, OnlyRecorded
<1>2. IsFiniteSet(recorded) /\ Cardinality(recorded) \in Nat
  BY FS_CardinalityType DEF SyncInv, OnlyRecorded
<1> SUFFICES ASSUME NEW k \in Devices
             PROVE  /\ IsFiniteSet(outbox'[k])
                    /\ \A o \in outbox'[k] : o.seq < Cardinality(recorded')
                    /\ \A o, q \in outbox'[k] : (o.seq = q.seq \/ o.change = q.change) => o = q
  BY DEF QueueKeys
<1>3. /\ IsFiniteSet(outbox[k])
      /\ \A o \in outbox[k] : o.seq < Cardinality(recorded)
      /\ \A o, q \in outbox[k] : (o.seq = q.seq \/ o.change = q.change) => o = q
      /\ \A o \in outbox[k] : o.seq \in Nat /\ o.change \in recorded
  BY <1>1 DEF QueueKeys, RowOver
<1>4. ASSUME outbox'[k] \subseteq outbox[k], recorded' = recorded
      PROVE  /\ IsFiniteSet(outbox'[k])
             /\ \A o \in outbox'[k] : o.seq < Cardinality(recorded')
             /\ \A o, q \in outbox'[k] : (o.seq = q.seq \/ o.change = q.change) => o = q
  <2>1. IsFiniteSet(outbox'[k])
    BY <1>3, <1>4, FS_Subset
  <2> QED BY <1>3, <1>4, <2>1
<1>5. CASE \E d \in Devices, c \in Changes : Record(d, c)
  <2>1. PICK d \in Devices, c \in Changes : Record(d, c)
    BY <1>5
  <2> DEFINE row == [seq |-> Cardinality(recorded), change |-> c, status |-> "pending"]
  <2>2. /\ outbox' = [outbox EXCEPT ![d] = outbox[d] \cup {row}]
        /\ recorded' = recorded \cup {c} /\ c \notin recorded
    BY <2>1 DEF Record
  <2>3. row.seq = Cardinality(recorded) /\ row.change = c
    OBVIOUS
  <2> HIDE DEF row
  <2>4. Cardinality(recorded') = Cardinality(recorded) + 1
    BY <1>2, <2>2, FS_AddElement
  <2>5. CASE k = d
    <3>1. outbox'[k] = outbox[k] \cup {row}
      BY <1>1, <2>2, <2>5
    <3>2. IsFiniteSet(outbox'[k])
      BY <1>3, <3>1, FS_AddElement
    <3>3. \A o \in outbox'[k] : o.seq < Cardinality(recorded')
      BY <1>2, <1>3, <2>3, <2>4, <3>1
    <3>4. \A o, q \in outbox'[k] : (o.seq = q.seq \/ o.change = q.change) => o = q
      BY <1>2, <1>3, <2>2, <2>3, <3>1
    <3> QED BY <3>2, <3>3, <3>4
  <2>6. CASE k /= d
    <3>1. outbox'[k] = outbox[k]
      BY <1>1, <2>2, <2>6
    <3> QED BY <1>2, <1>3, <2>4, <3>1
  <2> QED BY <2>5, <2>6
<1>6. CASE \E e \in Engines : Applied(e)
  <2>1. PICK e \in Engines : Applied(e)
    BY <1>6
  <2>2. outbox'[k] \subseteq outbox[k] /\ recorded' = recorded
    BY <1>1, <2>1 DEF Applied, ApplySync, historyVars
  <2> QED BY <1>4, <2>2
<1>7. CASE \E e \in Engines : Reject(e)
  <2>1. PICK e \in Engines : Reject(e)
    BY <1>7
  <2> DEFINE d == EngineDevice[e]
  <2>2. /\ outbox' = [outbox EXCEPT ![d] = Rejected(outbox[d], engine[e].batch)]
        /\ recorded' = recorded
    BY <2>1 DEF Reject, historyVars
  <2>3. CASE k = d
    <3> DEFINE rows == Rejected(outbox[k], engine[e].batch)
    <3>1. outbox'[k] = rows
      BY <1>1, <2>2, <2>3
    <3>2. /\ IsFiniteSet(rows)
          /\ \A r \in rows : \E o \in outbox[k] :
               /\ r.seq = o.seq /\ r.change = o.change
               /\ r = Marked(o, engine[e].batch)
      BY <1>1, <1>3, RejectedRows
    <3> HIDE DEF rows
    <3>3. \A r \in rows : r.seq < Cardinality(recorded)
      BY <1>3, <3>2
    <3>4. ASSUME NEW r \in rows, NEW s \in rows, r.seq = s.seq \/ r.change = s.change
          PROVE  r = s
      BY <1>3, <3>2, <3>4
    <3> QED BY <2>2, <3>1, <3>2, <3>3, <3>4
  <2>4. CASE k /= d
    BY <1>1, <1>4, <2>2, <2>4
  <2> QED BY <2>3, <2>4
<1>8. CASE \E d \in Devices : Clear(d)
  <2>1. outbox'[k] \subseteq outbox[k] /\ recorded' = recorded
    BY <1>1, <1>8 DEF Clear
  <2> QED BY <1>4, <2>1
<1>9. CASE UNCHANGED <<outbox, position, recorded>>
  BY <1>4, <1>9
<1> QED BY <1>5, <1>6, <1>7, <1>8, <1>9, OutboxSteps

\* Sending the first of a batch alone keeps the order.
LEMMA AheadIsolated ==
  ASSUME NEW S, NEW s \in EngineOver(S), NEW n \in EngineOver(S), NEW x, NEW y,
         Ahead(x, y, s), s.batch /= <<>>,
         n.batch = <<Head(s.batch)>>, n.rest = Tail(s.batch)
  PROVE  Ahead(x, y, n)
<1>1. /\ s.batch \in Seq(S) /\ Len(s.batch) \in Nat /\ Len(s.batch) >= 1
      /\ Head(s.batch) = s.batch[1]
      /\ Len(Tail(s.batch)) = Len(s.batch) - 1
      /\ \A i \in 1 .. Len(s.batch) - 1 : Tail(s.batch)[i] = s.batch[i + 1]
  BY DEF EngineOver
<1>2. Len(n.batch) = 1 /\ n.batch[1] = s.batch[1]
  BY <1>1
<1>3. \A i \in 1 .. Len(s.batch) :
        s.batch[i] = y => \E j \in 1 .. (i - 1) : s.batch[j] = x
  BY DEF Ahead
<1>4. ASSUME NEW i \in 1 .. Len(n.batch), n.batch[i] = y
      PROVE  \E j \in 1 .. (i - 1) : n.batch[j] = x
  <2>1. i = 1 /\ s.batch[1] = y
    BY <1>2, <1>4
  <2>2. 1 \in 1 .. Len(s.batch)
    BY <1>1
  <2>3. \E j \in 1 .. (1 - 1) : s.batch[j] = x
    BY <1>3, <2>1, <2>2
  <2> QED BY <2>3
<1>5. ASSUME NEW i \in 1 .. Len(n.rest), n.rest[i] = y
      PROVE  \/ \E j \in 1 .. Len(n.batch) : n.batch[j] = x
             \/ \E j \in 1 .. (i - 1) : n.rest[j] = x
  <2>1. i \in 1 .. Len(s.batch) - 1 /\ i + 1 \in 1 .. Len(s.batch)
    BY <1>1
  <2>2. s.batch[i + 1] = y
    BY <1>1, <1>5, <2>1
  <2>3. PICK j \in 1 .. ((i + 1) - 1) : s.batch[j] = x
    BY <1>3, <2>1, <2>2
  <2>4. CASE j = 1
    <3>1. 1 \in 1 .. Len(n.batch) /\ n.batch[1] = x
      BY <1>2, <2>3, <2>4
    <3> QED BY <3>1
  <2>5. CASE j /= 1
    <3>1. j - 1 \in 1 .. (i - 1) /\ j - 1 \in 1 .. Len(s.batch) - 1 /\ (j - 1) + 1 = j
      BY <1>1, <2>1, <2>3, <2>5
    <3>2. n.rest[j - 1] = x
      BY <1>1, <2>3, <3>1
    <3> QED BY <3>1, <3>2
  <2> QED BY <2>4, <2>5
<1> QED BY <1>4, <1>5 DEF Ahead

\* So does going on to the next one, for what the last one was not.
LEMMA AheadNext ==
  ASSUME NEW S, NEW s \in EngineOver(S), NEW n \in EngineOver(S), NEW x, NEW y,
         Ahead(x, y, s), Len(s.batch) = 1, s.batch[1] /= x, s.rest /= <<>>,
         n.batch = <<Head(s.rest)>>, n.rest = Tail(s.rest)
  PROVE  Ahead(x, y, n)
<1>1. /\ s.rest \in Seq(S) /\ Len(s.rest) \in Nat /\ Len(s.rest) >= 1
      /\ Head(s.rest) = s.rest[1]
      /\ Len(Tail(s.rest)) = Len(s.rest) - 1
      /\ \A i \in 1 .. Len(s.rest) - 1 : Tail(s.rest)[i] = s.rest[i + 1]
  BY DEF EngineOver
<1>2. Len(n.batch) = 1 /\ n.batch[1] = s.rest[1]
  BY <1>1
<1>3. \A i \in 1 .. Len(s.rest) :
        s.rest[i] = y => \E j \in 1 .. (i - 1) : s.rest[j] = x
  BY DEF Ahead
<1>4. ASSUME NEW i \in 1 .. Len(n.batch), n.batch[i] = y
      PROVE  \E j \in 1 .. (i - 1) : n.batch[j] = x
  <2>1. i = 1 /\ s.rest[1] = y
    BY <1>2, <1>4
  <2>2. 1 \in 1 .. Len(s.rest)
    BY <1>1
  <2>3. \E j \in 1 .. (1 - 1) : s.rest[j] = x
    BY <1>3, <2>1, <2>2
  <2> QED BY <2>3
<1>5. ASSUME NEW i \in 1 .. Len(n.rest), n.rest[i] = y
      PROVE  \/ \E j \in 1 .. Len(n.batch) : n.batch[j] = x
             \/ \E j \in 1 .. (i - 1) : n.rest[j] = x
  <2>1. i \in 1 .. Len(s.rest) - 1 /\ i + 1 \in 1 .. Len(s.rest)
    BY <1>1
  <2>2. s.rest[i + 1] = y
    BY <1>1, <1>5, <2>1
  <2>3. PICK j \in 1 .. ((i + 1) - 1) : s.rest[j] = x
    BY <1>3, <2>1, <2>2
  <2>4. CASE j = 1
    <3>1. 1 \in 1 .. Len(n.batch) /\ n.batch[1] = x
      BY <1>2, <2>3, <2>4
    <3> QED BY <3>1
  <2>5. CASE j /= 1
    <3>1. j - 1 \in 1 .. (i - 1) /\ j - 1 \in 1 .. Len(s.rest) - 1 /\ (j - 1) + 1 = j
      BY <1>1, <2>1, <2>3, <2>5
    <3>2. n.rest[j - 1] = x
      BY <1>1, <2>3, <3>1
    <3> QED BY <3>1, <3>2
  <2> QED BY <2>4, <2>5
<1> QED BY <1>4, <1>5 DEF Ahead

\* The place of a pending row in the queue.
Rank(d, o) == Cardinality({p \in Pending(d) : p.seq <= o.seq})

\* Places are numbered from one, in the order the events were recorded.
LEMMA RankOrder ==
  ASSUME SyncInv, QueueKeys, NEW d \in Devices
  PROVE  /\ IsFiniteSet(Pending(d)) /\ Cardinality(Pending(d)) \in Nat
         /\ \A r \in outbox[d] : r.seq \in Nat
         /\ \A o \in Pending(d) : Rank(d, o) \in 1 .. Cardinality(Pending(d))
         /\ \A o, q \in Pending(d) : o.seq < q.seq => Rank(d, o) < Rank(d, q)
         /\ \A o, q \in Pending(d) : Rank(d, o) = Rank(d, q) => o = q
<1> DEFINE pending == Pending(d)
           Upto(r) == {p \in pending : p.seq <= r.seq}
           rank(r) == Cardinality(Upto(r))
<1>1. /\ IsFiniteSet(pending) /\ pending \subseteq outbox[d]
      /\ \A r \in outbox[d] : r.seq \in Nat
      /\ \A r, s \in outbox[d] : (r.seq = s.seq \/ r.change = s.change) => r = s
  <2>1. pending \subseteq outbox[d]
    BY DEF Pending
  <2>2. IsFiniteSet(outbox[d])
    BY DEF QueueKeys
  <2>3. IsFiniteSet(pending)
    BY <2>1, <2>2, FS_Subset
  <2>4. outbox[d] \subseteq RowOver(recorded)
    BY DEF SyncInv, OnlyRecorded
  <2> QED BY <2>1, <2>3, <2>4 DEF RowOver, QueueKeys
<1>2. Cardinality(pending) \in Nat
  BY <1>1, FS_CardinalityType
<1>3. \A r : IsFiniteSet(Upto(r)) /\ rank(r) \in Nat /\ rank(r) <= Cardinality(pending)
  <2> SUFFICES ASSUME NEW r
               PROVE  IsFiniteSet(Upto(r)) /\ rank(r) \in Nat /\ rank(r) <= Cardinality(pending)
    OBVIOUS
  <2>1. Upto(r) \subseteq pending
    OBVIOUS
  <2>2. IsFiniteSet(Upto(r)) /\ Cardinality(Upto(r)) <= Cardinality(pending)
    BY <1>1, <2>1, FS_Subset
  <2> QED BY <2>2, FS_CardinalityType
<1>4. ASSUME NEW r \in pending, NEW s \in pending, r.seq < s.seq
      PROVE  rank(r) < rank(s)
  <2>1. Upto(r) \subseteq Upto(s) /\ s \in Upto(s) /\ s \notin Upto(r)
    BY <1>1, <1>4
  <2>2. Upto(r) \cup {s} \subseteq Upto(s)
    BY <2>1
  <2>3. Cardinality(Upto(r) \cup {s}) = rank(r) + 1 /\ IsFiniteSet(Upto(r) \cup {s})
    <3>1. IsFiniteSet(Upto(r)) /\ IsFiniteSet(Upto(s))
      BY <1>3
    <3> HIDE DEF Upto
    <3> QED BY <2>1, <3>1, FS_AddElement
  <2>4. Cardinality(Upto(r) \cup {s}) <= rank(s)
    <3> HIDE DEF Upto
    <3> QED BY <1>3, <2>2, FS_Subset
  <2>5. rank(r) \in Nat /\ rank(s) \in Nat
    BY <1>3
  <2> HIDE DEF rank, Upto
  <2>6. rank(r) + 1 <= rank(s)
    BY <2>3, <2>4
  <2> QED BY <2>5, <2>6
<1>5. ASSUME NEW o \in pending
      PROVE  rank(o) >= 1
  <2>1. o \in Upto(o)
    BY <1>1
  <2>2. {o} \subseteq Upto(o)
    BY <2>1
  <2>3. Cardinality({o}) <= rank(o)
    <3> HIDE DEF Upto
    <3> QED BY <1>3, <2>2, FS_Subset
  <2> QED BY <1>3, <2>3, FS_Singleton
<1>6. \A o : Rank(d, o) = rank(o)
  BY DEF Rank
<1> HIDE DEF rank, Upto
<1>7. ASSUME NEW o \in pending, NEW q \in pending, rank(o) = rank(q)
      PROVE  o = q
  <2>1. ~(q.seq < o.seq) /\ ~(o.seq < q.seq)
    BY <1>3, <1>4, <1>7
  <2>2. q.seq = o.seq
    BY <1>1, <2>1
  <2> QED BY <1>1, <2>2
<1>8. \A o \in pending : rank(o) \in 1 .. Cardinality(pending)
  <2> HIDE DEF pending
  <2> QED BY <1>2, <1>3, <1>5
<1> QED BY <1>1, <1>2, <1>4, <1>6, <1>7, <1>8

\* A batch that was read holds the oldest pending rows in their order.
LEMMA AheadRead ==
  ASSUME SyncInv, QueueKeys, NEW d \in Devices, NEW batch \in Seq(recorded),
         OldestPending(d, batch), NEW o \in Pending(d), NEW q \in outbox[d], o.seq < q.seq,
         NEW n, n.batch = batch, n.rest = <<>>
  PROVE  Ahead(o.change, q.change, n)
<1>1. /\ Pending(d) \subseteq outbox[d]
      /\ \A r, s \in outbox[d] : (r.seq = s.seq \/ r.change = s.change) => r = s
  BY DEF Pending, QueueKeys
<1>2. \A i \in 1 .. Len(batch) : \E p \in Pending(d) : p.change = batch[i] /\ Rank(d, p) = i
  BY DEF OldestPending, Rank
<1>3. /\ \A p \in Pending(d) : Rank(d, p) \in Nat /\ Rank(d, p) >= 1
      /\ \A p, r \in Pending(d) : p.seq < r.seq => Rank(d, p) < Rank(d, r)
      /\ \A p, r \in Pending(d) : Rank(d, p) = Rank(d, r) => p = r
  BY RankOrder
<1>4. ASSUME NEW i \in 1 .. Len(batch), batch[i] = q.change
      PROVE  \E j \in 1 .. (i - 1) : batch[j] = o.change
  <2>1. PICK p \in Pending(d) : p.change = batch[i] /\ Rank(d, p) = i
    BY <1>2
  <2>2. p = q
    BY <1>1, <1>4, <2>1
  <2>3. Rank(d, o) < i /\ Rank(d, o) \in Nat /\ Rank(d, o) >= 1
    BY <1>3, <2>1, <2>2
  <2>4. Rank(d, o) \in 1 .. (i - 1) /\ Rank(d, o) \in 1 .. Len(batch)
    BY <2>3
  <2>5. PICK p2 \in Pending(d) : p2.change = batch[Rank(d, o)] /\ Rank(d, p2) = Rank(d, o)
    BY <1>2, <2>4
  <2>6. p2 = o
    BY <1>3, <2>5
  <2> QED BY <2>4, <2>5, <2>6
<1> QED BY <1>4 DEF Ahead

\* An engine that stays where it was, or sends nothing more, over rows that
\* were there before and are not pending anew.
LEMMA OrderlyFrame ==
  ASSUME NEW k \in Engines, Orderly(k),
         \/ engine'[k].pc \notin {"send", "wait"}
         \/ /\ engine[k].pc \in {"send", "wait"}
            /\ engine'[k].batch = engine[k].batch
            /\ engine'[k].rest = engine[k].rest
            /\ engine'[k].single = engine[k].single,
         \A r \in outbox'[EngineDevice[k]] : \E o \in outbox[EngineDevice[k]] :
            /\ r.seq = o.seq /\ r.change = o.change
            /\ r.status = "pending" => o.status = "pending"
  PROVE  Orderly(k)'
<1> SUFFICES ASSUME engine'[k].pc \in {"send", "wait"}
             PROVE  /\ engine'[k].single => Len(engine'[k].batch) = 1
                    /\ ~engine'[k].single => engine'[k].rest = <<>>
                    /\ \A o \in Pending(EngineDevice[k])', q \in outbox'[EngineDevice[k]] :
                         o.seq < q.seq => Ahead(o.change, q.change, engine'[k])
  BY DEF Orderly
<1>1. /\ engine'[k].batch = engine[k].batch /\ engine'[k].rest = engine[k].rest
      /\ engine'[k].single = engine[k].single /\ engine[k].pc \in {"send", "wait"}
  OBVIOUS
<1>2. /\ engine[k].single => Len(engine[k].batch) = 1
      /\ ~engine[k].single => engine[k].rest = <<>>
      /\ \A o \in Pending(EngineDevice[k]), q \in outbox[EngineDevice[k]] :
           o.seq < q.seq => Ahead(o.change, q.change, engine[k])
  BY <1>1 DEF Orderly
<1>3. ASSUME NEW r \in outbox'[EngineDevice[k]], r.status = "pending",
             NEW s \in outbox'[EngineDevice[k]], r.seq < s.seq
      PROVE  Ahead(r.change, s.change, engine'[k])
  <2>1. PICK o \in Pending(EngineDevice[k]) : r.seq = o.seq /\ r.change = o.change
    BY <1>3 DEF Pending
  <2>2. PICK q \in outbox[EngineDevice[k]] : s.seq = q.seq /\ s.change = q.change
    OBVIOUS
  <2>3. Ahead(o.change, q.change, engine[k])
    BY <1>2, <1>3, <2>1, <2>2
  <2>4. Ahead(r.change, s.change, engine[k])
    BY <2>1, <2>2, <2>3
  <2> QED BY <1>1, <2>4 DEF Ahead
<1>4. Pending(EngineDevice[k])' = {o \in outbox'[EngineDevice[k]] : o.status = "pending"}
  BY DEF Pending
<1> QED BY <1>1, <1>2, <1>3, <1>4

\* Rows are only recorded: every other step leaves of an outbox old rows, and
\* makes none pending.
LEMMA RowsShrink ==
  ASSUME SyncInv, [SyncNext]_syncVars, ~\E d \in Devices, c \in Changes : Record(d, c),
         NEW k \in Devices
  PROVE  \A r \in outbox'[k] : \E o \in outbox[k] :
            /\ r.seq = o.seq /\ r.change = o.change
            /\ r.status = "pending" => o.status = "pending"
<1>1. outbox \in [Devices -> SUBSET RowOver(recorded)]
  BY DEF SyncInv, OnlyRecorded
<1>2. CASE \E e \in Engines : Applied(e)
  BY <1>1, <1>2 DEF Applied, ApplySync
<1>3. CASE \E e \in Engines : Reject(e)
  <2>1. PICK e \in Engines : Reject(e)
    BY <1>3
  <2>2. outbox' = [outbox EXCEPT ![EngineDevice[e]] =
                     Rejected(outbox[EngineDevice[e]], engine[e].batch)]
    BY <2>1 DEF Reject
  <2>3. CASE k = EngineDevice[e]
    <3>1. outbox'[k] = Rejected(outbox[k], engine[e].batch)
      BY <1>1, <2>2, <2>3
    <3>2. \A o \in outbox[k] : o \in RowOver(recorded)
      BY <1>1
    <3>3. \A r \in Rejected(outbox[k], engine[e].batch) : \E o \in outbox[k] :
            /\ r.seq = o.seq /\ r.change = o.change
            /\ r = Marked(o, engine[e].batch)
            /\ r.status = "pending" => r = o /\ o.change.id \notin IdsOf(engine[e].batch)
      BY <3>2, RejectedRows
    <3> QED BY <3>1, <3>3
  <2>4. CASE k /= EngineDevice[e]
    BY <1>1, <2>2, <2>4
  <2> QED BY <2>3, <2>4
<1>4. CASE \E d \in Devices : Clear(d)
  BY <1>1, <1>4 DEF Clear
<1>5. CASE UNCHANGED <<outbox, position, recorded>>
  BY <1>5
<1> QED BY <1>2, <1>3, <1>4, <1>5, OutboxSteps

\* What an answer of success, or a refusal of this batch, leaves pending was
\* not in the batch.
LEMMA LeftUnsent ==
  ASSUME SyncInv, RoundTrip, NEW e \in Engines, Applied(e) \/ Reject(e),
         NEW r \in Pending(EngineDevice[e])'
  PROVE  r \in Pending(EngineDevice[e]) /\ r.change.id \notin IdsOf(engine[e].batch)
<1> DEFINE d == EngineDevice[e]
<1>1. d \in Devices /\ outbox \in [Devices -> SUBSET RowOver(recorded)]
  BY SyncAssumption DEF SyncAssumption, SyncInv, OnlyRecorded
<1>2. r \in outbox'[d] /\ r.status = "pending"
  BY DEF Pending
<1>3. CASE Applied(e)
  <2>1. reply[e].status = "ok"
    BY <1>3 DEF Applied
  <2>2. AckedIds(reply[e].acks) = IdsOf(engine[e].batch)
    BY <2>1 DEF RoundTrip, RepliesOfBatches
  <2>3. outbox' = [outbox EXCEPT ![d] =
          {o \in outbox[d] : o.change.id \notin {a.id : a \in reply[e].acks}}]
    BY <1>3 DEF Applied, ApplySync
  <2>4. r \in outbox[d] /\ r.change.id \notin {a.id : a \in reply[e].acks}
    BY <1>1, <1>2, <2>3
  <2> QED BY <1>2, <2>2, <2>4 DEF Pending, AckedIds
<1>4. CASE Reject(e)
  <2>1. outbox' = [outbox EXCEPT ![d] = Rejected(outbox[d], engine[e].batch)]
    BY <1>4 DEF Reject
  <2>2. r \in Rejected(outbox[d], engine[e].batch)
    BY <1>1, <1>2, <2>1
  <2>3. \A o \in outbox[d] : o \in RowOver(recorded)
    BY <1>1
  <2>4. \A q \in Rejected(outbox[d], engine[e].batch) : \E o \in outbox[d] :
          /\ q.seq = o.seq /\ q.change = o.change
          /\ q = Marked(o, engine[e].batch)
          /\ q.status = "pending" => q = o /\ o.change.id \notin IdsOf(engine[e].batch)
    BY <2>3, RejectedRows
  <2>5. PICK o \in outbox[d] : r = o /\ o.change.id \notin IdsOf(engine[e].batch)
    BY <1>2, <2>2, <2>4
  <2> QED BY <1>2, <2>5 DEF Pending
<1> QED BY <1>3, <1>4

\* The engine whose answer it was goes on in order.
LEMMA NextInOrder ==
  ASSUME SyncInv, RoundTrip, OldestFirst, [SyncNext]_syncVars,
         NEW e \in Engines, Applied(e) \/ Reject(e)
  PROVE  Orderly(e)'
<1> DEFINE s == engine[e]
           n == Isolate(e, s.rest)
           d == EngineDevice[e]
<1>1. engine \in [Engines -> EngineOver(recorded)] /\ s \in EngineOver(recorded)
      /\ s.pc = "wait" /\ d \in Devices
  BY SyncAssumption DEF SyncAssumption, SyncInv, OnlyRecorded, Applied, Reject, Refused
<1>2. /\ s.single => Len(s.batch) = 1
      /\ \A o \in Pending(d), q \in outbox[d] : o.seq < q.seq => Ahead(o.change, q.change, s)
  BY <1>1 DEF OldestFirst, Orderly
<1>3. CASE s.single /\ s.rest /= <<>>
  <2>1. engine'[e] = n
    BY <1>1, <1>3 DEF Applied, Reject, Goto, NextSingle
  <2>2. n \in EngineOver(recorded)
    <3>1. s.rest \in Seq(recorded)
      BY <1>1 DEF EngineOver
    <3> QED BY <1>1, <1>3, <3>1, EngineStates
  <2>3. /\ n.batch = <<Head(s.rest)>> /\ n.rest = Tail(s.rest)
        /\ n.single /\ Len(n.batch) = 1
    BY DEF Isolate
  <2>4. ~\E k \in Devices, c \in Changes : Record(k, c)
    <3>2. reply' /= reply
      <4>1. reply[e] /= NoReply /\ reply' = [reply EXCEPT ![e] = NoReply] /\ e \in Clients
        BY SyncAssumption DEF SyncAssumption, Applied, Reject, Refused, TakeReply
      <4>2. reply \in [Clients -> Reply]
        BY DEF SyncInv, IInv, TypeOK
      <4> QED BY <4>1, <4>2
    <3>3. ASSUME NEW k \in Devices, NEW c \in Changes, Record(k, c)
          PROVE  FALSE
      BY <3>2, <3>3 DEF Record, storeVars
    <3> QED BY <3>3
  <2>5. ASSUME NEW o \in Pending(d)', NEW r \in outbox'[d], o.seq < r.seq
        PROVE  Ahead(o.change, r.change, n)
    <3>1. o \in Pending(d) /\ o.change.id \notin IdsOf(s.batch)
      BY LeftUnsent
    <3>2. PICK q \in outbox[d] : r.seq = q.seq /\ r.change = q.change
      BY <1>1, <2>4, RowsShrink
    <3>3. Ahead(o.change, r.change, s)
      BY <1>2, <2>5, <3>1, <3>2
    <3>4. s.batch[1] /= o.change
      <4>1. 1 \in 1 .. Len(s.batch)
        BY <1>2, <1>3
      <4> QED BY <3>1, <4>1 DEF IdsOf
    <3> HIDE DEF s, n
    <3> QED BY <1>1, <1>2, <1>3, <2>2, <2>3, <3>3, <3>4, AheadNext
  <2> HIDE DEF n
  <2> QED BY <2>1, <2>3, <2>5 DEF Orderly
<1>4. CASE ~(s.single /\ s.rest /= <<>>)
  <2>1. \/ engine'[e] = IdleEngine \/ engine'[e] = Loop(e, "page")
        \/ engine'[e] = Loop(e, "check")
    BY <1>1, <1>4 DEF Applied, Reject, Goto, NextSingle, AfterPage
  <2>2. engine'[e].pc \notin {"send", "wait"}
    BY <2>1 DEF IdleEngine, Loop
  <2> QED BY <2>2 DEF Orderly
<1> QED BY <1>3, <1>4

\* A new event is behind everything: it is in nobody's batch yet.
LEMMA RecordKeepsOrder ==
  ASSUME SyncInv, QueueKeys, OldestFirst, NEW d \in Devices, NEW c \in Changes, Record(d, c),
         NEW k \in Engines
  PROVE  Orderly(k)'
<1> DEFINE D == EngineDevice[k]
           row == [seq |-> Cardinality(recorded), change |-> c, status |-> "pending"]
<1>1. /\ D \in Devices /\ outbox \in [Devices -> SUBSET RowOver(recorded)]
      /\ engine[k] \in EngineOver(recorded) /\ engine' = engine
  BY SyncAssumption DEF SyncAssumption, SyncInv, OnlyRecorded, Record
<1>2. /\ outbox' = [outbox EXCEPT ![d] = outbox[d] \cup {row}]
      /\ c \notin recorded
  BY DEF Record
<1>3. row.seq = Cardinality(recorded) /\ row.change = c
  OBVIOUS
<1> HIDE DEF row
<1>4. /\ outbox'[D] \subseteq outbox[D] \cup {row}
      /\ \A o \in outbox[D] : o.seq < Cardinality(recorded) /\ o.seq \in Nat
  BY <1>1, <1>2 DEF QueueKeys, RowOver
<1>5. Cardinality(recorded) \in Nat
  BY FS_CardinalityType DEF SyncInv, OnlyRecorded
<1>6. ASSUME engine[k].pc \in {"send", "wait"}
      PROVE  /\ engine[k].single => Len(engine[k].batch) = 1
             /\ ~engine[k].single => engine[k].rest = <<>>
             /\ \A o \in Pending(D), q \in outbox[D] :
                  o.seq < q.seq => Ahead(o.change, q.change, engine[k])
  BY <1>6 DEF OldestFirst, Orderly
<1>7. ASSUME engine[k].pc \in {"send", "wait"},
             NEW o \in outbox'[D], o.status = "pending", NEW q \in outbox'[D], o.seq < q.seq
      PROVE  Ahead(o.change, q.change, engine[k])
  <2>1. CASE q = row
    <3>1. /\ \A i \in 1 .. Len(engine[k].batch) : engine[k].batch[i] \in recorded
          /\ \A i \in 1 .. Len(engine[k].rest) : engine[k].rest[i] \in recorded
      BY <1>1 DEF EngineOver
    <3> QED BY <1>2, <1>3, <2>1, <3>1 DEF Ahead
  <2>2. CASE q /= row
    <3>1. q \in outbox[D]
      BY <1>4, <2>2
    <3>2. o /= row
      BY <1>3, <1>4, <1>5, <1>7, <3>1
    <3>3. o \in Pending(D)
      BY <1>4, <1>7, <3>2 DEF Pending
    <3> QED BY <1>6, <1>7, <3>1, <3>3
  <2> QED BY <2>1, <2>2
<1>8. Pending(D)' = {o \in outbox'[D] : o.status = "pending"}
  BY DEF Pending
<1> QED BY <1>1, <1>6, <1>7, <1>8 DEF Orderly

\* The steps in which an engine goes on to a batch of its own making.
LEMMA OldestFirstKept ==
  ASSUME SyncInv, RoundTrip, QueueKeys, OldestFirst, [SyncNext]_syncVars
  PROVE  OldestFirst'
<1> SUFFICES ASSUME NEW k \in Engines PROVE Orderly(k)'
  BY DEF OldestFirst
<1>1. /\ Orderly(k) /\ EngineDevice[k] \in Devices
      /\ engine \in [Engines -> EngineOver(recorded)]
  BY SyncAssumption DEF SyncAssumption, OldestFirst, SyncInv, OnlyRecorded
<1>2. CASE \E d \in Devices, c \in Changes : Record(d, c)
  BY <1>2, RecordKeepsOrder
<1>3. CASE Applied(k) \/ Reject(k)
  BY <1>3, NextInOrder
<1>4. CASE \E batch \in Batches : ReadOutbox(k, batch)
  <2>1. PICK batch \in Batches : ReadOutbox(k, batch)
    BY <1>4
  <2> DEFINE n == [pc |-> "send", pages |-> engine[k].pages + 1, batch |-> batch,
                   rest |-> <<>>, single |-> FALSE]
  <2>2. engine' = [engine EXCEPT ![k] = n] /\ outbox' = outbox
        /\ OldestPending(EngineDevice[k], batch)
    BY <2>1 DEF ReadOutbox, Goto, deviceVars
  <2>3. n.batch = batch /\ n.rest = <<>> /\ ~n.single
    OBVIOUS
  <2>4. engine'[k] = n
    BY <1>1, <2>2
  <2> HIDE DEF n
  <2>5. batch \in Seq(recorded)
    BY <1>1, <2>1, <2>2, BatchRecorded
  <2>6. ASSUME NEW o \in Pending(EngineDevice[k]), NEW q \in outbox[EngineDevice[k]],
               o.seq < q.seq
        PROVE  Ahead(o.change, q.change, n)
    BY <1>1, <2>2, <2>3, <2>5, <2>6, AheadRead
  <2>7. Pending(EngineDevice[k])' = Pending(EngineDevice[k])
    BY <2>2 DEF Pending
  <2> QED BY <2>2, <2>3, <2>4, <2>6, <2>7 DEF Orderly
<1>5. CASE StartIsolating(k)
  <2> DEFINE s == engine[k]
             n == Isolate(k, s.batch)
  <2>1. engine' = [engine EXCEPT ![k] = n] /\ outbox' = outbox
        /\ s.pc = "wait" /\ s.batch /= <<>>
    BY <1>1, <1>5 DEF StartIsolating, Refused, Goto, deviceVars, EngineOver
  <2>2. n \in EngineOver(recorded)
    <3>1. s.batch \in Seq(recorded)
      BY <1>1 DEF EngineOver
    <3> QED BY <1>1, <2>1, <3>1, EngineStates
  <2>3. /\ n.batch = <<Head(s.batch)>> /\ n.rest = Tail(s.batch)
        /\ n.single /\ Len(n.batch) = 1
    BY DEF Isolate
  <2>4. engine'[k] = n
    BY <1>1, <2>1
  <2>5. ASSUME NEW o \in Pending(EngineDevice[k]), NEW q \in outbox[EngineDevice[k]],
               o.seq < q.seq
        PROVE  Ahead(o.change, q.change, n)
    <3>1. Ahead(o.change, q.change, s)
      BY <1>1, <2>1, <2>5 DEF Orderly
    <3>2. s \in EngineOver(recorded)
      BY <1>1
    <3> HIDE DEF n, s
    <3> QED BY <2>1, <2>2, <2>3, <3>1, <3>2, AheadIsolated
  <2>6. Pending(EngineDevice[k])' = Pending(EngineDevice[k])
    BY <2>1 DEF Pending
  <2> HIDE DEF n
  <2> QED BY <2>1, <2>3, <2>4, <2>5, <2>6 DEF Orderly
<1>6. CASE /\ ~\E d \in Devices, c \in Changes : Record(d, c)
           /\ ~(Applied(k) \/ Reject(k) \/ StartIsolating(k))
           /\ ~\E batch \in Batches : ReadOutbox(k, batch)
  <2>1. \/ engine'[k].pc \notin {"send", "wait"}
        \/ /\ engine[k].pc \in {"send", "wait"}
           /\ engine'[k].batch = engine[k].batch
           /\ engine'[k].rest = engine[k].rest
           /\ engine'[k].single = engine[k].single
    <3>1. CASE Send(k)
      <4>1. engine'[k] = [engine[k] EXCEPT !.pc = "wait"] /\ engine[k].pc = "send"
        BY <1>1, <3>1 DEF Send, Goto
      <4> QED BY <1>1, <4>1 DEF EngineOver
    <3>2. CASE \/ StartRun(k) \/ OutOfPages(k) \/ SendSignedOut(k) \/ Check(k)
               \/ ServerFailed(k) \/ \E late \in BOOLEAN : Fail(k, late)
      <4>1. engine'[k] = IdleEngine \/ \E pc \in {"page", "check"} : engine'[k] = Loop(k, pc)
        BY <1>1, <3>2 DEF StartRun, OutOfPages, SendSignedOut, Check, ServerFailed, Fail, Goto
      <4> QED BY <4>1 DEF IdleEngine, Loop
    <3>3. CASE engine'[k] = engine[k]
      BY <3>3
    <3>4. CASE \E e \in Engines \ {k} : \/ StartRun(e) \/ EngineStep(e)
                                       \/ \E late \in BOOLEAN : Fail(e, late)
      <4>1. PICK e \in Engines \ {k} : \E next : engine' = [engine EXCEPT ![e] = next]
        BY <3>4 DEF EngineStep, StartRun, ReadOutbox, OutOfPages, Send, SendSignedOut, Applied,
                    Check, StartIsolating, Reject, ServerFailed, Fail, Goto
      <4>2. engine'[k] = engine[k]
        BY <1>1, <4>1
      <4> QED BY <4>2
    <3>5. \/ Send(k) \/ StartRun(k) \/ OutOfPages(k) \/ SendSignedOut(k) \/ Check(k)
          \/ ServerFailed(k) \/ (\E late \in BOOLEAN : Fail(k, late))
          \/ \E e \in Engines \ {k} : \/ StartRun(e) \/ EngineStep(e)
                                     \/ \E late \in BOOLEAN : Fail(e, late)
          \/ engine' = engine
      <4>1. CASE \E e \in Engines : StartRun(e) \/ EngineStep(e)
        <5>1. PICK e \in Engines : StartRun(e) \/ EngineStep(e)
          BY <4>1
        <5> QED BY <1>6, <5>1 DEF EngineStep
      <4>2. CASE \E e \in Engines, late \in BOOLEAN : Fail(e, late)
        BY <4>2
      <4>3. CASE ~\/ \E e \in Engines : StartRun(e) \/ EngineStep(e)
                  \/ \E e \in Engines, late \in BOOLEAN : Fail(e, late)
        BY <1>6, <4>3 DEF SyncNext, Receive, ServerStep, ServerAbort, DropReply, Administer,
                  UpdateServer, UpdateApp, SignOut, Clear, Expire, SignIn, syncVars
      <4> QED BY <4>1, <4>2, <4>3
    <3> QED BY <3>1, <3>2, <3>3, <3>4, <3>5
  <2>2. \A r \in outbox'[EngineDevice[k]] : \E o \in outbox[EngineDevice[k]] :
            /\ r.seq = o.seq /\ r.change = o.change
            /\ r.status = "pending" => o.status = "pending"
    BY <1>1, <1>6, RowsShrink
  <2> QED BY <1>1, <2>1, <2>2, OrderlyFrame
<1> QED BY <1>2, <1>3, <1>4, <1>5, <1>6

-----------------------------------------------------------------------------
(* Fresh activity. *)

\* No other row of the book came later.
Newest(o, rows) == \A q \in rows : q.change.book = o.change.book => q.seq <= o.seq

Fresh(d) == \A o \in Pending(d) : Newest(o, outbox[d]) => o.change \in position[d]

\* A place just recorded is shown, and nothing of another book is hidden by it.
LEMMA RecordShows ==
  ASSUME SyncInv, QueueKeys, NEW d \in Devices, NEW c \in Changes, Record(d, c),
         NEW k \in Devices, Fresh(k)
  PROVE  Fresh(k)'
<1> DEFINE row == [seq |-> Cardinality(recorded), change |-> c, status |-> "pending"]
<1>1. /\ outbox' = [outbox EXCEPT ![d] = outbox[d] \cup {row}]
      /\ position' = [position EXCEPT ![d] = PutPositions(d, {c})]
      /\ outbox \in [Devices -> SUBSET RowOver(recorded)]
      /\ position \in [Devices -> SUBSET Changes]
  BY DEF Record, SyncInv, OnlyRecorded
<1>2. row.seq = Cardinality(recorded) /\ row.change = c
  OBVIOUS
<1> HIDE DEF row
<1>3. Cardinality(recorded) \in Nat
  BY FS_CardinalityType DEF SyncInv, OnlyRecorded
<1>4. CASE k = d
  <2>1. outbox'[k] = outbox[k] \cup {row} /\ position'[k] = PutPositions(d, {c})
    BY <1>1, <1>4
  <2>2. \A o \in outbox[k] : o.seq < Cardinality(recorded) /\ o.seq \in Nat
    BY <1>1 DEF QueueKeys, RowOver
  <2>3. ASSUME NEW o \in outbox'[k], o.status = "pending", Newest(o, outbox'[k])
        PROVE  o.change \in PutPositions(d, {c})
    <3>1. CASE o = row
      BY <1>2, <3>1 DEF PutPositions
    <3>2. CASE o /= row
      <4>1. o \in Pending(k) /\ o.seq \in Nat /\ o.seq < Cardinality(recorded)
        BY <2>1, <2>2, <2>3, <3>2 DEF Pending
      <4>2. o.change.book /= c.book
        <5>1. row \in outbox'[k]
          BY <2>1
        <5>2. c.book = o.change.book => Cardinality(recorded) <= o.seq
          BY <1>2, <2>3, <5>1 DEF Newest
        <5> QED BY <1>3, <4>1, <5>2
      <4>3. Newest(o, outbox[k])
        BY <2>1, <2>3 DEF Newest
      <4>4. o.change \in position[k]
        BY <4>1, <4>3 DEF Fresh
      <4> QED BY <1>4, <4>2, <4>4 DEF PutPositions
    <3> QED BY <3>1, <3>2
  <2>4. Pending(k)' = {o \in outbox'[k] : o.status = "pending"}
    BY DEF Pending
  <2> QED BY <2>1, <2>3, <2>4 DEF Fresh
<1>5. CASE k /= d
  <2>1. outbox'[k] = outbox[k] /\ position'[k] = position[k]
    BY <1>1, <1>5
  <2>2. Pending(k)' = Pending(k)
    BY <2>1 DEF Pending
  <2> QED BY <2>1, <2>2 DEF Fresh
<1> QED BY <1>4, <1>5

\* What is acknowledged with a newer event is acknowledged with an older one
\* of the same outbox, so the newest that is left was the newest before; and
\* no position is taken for its book.
LEMMA AppliedShows ==
  ASSUME SyncInv, RoundTrip, OldestFirst, NEW e \in Engines, Applied(e),
         NEW k \in Devices, Fresh(k)
  PROVE  Fresh(k)'
<1> DEFINE d == EngineDevice[e]
           acked == {a.id : a \in reply[e].acks}
           left == {o \in outbox[d] : o.change.id \notin acked}
           unsent == {o \in left : o.status = "pending"}
           adopted == {c \in {p.change : p \in reply[e].progress} : ShouldAdopt(d, c, unsent)}
<1>1. /\ outbox' = [outbox EXCEPT ![d] = left]
      /\ position' = [position EXCEPT ![d] = PutPositions(d, adopted)]
  BY DEF Applied, ApplySync
<1>2. /\ d \in Devices /\ outbox \in [Devices -> SUBSET RowOver(recorded)]
      /\ position \in [Devices -> SUBSET Changes] /\ engine[e] \in EngineOver(recorded)
      /\ \A r, s \in recorded : r.id = s.id => r = s
  BY SyncAssumption DEF SyncAssumption, SyncInv, OnlyRecorded
<1>3. /\ engine[e].pc = "wait" /\ acked = IdsOf(engine[e].batch)
  BY DEF Applied, RoundTrip, RepliesOfBatches, AckedIds
<1>4. \A o \in Pending(d), q \in outbox[d] : o.seq < q.seq => Ahead(o.change, q.change, engine[e])
  BY <1>3 DEF OldestFirst, Orderly
<1>5. CASE k = d
  <2>1. outbox'[k] = left /\ position'[k] = PutPositions(d, adopted)
    BY <1>1, <1>2, <1>5
  <2>2. Pending(k)' = unsent
    BY <2>1 DEF Pending
  <2>3. ASSUME NEW o \in unsent, Newest(o, left)
        PROVE  o.change \in PutPositions(d, adopted)
    <3>1. o \in Pending(d) /\ o \in outbox[d] /\ o.change.id \notin acked
      BY DEF Pending
    <3>2. ASSUME NEW q \in outbox[d], q.change.book = o.change.book, ~(q.seq <= o.seq)
          PROVE  FALSE
      <4>1. q \notin left
        BY <2>3, <3>2 DEF Newest
      <4>2. q.change.id \in IdsOf(engine[e].batch)
        BY <1>3, <4>1
      <4>3. PICK i \in 1 .. Len(engine[e].batch) : engine[e].batch[i].id = q.change.id
        BY <4>2 DEF IdsOf
      <4>4. engine[e].batch[i] \in recorded /\ q.change \in recorded
            /\ q.seq \in Nat /\ o.seq \in Nat
        BY <1>2, <3>1 DEF EngineOver, RowOver
      <4>5. engine[e].batch[i] = q.change
        BY <1>2, <4>3, <4>4
      <4>6. o.seq < q.seq
        BY <3>2, <4>4
      <4>7. Ahead(o.change, q.change, engine[e])
        BY <1>4, <3>1, <4>6
      <4>8. PICK j \in 1 .. (i - 1) : engine[e].batch[j] = o.change
        BY <4>5, <4>7 DEF Ahead
      <4>9. j \in 1 .. Len(engine[e].batch)
        <5>1. Len(engine[e].batch) \in Nat
          BY <1>2 DEF EngineOver
        <5> QED BY <5>1
      <4>10. o.change.id \in IdsOf(engine[e].batch)
        BY <4>8, <4>9 DEF IdsOf
      <4> QED BY <1>3, <3>1, <4>10
    <3>3. Newest(o, outbox[d])
      BY <3>2 DEF Newest
    <3>4. o.change \in position[d]
      BY <1>5, <3>1, <3>3 DEF Fresh
    <3>5. \A c \in adopted : c.book /= o.change.book
      BY <2>3 DEF ShouldAdopt
    <3> HIDE DEF adopted
    <3> QED BY <3>4, <3>5 DEF PutPositions
  <2> HIDE DEF unsent, left, adopted
  <2> QED BY <2>1, <2>2, <2>3 DEF Fresh
<1>6. CASE k /= d
  <2>1. outbox'[k] = outbox[k] /\ position'[k] = position[k]
    BY <1>1, <1>2, <1>6
  <2>2. Pending(k)' = Pending(k)
    BY <2>1 DEF Pending
  <2> QED BY <2>1, <2>2 DEF Fresh
<1> QED BY <1>5, <1>6

\* Giving events up uncovers no older position: what stays pending was pending.
LEMMA RejectShows ==
  ASSUME SyncInv, RoundTrip, NEW e \in Engines, Reject(e), NEW k \in Devices, Fresh(k)
  PROVE  Fresh(k)'
<1> DEFINE d == EngineDevice[e]
<1>1. /\ outbox' = [outbox EXCEPT ![d] = Rejected(outbox[d], engine[e].batch)]
      /\ position' = position
  BY DEF Reject
<1>2. d \in Devices /\ outbox \in [Devices -> SUBSET RowOver(recorded)]
  BY SyncAssumption DEF SyncAssumption, SyncInv, OnlyRecorded
<1>3. CASE k = d
  <2>1. outbox'[k] = Rejected(outbox[k], engine[e].batch)
    BY <1>1, <1>2, <1>3
  <2>2. ASSUME NEW o \in outbox[k]
        PROVE  \E r \in outbox'[k] : r.seq = o.seq /\ r.change = o.change
    <3>1. PICK r \in Rejected(outbox[k], engine[e].batch) :
            r = o \/ r = [o EXCEPT !.status = "rejected"]
      BY <2>2 DEF Rejected
    <3>2. o \in RowOver(recorded)
      BY <1>2
    <3>3. r.seq = o.seq /\ r.change = o.change
      BY <3>1, <3>2 DEF RowOver
    <3> QED BY <2>1, <3>3
  <2>3. ASSUME NEW o \in Pending(k)', Newest(o, outbox'[k])
        PROVE  o.change \in position'[k]
    <3>1. o \in Pending(k)
      BY <1>3, LeftUnsent
    <3>2. Newest(o, outbox[k])
      <4> SUFFICES ASSUME NEW q \in outbox[k], q.change.book = o.change.book
                   PROVE  q.seq <= o.seq
        BY DEF Newest
      <4>1. PICK r \in outbox'[k] : r.seq = q.seq /\ r.change = q.change
        BY <2>2
      <4> QED BY <2>3, <4>1 DEF Newest
    <3> QED BY <1>1, <3>1, <3>2 DEF Fresh
  <2> QED BY <2>3 DEF Fresh
<1>4. CASE k /= d
  <2>1. outbox'[k] = outbox[k] /\ position'[k] = position[k]
    BY <1>1, <1>2, <1>4
  <2>2. Pending(k)' = Pending(k)
    BY <2>1 DEF Pending
  <2> QED BY <2>1, <2>2 DEF Fresh
<1> QED BY <1>3, <1>4

\* Every step leaves freshly recorded activity visible.
LEMMA FreshKept ==
  ASSUME SyncInv, RoundTrip, QueueKeys, OldestFirst, FreshActivityVisible, [SyncNext]_syncVars
  PROVE  FreshActivityVisible'
<1> SUFFICES ASSUME NEW k \in Devices PROVE Fresh(k)'
  BY DEF FreshActivityVisible, Fresh, Newest
<1>1. Fresh(k)
  BY DEF FreshActivityVisible, Fresh, Newest
<1>2. CASE \E d \in Devices : Clear(d)
  <2>1. PICK d \in Devices : Clear(d)
    BY <1>2
  <2>2. /\ outbox' = [outbox EXCEPT ![d] = {}] /\ position' = [position EXCEPT ![d] = {}]
        /\ outbox \in [Devices -> SUBSET RowOver(recorded)]
        /\ position \in [Devices -> SUBSET Changes]
    BY <2>1 DEF Clear, SyncInv, OnlyRecorded
  <2>3. CASE k = d
    BY <2>2, <2>3 DEF Fresh, Pending
  <2>4. CASE k /= d
    <3>1. outbox'[k] = outbox[k] /\ position'[k] = position[k]
      BY <2>2, <2>4
    <3>2. Pending(k)' = Pending(k)
      BY <3>1 DEF Pending
    <3> QED BY <1>1, <3>1, <3>2 DEF Fresh
  <2> QED BY <2>3, <2>4
<1>3. CASE UNCHANGED <<outbox, position, recorded>>
  <2>1. Pending(k)' = Pending(k)
    BY <1>3 DEF Pending
  <2> QED BY <1>1, <1>3, <2>1 DEF Fresh
<1> QED BY <1>1, <1>2, <1>3, RecordShows, AppliedShows, RejectShows, OutboxSteps

\* The four parts together are inductive.
LEMMA QueueInvariantSteps == SyncInv /\ QueueInv /\ [SyncNext]_syncVars => QueueInv'
BY RoundTripKept, QueueKeysKept, OldestFirstKept, FreshKept DEF QueueInv

\* Empty outboxes are in order.
LEMMA InitQueue == SyncInit => QueueInv
<1> SUFFICES ASSUME SyncInit PROVE QueueInv
  OBVIOUS
<1>1. QueueKeys
  BY FS_EmptySet DEF SyncInit, QueueKeys
<1>2. OldestFirst /\ FreshActivityVisible
  BY DEF SyncInit, OldestFirst, Orderly, IdleEngine, FreshActivityVisible, Pending
<1> QED BY <1>1, <1>2, InitRoundTrip DEF QueueInv

\* Outboxes are sent oldest first, one round trip of an engine at a time, for
\* any number of devices and threads, any batch size and any failures.
THEOREM QueueInvariant == SyncSpec => []QueueInv
<1>1. SyncInit => QueueInv
  BY InitQueue
<1>2. SyncInv /\ QueueInv /\ [SyncNext]_syncVars => QueueInv'
  BY QueueInvariantSteps
<1> QED BY <1>1, <1>2, SyncInvariant, PTL DEF SyncSpec

\* docs/offline-sync.md: "This keeps freshly recorded offline activity visible
\* until the server has had a chance to reconcile it".  The newest event a device
\* has of a book is what it shows for as long as it is unsent, whatever answers
\* applySync merges meanwhile, with any number of threads.
THEOREM SyncFreshActivityVisible == SyncSpec => []FreshActivityVisible
<1>1. QueueInv => FreshActivityVisible
  BY DEF QueueInv
<1> QED BY <1>1, QueueInvariant, PTL

-----------------------------------------------------------------------------
(* The cursor. *)

\* What an engine asked from, and what it was answered, is not behind its
\* device.
NotBehind(e) ==
  /\ \A m \in requests : m.by = e => m.cursor >= cursor[EngineDevice[e]]
  /\ \A t \in tx : t.by = e => t.cursor >= cursor[EngineDevice[e]]
  /\ reply[e].status = "ok" => reply[e].cursor >= cursor[EngineDevice[e]]

CursorsAhead == \A e \in Engines : Alone(EngineDevice[e]) => NotBehind(e)

\* Where a request comes from.
LEMMA RequestFlow ==
  ASSUME SyncInv, [SyncNext]_syncVars, NEW m \in requests'
  PROVE  \/ m \in requests
         \/ /\ m.by = Nobody
            /\ \E n \in requests : m.cursor = n.cursor /\ m.changes = n.changes
         \/ /\ m.by \in Engines /\ Send(m.by) /\ m.cursor = cursor[EngineDevice[m.by]]
            /\ m.changes = engine[m.by].batch
<1>1. CASE \E e \in Engines : Send(e)
  <2>1. PICK e \in Engines : Send(e)
    BY <1>1
  <2> DEFINE n == [by |-> e, cursor |-> cursor[EngineDevice[e]], changes |-> engine[e].batch,
                   release |-> appRelease[EngineDevice[e]]]
  <2>2. m \in requests \/ m = n
    BY <2>1 DEF Send
  <2>3. n.by = e /\ n.cursor = cursor[EngineDevice[e]] /\ n.changes = engine[e].batch
    OBVIOUS
  <2> HIDE DEF n
  <2> QED BY <2>1, <2>2, <2>3
<1>2. CASE \E e \in Engines, late \in BOOLEAN : Fail(e, late)
  <2>1. m \in requests \/ \E n \in requests : m = [n EXCEPT !.by = Nobody]
    BY <1>2 DEF Fail
  <2>2. ASSUME NEW n \in requests
        PROVE  /\ [n EXCEPT !.by = Nobody].by = Nobody
               /\ [n EXCEPT !.by = Nobody].cursor = n.cursor
               /\ [n EXCEPT !.by = Nobody].changes = n.changes
    BY DEF SyncInv, OnlyRecorded, MessageOver
  <2> QED BY <2>1, <2>2
<1>3. CASE requests' \subseteq requests
  BY <1>3
<1>4. \/ \E e \in Engines : Send(e)
      \/ \E e \in Engines, late \in BOOLEAN : Fail(e, late)
      \/ requests' \subseteq requests
  BY DEF SyncNext, EngineStep, StartRun, ReadOutbox, OutOfPages, SendSignedOut, Applied, Check,
         StartIsolating, Reject, ServerFailed, Record, Receive, ServerStep, ServerAbort,
         DropReply, Administer, UpdateServer, UpdateApp, SignOut, Clear, Expire, SignIn, syncVars
<1> QED BY <1>1, <1>2, <1>3, <1>4

\* Where a transaction comes from.
LEMMA TransactionFlow ==
  ASSUME SyncInv, [SyncNext]_syncVars, NEW t \in tx'
  PROVE  \/ t \in tx
         \/ \E u \in tx : t.by = u.by /\ t.cursor = u.cursor
         \/ \E m \in requests : t.by = m.by /\ t.cursor = m.cursor /\ t.db = db
<1>1. CASE \E m \in requests : Receive(m)
  <2>1. PICK m \in requests : Receive(m)
    BY <1>1
  <2>2. CASE BeginSync(m.by, m.cursor, m.changes)
    <3>1. t.by = m.by /\ t.cursor = m.cursor /\ t.db = db
      BY <2>2 DEF BeginSync
    <3> QED BY <3>1
  <2>3. CASE ~BeginSync(m.by, m.cursor, m.changes)
    BY <2>1, <2>3 DEF Receive, Request, RefuseSync, RefuseVersion
  <2> QED BY <2>2, <2>3
<1>2. CASE ServerStep \/ ServerAbort
  <2>1. PICK u \in tx : Handle(u) \/ Abort(u)
    BY <1>2 DEF ServerStep, ServerAbort
  <2>2. CASE RecordNew(u) \/ RecordDuplicate(u)
    <3>1. PICK f, ack : Advance(u, f, ack)
      BY <2>2 DEF RecordNew, RecordDuplicate
    <3>2. t.by = u.by /\ t.cursor = u.cursor
      BY <3>1 DEF Advance
    <3> QED BY <3>2
  <2>3. CASE ~(RecordNew(u) \/ RecordDuplicate(u))
    BY <2>1, <2>3 DEF Handle, RecordConflict, RecordUnknown, RecordWrongFormat,
                      CommitSync, CommitWithoutRow, Abort, Rollback
  <2> QED BY <2>2, <2>3
<1>3. CASE tx' = tx
  BY <1>3
<1>4. \/ \E m \in requests : Receive(m)
      \/ ServerStep \/ ServerAbort
      \/ tx' = tx
  BY DEF SyncNext, EngineStep, StartRun, ReadOutbox, OutOfPages, Send, SendSignedOut, Applied,
         Check, StartIsolating, Reject, Refused, ServerFailed, Record, Fail, TakeReply,
         DropReply, Administer, SetVisible, RemoveEditions, Tick, UpdateServer, UpdateApp,
         SignOut, Clear, Expire, SignIn, syncVars, storeVars
<1> QED BY <1>1, <1>2, <1>3, <1>4

\* Where an answer of success comes from.
LEMMA ReplyFlow ==
  ASSUME SyncInv, [SyncNext]_syncVars, NEW e \in Clients, reply'[e].status = "ok"
  PROVE  \/ reply'[e] = reply[e]
         \/ \E t \in tx : /\ t.by = e /\ CommitSync(t)
                          /\ reply'[e].cursor = NextCursor(t.db, t.cursor)
                          /\ reply'[e].progress =
                               UNION {RowsOf(b, t.db.progress) : b \in ChangedBooks(t.db, t.cursor)}
<1>1. reply \in [Clients -> Reply]
  BY DEF SyncInv, IInv, TypeOK
<1>2. ASSUME NEW c \in Clients, NEW status \in Status \ {"ok"},
             reply' = [reply EXCEPT ![c] = Answer(status)]
      PROVE  reply'[e] = reply[e]
  <2>1. Answer(status).status /= "ok"
    BY <1>2 DEF Answer
  <2> QED BY <1>1, <1>2, <2>1
<1>3. CASE \E m \in requests : Receive(m)
  <2>1. PICK m \in requests : Receive(m)
    BY <1>3
  <2>2. m.by \in Clients
    BY DEF SyncInv, OnlyRecorded, MessageOver
  <2>3. CASE RefuseVersion(m.by) \/ RefuseSync(m.by, m.changes)
    <3>1. \E status \in Status \ {"ok"} : reply' = [reply EXCEPT ![m.by] = Answer(status)]
      BY <2>3 DEF RefuseVersion, RefuseSync, Status
    <3> QED BY <1>2, <2>2, <3>1
  <2>4. CASE BeginSync(m.by, m.cursor, m.changes)
    BY <2>4 DEF BeginSync
  <2> QED BY <2>1, <2>3, <2>4 DEF Receive, Request
<1>4. CASE ServerStep \/ ServerAbort
  <2>1. PICK t \in tx : Handle(t) \/ Abort(t)
    BY <1>4 DEF ServerStep, ServerAbort
  <2>2. t.by \in Clients
    BY DEF SyncInv, IInv, TypeOK, Transaction
  <2>3. CASE CommitSync(t)
    <3> DEFINE answer == [status |-> "ok", cursor |-> NextCursor(t.db, t.cursor),
          hasMore |-> Unseen(t.db, t.cursor) /= Page(t.db, t.cursor),
          acks |-> t.acks,
          progress |-> UNION {RowsOf(b, t.db.progress) : b \in ChangedBooks(t.db, t.cursor)}]
    <3>1. reply' = [reply EXCEPT ![t.by] = answer]
      BY <2>3 DEF CommitSync
    <3>2. /\ answer.cursor = NextCursor(t.db, t.cursor)
          /\ answer.progress =
               UNION {RowsOf(b, t.db.progress) : b \in ChangedBooks(t.db, t.cursor)}
      OBVIOUS
    <3> HIDE DEF answer
    <3>3. CASE t.by = e
      <4>1. reply'[e] = answer
        BY <1>1, <2>2, <3>1, <3>3
      <4> QED BY <2>3, <3>2, <3>3, <4>1
    <3>4. CASE t.by /= e
      BY <1>1, <3>1, <3>4
    <3> QED BY <3>3, <3>4
  <2>4. CASE RecordNew(t) \/ RecordDuplicate(t)
    BY <2>4 DEF RecordNew, RecordDuplicate, Advance
  <2>5. CASE \/ RecordConflict(t) \/ RecordUnknown(t) \/ RecordWrongFormat(t)
             \/ CommitWithoutRow(t) \/ Abort(t)
    <3>1. \E status \in Status \ {"ok"} : reply' = [reply EXCEPT ![t.by] = Answer(status)]
      BY <2>5 DEF RecordConflict, RecordUnknown, RecordWrongFormat, CommitWithoutRow,
                  Abort, Rollback, Status
    <3> QED BY <1>2, <2>2, <3>1
  <2> QED BY <2>1, <2>3, <2>4, <2>5 DEF Handle
<1>5. CASE \E c \in Clients : TakeReply(c)
  <2>1. \E c \in Clients, status \in Status \ {"ok"} : reply' = [reply EXCEPT ![c] = Answer(status)]
    BY <1>5 DEF TakeReply, NoReply, Status
  <2> QED BY <1>2, <2>1
<1>6. CASE reply' = reply
  BY <1>6
<1>7. Engines \subseteq Clients /\ Nobody \in Clients
  BY SyncAssumption DEF SyncAssumption
<1>8. \/ \E m \in requests : Receive(m)
      \/ ServerStep \/ ServerAbort
      \/ \E c \in Clients : TakeReply(c)
      \/ reply' = reply
  BY <1>7 DEF SyncNext, EngineStep, StartRun, ReadOutbox, OutOfPages, Send, SendSignedOut,
         Applied, Check, StartIsolating, Reject, Refused, ServerFailed, Record, Fail,
         DropReply, Administer, SetVisible, RemoveEditions, Tick, UpdateServer, UpdateApp,
         SignOut, Clear, Expire, SignIn, syncVars, storeVars
<1> QED BY <1>3, <1>4, <1>5, <1>6, <1>8

\* A page never ends before where it was asked from.
LEMMA NextCursorForward ==
  ASSUME NEW d \in Database, Keys(d), NEW from \in Nat
  PROVE  NextCursor(d, from) >= from
<1>1. CASE Page(d, from) = {}
  BY <1>1 DEF NextCursor
<1>2. CASE Page(d, from) /= {}
  <2>1. PICK e \in Page(d, from) : TRUE
    BY <1>2
  <2>2. e \in d.events /\ e.rev > from
    BY DEF Page, Unseen
  <2>3. e.rev \in Nat
    BY <2>2 DEF Database, EventRow
  <2>4. NextCursor(d, from) \in Nat /\ e.rev <= NextCursor(d, from)
    BY NextCursorType
  <2> QED BY <2>2, <2>3, <2>4
<1> QED BY <1>1, <1>2

\* The steps that move a cursor.
LEMMA CursorSteps ==
  ASSUME SyncInv, [SyncNext]_syncVars, NEW d \in Devices
  PROVE  \/ cursor'[d] = cursor[d]
         \/ cursor'[d] = 0 /\ Clear(d)
         \/ \E e \in Engines : Applied(e) /\ EngineDevice[e] = d /\ cursor'[d] = reply[e].cursor
<1>1. cursor \in [Devices -> Nat]
  BY DEF SyncInv, OnlyRecorded
<1>2. CASE \E e \in Engines : Applied(e)
  <2>1. PICK e \in Engines : Applied(e)
    BY <1>2
  <2>2. cursor' = [cursor EXCEPT ![EngineDevice[e]] = reply[e].cursor]
    BY <2>1 DEF Applied, ApplySync
  <2> QED BY <1>1, <2>1, <2>2
<1>3. CASE \E k \in Devices : Clear(k)
  BY <1>1, <1>3 DEF Clear
<1>4. CASE cursor' = cursor
  BY <1>4
<1>5. \/ \E e \in Engines : Applied(e)
      \/ \E k \in Devices : Clear(k)
      \/ cursor' = cursor
  BY DEF SyncNext, EngineStep, StartRun, ReadOutbox, OutOfPages, Send, SendSignedOut, Check,
       StartIsolating, Reject, ServerFailed, Fail, Record, Receive, ServerStep, ServerAbort,
       DropReply, Administer, UpdateServer, UpdateApp, SignOut, Expire, SignIn, syncVars, deviceVars
<1> QED BY <1>2, <1>3, <1>4, <1>5

\* Every step keeps what is on its way to an engine, or back, from falling
\* behind the device.
LEMMA CursorsAheadKept ==
  ASSUME SyncInv, RoundTrip, CursorsAhead, [SyncNext]_syncVars
  PROVE  CursorsAhead'
<1> SUFFICES ASSUME NEW e \in Engines, Alone(EngineDevice[e]) PROVE NotBehind(e)'
  BY DEF CursorsAhead, Alone
<1> DEFINE d == EngineDevice[e]
<1>1. /\ e \in Clients /\ e /= Nobody /\ d \in Devices /\ NotBehind(e)
      /\ cursor[d] \in Nat /\ reply \in [Clients -> Reply]
      /\ \A m \in requests : m.cursor \in Nat
      /\ \A t \in tx : t.cursor \in Nat
  BY SyncAssumption DEF SyncAssumption, CursorsAhead, SyncInv, OnlyRecorded, MessageOver,
                        IInv, TypeOK, Transaction
<1>2. CASE Applied(e)
  <2>1. /\ reply' = [reply EXCEPT ![e] = NoReply] /\ tx' = tx /\ requests' = requests
        /\ reply[e] /= NoReply
    BY <1>2 DEF Applied, TakeReply
  <2>2. reply'[e] = NoReply
    BY <1>1, <2>1
  <2>3. /\ \A m \in requests : m.by /= e
        /\ \A t \in tx : t.by /= e
    BY <2>1, AnswerIsAll
  <2> QED BY <2>1, <2>2, <2>3 DEF NotBehind, NoReply, Answer
<1>3. CASE ~Applied(e)
  <2>1. cursor'[d] \in Nat /\ cursor'[d] <= cursor[d]
    <3>1. ASSUME NEW f \in Engines, Applied(f), EngineDevice[f] = d
          PROVE  FALSE
      BY <1>3, <3>1 DEF Alone
    <3> QED BY <1>1, <3>1, CursorSteps
  <2>2. ASSUME NEW m \in requests', m.by = e
        PROVE  m.cursor >= cursor'[d]
    <3>1. CASE m \in requests
      BY <1>1, <2>1, <2>2, <3>1 DEF NotBehind
    <3>2. CASE m.cursor = cursor[d]
      BY <1>1, <2>1, <3>2
    <3> QED BY <1>1, <2>2, <3>1, <3>2, RequestFlow
  <2>3. ASSUME NEW t \in tx', t.by = e
        PROVE  t.cursor >= cursor'[d]
    <3>1. \/ \E u \in tx : u.by = e /\ t.cursor = u.cursor
          \/ \E m \in requests : m.by = e /\ t.cursor = m.cursor
      BY <2>3, TransactionFlow
    <3> QED BY <1>1, <2>1, <3>1 DEF NotBehind
  <2>4. ASSUME reply'[e].status = "ok"
        PROVE  reply'[e].cursor >= cursor'[d]
    <3>1. CASE reply'[e] = reply[e]
      <4>1. reply[e].cursor \in Nat
        BY <1>1 DEF Reply
      <4> QED BY <1>1, <2>1, <2>4, <3>1, <4>1 DEF NotBehind
    <3>2. CASE \E t \in tx : t.by = e /\ reply'[e].cursor = NextCursor(t.db, t.cursor)
      <4>1. PICK t \in tx : t.by = e /\ reply'[e].cursor = NextCursor(t.db, t.cursor)
        BY <3>2
      <4>2. t.db \in Database /\ Keys(t.db)
        BY DEF SyncInv, IInv, TypeOK, Transaction, Good
      <4>3. NextCursor(t.db, t.cursor) >= t.cursor /\ NextCursor(t.db, t.cursor) \in Nat
        BY <1>1, <4>2, NextCursorForward, NextCursorType
      <4>4. t.cursor >= cursor[d]
        BY <1>1, <4>1 DEF NotBehind
      <4> QED BY <1>1, <2>1, <4>1, <4>3, <4>4
    <3> QED BY <1>1, <2>4, <3>1, <3>2, ReplyFlow
  <2> QED BY <2>2, <2>3, <2>4 DEF NotBehind
<1> QED BY <1>2, <1>3

\* applySync stores the cursor of the answer unconditionally.  On a device that
\* runs one engine it only grows, until a sign-out resets it.
THEOREM SyncCursorNeverRewinds == SyncSpec => CursorNeverRewinds
<1> DEFINE Forward == \A d \in Devices : Alone(d) =>
                        cursor'[d] >= cursor[d] \/ session'[d] = "out"
<1>1. SyncInit => CursorsAhead
  BY SyncAssumption DEF SyncAssumption, SyncInit, StoreInit, CursorsAhead, NotBehind,
                        NoReply, Answer
<1>2. QueueInv => RoundTrip
  BY DEF QueueInv
<1>3. SyncInv /\ RoundTrip /\ CursorsAhead /\ [SyncNext]_syncVars => CursorsAhead'
  BY CursorsAheadKept
<1>4. SyncInv /\ CursorsAhead /\ [SyncNext]_syncVars => [Forward]_syncVars
  <2> SUFFICES ASSUME SyncInv, CursorsAhead, [SyncNext]_syncVars, NEW d \in Devices, Alone(d)
               PROVE  cursor'[d] >= cursor[d] \/ session'[d] = "out"
    OBVIOUS
  <2>1. /\ cursor[d] \in Nat /\ session \in [Devices -> {"in", "leaving", "confirmed", "out"}]
        /\ reply \in [Clients -> Reply]
    BY DEF SyncInv, OnlyRecorded, IInv, TypeOK
  <2>2. CASE cursor'[d] = cursor[d]
    BY <2>1, <2>2
  <2>3. CASE Clear(d)
    BY <2>1, <2>3 DEF Clear
  <2>4. CASE \E e \in Engines : Applied(e) /\ EngineDevice[e] = d /\ cursor'[d] = reply[e].cursor
    <3>1. PICK e \in Engines : /\ Applied(e) /\ EngineDevice[e] = d
                               /\ cursor'[d] = reply[e].cursor
      BY <2>4
    <3> QED BY <3>1 DEF CursorsAhead, NotBehind, Applied
  <2> QED BY <2>2, <2>3, <2>4, CursorSteps
<1>5. SyncSpec => [][Forward]_syncVars
  BY <1>1, <1>2, <1>3, <1>4, SyncInvariant, QueueInvariant, PTL DEF SyncSpec
<1> QED BY <1>5 DEF CursorNeverRewinds

-----------------------------------------------------------------------------
(* What is rejected. *)

Hopeless(c) == ~(ValidChange(c) /\ KnownEdition(c) /\ c.form = "good")

\* The server's log has only events that devices recorded.
LogRecorded ==
  /\ \A e \in db.events : e.change \in recorded
  /\ \A t \in tx : \A e \in t.db.events : e.change \in recorded

Unchanging ==
  /\ visible = Books /\ now \in 0 .. MaxNow
  /\ serverRelease = 0 /\ \A d \in Devices : appRelease[d] = 0
  /\ \A m \in requests : m.release = 0

Refusals == {"invalid_change", "unknown_edition", "event_id_conflict", "version_mismatch"}

\* An event that was sent alone and refused, or given up, is hopeless.
RefusedAreHopeless ==
  \A e \in Engines, c \in Changes :
    /\ reply[e].status \in Refusals /\ Len(engine[e].batch) <= 1
    /\ \E i \in 1 .. Len(engine[e].batch) : engine[e].batch[i] = c
    => Hopeless(c)

HopelessInv == LogRecorded /\ Unchanging /\ RefusedAreHopeless /\ OnlyHopelessRejected

\* Every step logs only what a device recorded.
LEMMA LogRecordedKept ==
  ASSUME SyncInv, LogRecorded, [SyncNext]_syncVars, recorded \subseteq recorded'
  PROVE  LogRecorded'
<1>1. StoreStep
  BY StoreSteps
<1>2. CASE \E t \in tx : RecordNew(t)
  <2>1. PICK t \in tx : RecordNew(t)
    BY <1>2
  <2> DEFINE c == Head(t.todo)
             f == RecordChange(t.db, c)
  <2>2. PICK ack : Advance(t, f, ack)
    BY <2>1 DEF RecordNew
  <2>3. c \in recorded
    BY <2>1 DEF RecordNew, SyncInv, OnlyRecorded
  <2>4. \A e \in f.events : e \in t.db.events \/ e.change = c
    BY DEF RecordChange
  <2>5. \A u \in tx' : u.db = f
    BY <2>2 DEF Advance
  <2>6. db' = db
    BY <2>2 DEF Advance
  <2> HIDE DEF f, c
  <2> QED BY <2>3, <2>4, <2>5, <2>6 DEF LogRecorded
<1>3. CASE \E t \in tx : RecordDuplicate(t)
  <2>1. PICK t \in tx : \E ack : Advance(t, t.db, ack)
    BY <1>3 DEF RecordDuplicate
  <2>2. db' = db /\ \A u \in tx' : u.db = t.db
    BY <2>1 DEF Advance
  <2> QED BY <2>2 DEF LogRecorded
<1>4. CASE \E t \in tx : \/ RecordConflict(t) \/ RecordUnknown(t) \/ RecordWrongFormat(t)
                       \/ CommitSync(t) \/ CommitWithoutRow(t) \/ Abort(t)
  BY <1>4 DEF LogRecorded, RecordConflict, RecordUnknown, RecordWrongFormat, CommitSync,
              CommitWithoutRow, Abort, Rollback
<1>5. CASE \E client \in Clients, from \in Nat, changes \in Seq(recorded) :
             Request(client, from, changes)
  BY <1>5 DEF LogRecorded, Request, RefuseSync, BeginSync
<1>6. CASE \E removed \in Removable : RemoveEditions(removed)
  BY <1>6 DEF LogRecorded, RemoveEditions
<1>7. CASE \/ \E client \in Clients : RefuseVersion(client) \/ TakeReply(client)
           \/ \E books \in SUBSET Books : SetVisible(books)
           \/ Tick \/ UNCHANGED storeVars
  BY <1>7 DEF LogRecorded, RefuseVersion, TakeReply, SetVisible, Tick, storeVars
<1> QED BY <1>1, <1>2, <1>3, <1>4, <1>5, <1>6, <1>7 DEF StoreStep, SyncStep, Handle

\* With no access sets and one release there is nothing to change.
LEMMA UnchangingKept ==
  ASSUME Settled, SyncInv, Unchanging, [SyncNext]_syncVars
  PROVE  Unchanging'
<1>1. /\ appRelease \in [Devices -> Nat] /\ now \in Nat /\ MaxNow \in Nat
      /\ EngineDevice \in [Engines -> Devices]
  BY StoreAssumption, SyncAssumption DEF StoreAssumption, SyncAssumption, SyncInv, OnlyRecorded,
     IInv, TypeOK
<1>2. visible' = visible /\ now' \in 0 .. MaxNow
  <2>1. CASE Administer
    BY <1>1, <2>1 DEF Settled, Unchanging, Administer, RemoveEditions, Tick
  <2>2. CASE UNCHANGED <<visible, now>>
    BY <2>2 DEF Unchanging
  <2>3. Administer \/ UNCHANGED <<visible, now>>
    BY DEF SyncNext, EngineStep, StartRun, ReadOutbox, OutOfPages, Send, SendSignedOut, Applied,
         Check, StartIsolating, Reject, Refused, ServerFailed, Record, Fail, TakeReply, Receive,
         Request, RefuseSync, BeginSync, RefuseVersion, ServerStep, ServerAbort, Handle,
         RecordNew, RecordDuplicate, RecordConflict, RecordUnknown, RecordWrongFormat,
         CommitSync, CommitWithoutRow, Abort, Rollback, Advance,
         DropReply, UpdateServer, UpdateApp,
         SignOut, Clear, Expire, SignIn, syncVars, storeVars
  <2> QED BY <2>1, <2>2, <2>3 DEF Unchanging
<1>3. serverRelease' = serverRelease /\ appRelease' = appRelease
  <2>1. ~UpdateServer /\ \A d \in Devices : ~UpdateApp(d)
    BY DEF UpdateServer, UpdateApp, Settled, Unchanging
  <2> QED BY <2>1 DEF SyncNext, EngineStep, StartRun, ReadOutbox, OutOfPages, Send,
         SendSignedOut, Applied, Check, StartIsolating, Reject, ServerFailed, Record, Fail,
         Receive, ServerStep, ServerAbort, DropReply, Administer,
         SignOut, Clear, Expire, SignIn, syncVars, historyVars, releaseVars
<1>4. ASSUME NEW m \in requests'
      PROVE  m.release = 0
  <2>1. CASE \E e \in Engines : Send(e)
    <3>1. PICK e \in Engines : Send(e)
      BY <2>1
    <3>2. m \in requests \/ m.release = appRelease[EngineDevice[e]]
      BY <3>1 DEF Send
    <3> QED BY <1>1, <3>2 DEF Unchanging
  <2>2. CASE \E e \in Engines, late \in BOOLEAN : Fail(e, late)
    <3>1. m \in requests \/ \E n \in requests : m = [n EXCEPT !.by = Nobody]
      BY <2>2 DEF Fail
    <3>2. \A n \in requests : [n EXCEPT !.by = Nobody].release = n.release
      BY DEF SyncInv, OnlyRecorded, MessageOver
    <3> QED BY <3>1, <3>2 DEF Unchanging
  <2>3. CASE requests' \subseteq requests
    BY <2>3 DEF Unchanging
  <2>4. \/ \E e \in Engines : Send(e)
        \/ \E e \in Engines, late \in BOOLEAN : Fail(e, late)
        \/ requests' \subseteq requests
    BY DEF SyncNext, EngineStep, StartRun, ReadOutbox, OutOfPages, SendSignedOut, Applied, Check,
         StartIsolating, Reject, ServerFailed, Record, Receive, ServerStep, ServerAbort,
         DropReply, Administer, UpdateServer, UpdateApp, SignOut, Clear, Expire, SignIn, syncVars
  <2> QED BY <2>1, <2>2, <2>3, <2>4
<1> QED BY <1>2, <1>3, <1>4 DEF Unchanging

\* What the server will never take it never takes later.
LEMMA HopelessKept ==
  ASSUME Settled, SyncInv, Unchanging, Unchanging', StoreStep, NEW c \in Changes, Hopeless(c)
  PROVE  Hopeless(c)'
<1>1. editions' \subseteq editions
  BY LogKept DEF SyncInv
<1>2. visible' = visible /\ now \in 0 .. MaxNow /\ now' \in 0 .. MaxNow /\ MaxNow \in Nat
  BY StoreAssumption DEF Unchanging, StoreAssumption
<1>3. CASE c.form = "malformed"
  BY <1>3 DEF Hopeless, ValidChange
<1>4. CASE AheadOfClock(c, now)
  <2>1. c.at.sec \in Nat /\ c.at.frac \in Nat /\ MaxFutureClockSkew \in Nat
    BY ChangeType, StoreAssumption DEF StoreAssumption, Instant
  <2>2. AheadOfClock(c, 0)
    BY <1>2, <1>4, <2>1 DEF AheadOfClock, Later
  <2>3. AheadOfClock(c, MaxNow)
    BY <2>2 DEF Settled
  <2>4. AheadOfClock(c, now')
    BY <1>2, <2>1, <2>3 DEF AheadOfClock, Later
  <2>5. ~ValidChange(c)'
    BY <2>4 DEF AheadOfClock, ValidChange
  <2> QED BY <2>5 DEF Hopeless
<1>5. CASE ~KnownEdition(c)
  BY <1>1, <1>2, <1>5 DEF Hopeless, KnownEdition
<1>6. CASE c.form /= "good"
  BY <1>6 DEF Hopeless
<1> QED BY <1>3, <1>4, <1>5, <1>6 DEF Hopeless, ValidChange, AheadOfClock

\* An answer of refusal is made for a batch that is too long or has a hopeless
\* event.
LEMMA RefusalFlow ==
  ASSUME SyncInv, RoundTrip, LogRecorded, Unchanging, [SyncNext]_syncVars,
         NEW e \in Engines, reply'[e].status \in Refusals, reply'[e] /= reply[e]
  PROVE  \/ Len(engine[e].batch) > MaxBatchSize
         \/ \E i \in 1 .. Len(engine[e].batch) : Hopeless(engine[e].batch[i])
<1> DEFINE s == engine[e].batch
<1>1. /\ Engines \subseteq Clients /\ e \in Clients /\ reply \in [Clients -> Reply]
      /\ s \in Seq(recorded) /\ Nobody \in Clients
  BY SyncAssumption DEF SyncAssumption, SyncInv, OnlyRecorded, EngineOver, IInv, TypeOK
<1>3. CASE \E m \in requests : Receive(m)
  <2>1. PICK m \in requests : Receive(m)
    BY <1>3
  <2>3. m.release = serverRelease
    BY DEF Unchanging
  <2>4. Request(m.by, m.cursor, m.changes)
    BY <2>1, <2>3 DEF Receive
  <2>5. RefuseSync(m.by, m.changes)
    BY <2>4 DEF Request, BeginSync
  <2>6. m.by = e
    BY <1>1, <2>5 DEF RefuseSync
  <2>7. m.changes = s
    BY <2>6 DEF RoundTrip, RequestsOfBatches
  <2> QED BY <2>5, <2>7 DEF RefuseSync, Hopeless
<1>4. CASE ServerStep \/ ServerAbort
  <2>1. PICK t \in tx : Handle(t) \/ Abort(t)
    BY <1>4 DEF ServerStep, ServerAbort
  <2>2. PICK status \in {"event_id_conflict", "unknown_edition", "invalid_change"} :
          /\ Rollback(t, status)
          /\ RecordConflict(t) \/ RecordUnknown(t) \/ RecordWrongFormat(t)
    <3>1. CASE RecordNew(t) \/ RecordDuplicate(t)
      BY <3>1 DEF RecordNew, RecordDuplicate, Advance
    <3>2. CASE CommitSync(t)
      <4>1. t.by \in Clients
        BY DEF SyncInv, IInv, TypeOK, Transaction
      <4>2. \E answer : answer.status = "ok" /\ reply' = [reply EXCEPT ![t.by] = answer]
        BY <3>2 DEF CommitSync
      <4>3. reply'[e] = reply[e] \/ reply'[e].status = "ok"
        BY <1>1, <4>1, <4>2
      <4> QED BY <4>3 DEF Refusals
    <3>3. CASE CommitWithoutRow(t) \/ Abort(t)
      <4>1. reply' = [reply EXCEPT ![t.by] = Answer("internal_error")]
        BY <3>3 DEF CommitWithoutRow, Abort, Rollback
      <4>2. reply'[e] = reply[e] \/ reply'[e].status = "internal_error"
        BY <1>1, <4>1 DEF Answer
      <4> QED BY <4>2 DEF Refusals
    <3> QED BY <2>1, <3>1, <3>2, <3>3 DEF Handle, RecordConflict, RecordUnknown, RecordWrongFormat
  <2>3. t.by = e
    BY <1>1, <2>2 DEF Rollback
  <2>4. t.todo /= <<>> /\ t.todo \in Seq(recorded)
    BY <2>2 DEF RecordConflict, RecordUnknown, RecordWrongFormat, SyncInv, OnlyRecorded
  <2>5. PICK i \in 1 .. Len(s) : Head(t.todo).id = s[i].id
    <3>1. IdsOf(t.todo) = {Head(t.todo).id} \cup IdsOf(Tail(t.todo))
      BY <2>4, IdsOfParts
    <3>2. AckedIds(t.acks) \cup IdsOf(t.todo) = IdsOf(s)
      BY <2>3 DEF RoundTrip, TransactionsOfBatches
    <3>3. Head(t.todo).id \in IdsOf(s)
      BY <3>1, <3>2
    <3> QED BY <3>3 DEF IdsOf
  <2>6. Head(t.todo) = s[i] /\ s[i] \in recorded
    <3>1. Head(t.todo) \in recorded /\ s[i] \in recorded
      BY <1>1, <2>4
    <3> QED BY <2>5, <3>1 DEF SyncInv, OnlyRecorded
  <2>7. ~RecordConflict(t)
    <3>1. ASSUME NEW r \in t.db.events, r.change.id = s[i].id
          PROVE  r.change = s[i]
      BY <2>6, <3>1 DEF LogRecorded, SyncInv, OnlyRecorded
    <3> QED BY <2>6, <3>1 DEF RecordConflict
  <2>8. Hopeless(s[i])
    BY <2>2, <2>6, <2>7 DEF RecordUnknown, RecordWrongFormat, Hopeless
  <2> QED BY <2>8
<1>5. CASE \E c \in Clients : TakeReply(c)
  <2>1. PICK c \in Clients : reply' = [reply EXCEPT ![c] = NoReply]
    BY <1>5 DEF TakeReply
  <2>2. reply'[e] = reply[e] \/ reply'[e] = NoReply
    BY <1>1, <2>1
  <2> QED BY <2>2 DEF NoReply, Answer, Refusals
<1>6. \/ \E m \in requests : Receive(m)
      \/ ServerStep \/ ServerAbort
      \/ \E c \in Clients : TakeReply(c)
      \/ reply' = reply
  BY <1>1 DEF SyncNext, EngineStep, StartRun, ReadOutbox, OutOfPages, Send, SendSignedOut,
         Applied, Check, StartIsolating, Reject, Refused, ServerFailed, Record, Fail,
         DropReply, Administer, SetVisible, RemoveEditions, Tick, UpdateServer, UpdateApp,
         SignOut, Clear, Expire, SignIn, syncVars, storeVars
<1> QED BY <1>3, <1>4, <1>5, <1>6

\* An engine whose answer is there stays until it takes it.
LEMMA EngineHeld ==
  ASSUME SyncInv, RoundTrip, [SyncNext]_syncVars, NEW e \in Engines, reply'[e] /= NoReply
  PROVE  engine'[e] = engine[e]
<1>1. /\ engine \in [Engines -> EngineOver(recorded)] /\ reply \in [Clients -> Reply]
      /\ e \in Clients
  BY SyncAssumption DEF SyncAssumption, SyncInv, OnlyRecorded, IInv, TypeOK
<1>2. ASSUME \/ StartRun(e) \/ OutOfPages(e) \/ SendSignedOut(e) \/ Check(e) \/ Send(e)
             \/ \E batch \in Batches : ReadOutbox(e, batch)
      PROVE  FALSE
  <2>1. engine[e].pc /= "wait" /\ reply' = reply
    BY <1>2 DEF StartRun, ReadOutbox, OutOfPages, SendSignedOut, Check, Send, storeVars
  <2> QED BY <2>1, NothingOnTheWay
<1>3. ASSUME \/ Applied(e) \/ StartIsolating(e) \/ Reject(e) \/ ServerFailed(e)
             \/ \E late \in BOOLEAN : Fail(e, late)
      PROVE  FALSE
  BY <1>1, <1>3 DEF Applied, StartIsolating, Reject, Refused, ServerFailed, Fail, TakeReply,
                    storeVars
<1>4. CASE \E f \in Engines \ {e} : \/ StartRun(f) \/ EngineStep(f)
                                    \/ \E late \in BOOLEAN : Fail(f, late)
  <2>1. PICK f \in Engines \ {e} : \E next : engine' = [engine EXCEPT ![f] = next]
    BY <1>4 DEF EngineStep, StartRun, ReadOutbox, OutOfPages, Send, SendSignedOut, Applied,
                Check, StartIsolating, Reject, ServerFailed, Fail, Goto
  <2> QED BY <1>1, <2>1
<1>5. CASE engine' = engine
  BY <1>5
<1>6. CASE \E f \in Engines : StartRun(f) \/ EngineStep(f)
  <2>1. PICK f \in Engines : StartRun(f) \/ EngineStep(f)
    BY <1>6
  <2>2. f /= e
    BY <1>2, <1>3, <2>1 DEF EngineStep
  <2> QED BY <1>4, <2>1, <2>2
<1>7. CASE \E f \in Engines, late \in BOOLEAN : Fail(f, late)
  BY <1>3, <1>4, <1>7
<1>8. CASE ~\/ \E f \in Engines : StartRun(f) \/ EngineStep(f)
            \/ \E f \in Engines, late \in BOOLEAN : Fail(f, late)
  <2>1. engine' = engine
    BY <1>8 DEF SyncNext, Record, Receive, ServerStep, ServerAbort, DropReply, Administer,
                UpdateServer, UpdateApp, SignOut, Clear, Expire, SignIn, syncVars
  <2> QED BY <2>1
<1> QED BY <1>6, <1>7, <1>8

\* Every step keeps refusals of single events deserved.
LEMMA RefusedKept ==
  ASSUME Settled, SyncInv, QueueInv, HopelessInv, Unchanging', [SyncNext]_syncVars
  PROVE  RefusedAreHopeless'
<1> SUFFICES ASSUME NEW e \in Engines, NEW c \in Changes, reply'[e].status \in Refusals,
                    Len(engine'[e].batch) <= 1,
                    NEW i \in 1 .. Len(engine'[e].batch), engine'[e].batch[i] = c
             PROVE  Hopeless(c)'
  BY DEF RefusedAreHopeless
<1>1. engine'[e] = engine[e]
  BY EngineHeld DEF QueueInv, NoReply, Answer, Refusals
<1>2. Hopeless(c)
  <2>1. CASE reply'[e] = reply[e]
    BY <1>1, <2>1 DEF HopelessInv, RefusedAreHopeless
  <2>2. CASE reply'[e] /= reply[e]
    <3>1. \/ Len(engine[e].batch) > MaxBatchSize
          \/ \E k \in 1 .. Len(engine[e].batch) : Hopeless(engine[e].batch[k])
      BY <2>2, RefusalFlow DEF HopelessInv, QueueInv
    <3>2. engine[e].batch \in Seq(recorded) /\ MaxBatchSize \in Nat /\ MaxBatchSize > 0
      BY StoreAssumption DEF StoreAssumption, Settled, SyncInv, OnlyRecorded, EngineOver
    <3>3. Len(engine[e].batch) \in Nat /\ Len(engine[e].batch) = 1 /\ engine[e].batch[1] = c
      <4>1. /\ i \in 1 .. Len(engine[e].batch) /\ Len(engine[e].batch) <= 1
            /\ engine[e].batch[i] = c
        BY <1>1
      <4>2. Len(engine[e].batch) \in Nat
        BY <3>2
      <4> DEFINE n == Len(engine[e].batch)
      <4>3. i \in 1 .. n /\ n <= 1 /\ n \in Nat
        BY <4>1, <4>2
      <4> HIDE DEF n
      <4>4. i = 1 /\ n = 1
        BY <4>3
      <4> QED BY <4>1, <4>2, <4>4 DEF n
    <3>4. PICK k \in 1 .. Len(engine[e].batch) : Hopeless(engine[e].batch[k])
      <4>1. ~(Len(engine[e].batch) > MaxBatchSize)
        BY <3>2, <3>3
      <4> QED BY <3>1, <4>1
    <3>5. k = 1
      BY <3>3
    <3> QED BY <3>3, <3>4, <3>5
  <2> QED BY <2>1, <2>2
<1> QED BY <1>2, HopelessKept, StoreSteps DEF HopelessInv

\* Every step gives up only what is hopeless.
LEMMA OnlyHopelessKept ==
  ASSUME Settled, SyncInv, QueueInv, HopelessInv, Unchanging', [SyncNext]_syncVars
  PROVE  OnlyHopelessRejected'
<1>1. /\ outbox \in [Devices -> SUBSET RowOver(recorded)]
      /\ engine \in [Engines -> EngineOver(recorded)]
      /\ recorded \subseteq Changes /\ \A r, s \in recorded : r.id = s.id => r = s
  BY DEF SyncInv, OnlyRecorded
<1> SUFFICES ASSUME NEW d \in Devices, NEW o \in outbox'[d], o.status = "rejected"
             PROVE  Hopeless(o.change)'
  BY DEF OnlyHopelessRejected, Hopeless, ValidChange, KnownEdition
<1>2. ASSUME NEW c \in Changes, Hopeless(c)
      PROVE  Hopeless(c)'
  BY <1>2, HopelessKept, StoreSteps DEF HopelessInv
<1>3. ASSUME NEW q \in outbox[d], q.status = "rejected"
      PROVE  Hopeless(q.change) /\ q.change \in Changes
  BY <1>1, <1>3 DEF HopelessInv, OnlyHopelessRejected, Hopeless, RowOver
<1>4. CASE \E q \in outbox[d] : q.status = "rejected" /\ q.change = o.change
  BY <1>2, <1>3, <1>4
<1>5. CASE \E e \in Engines : Reject(e)
  <2>1. PICK e \in Engines : Reject(e)
    BY <1>5
  <2>2. outbox' = [outbox EXCEPT ![EngineDevice[e]] =
                     Rejected(outbox[EngineDevice[e]], engine[e].batch)]
    BY <2>1 DEF Reject
  <2>3. CASE d = EngineDevice[e]
    <3>1. o \in Rejected(outbox[d], engine[e].batch)
      BY <1>1, <2>2, <2>3
    <3>2. PICK q \in outbox[d] : o = Marked(q, engine[e].batch)
      BY <3>1 DEF Rejected, Marked, IdsOf
    <3>3. q \in RowOver(recorded)
      BY <1>1
    <3>4. o.change = q.change
      BY <3>2, <3>3 DEF Marked, RowOver
    <3>5. CASE q.status = "rejected"
      BY <1>4, <3>4, <3>5
    <3>6. CASE q.status /= "rejected"
      <4>1. q.change.id \in IdsOf(engine[e].batch)
        BY <3>2, <3>6 DEF Marked
      <4>2. PICK i \in 1 .. Len(engine[e].batch) : engine[e].batch[i].id = q.change.id
        BY <4>1 DEF IdsOf
      <4>3. engine[e].batch[i] \in recorded /\ q.change \in recorded
        BY <1>1, <3>3 DEF EngineOver, RowOver
      <4>4. engine[e].batch[i] = q.change
        BY <1>1, <4>2, <4>3
      <4>5. Len(engine[e].batch) <= 1
        <5>1. engine[e].pc = "wait" /\ (engine[e].single \/ Len(engine[e].batch) <= 1)
          BY <2>1 DEF Reject, Refused
        <5>2. engine[e].single => Len(engine[e].batch) = 1
          BY <5>1 DEF QueueInv, OldestFirst, Orderly
        <5>3. CASE engine[e].single
          <6>1. Len(engine[e].batch) = 1
            BY <5>2, <5>3, Zenon
          <6> QED BY <6>1
        <5>4. CASE ~engine[e].single
          BY <5>1, <5>4, Zenon
        <5> QED BY <5>3, <5>4
      <4>6. reply[e].status \in Refusals
        BY <2>1 DEF Reject, Refused, Refusals
      <4>7. q.change \in Changes
        BY <1>1, <4>3
      <4>8. Hopeless(q.change)
        BY <4>4, <4>5, <4>6, <4>7 DEF HopelessInv, RefusedAreHopeless
      <4> QED BY <1>2, <3>4, <4>7, <4>8
    <3> QED BY <3>5, <3>6
  <2>4. CASE d /= EngineDevice[e]
    BY <1>1, <1>4, <2>2, <2>4
  <2> QED BY <2>3, <2>4
<1>6. CASE \E k \in Devices, c \in Changes : Record(k, c)
  <2>1. PICK k \in Devices, c \in Changes : Record(k, c)
    BY <1>6
  <2> DEFINE row == [seq |-> Cardinality(recorded), change |-> c, status |-> "pending"]
  <2>2. outbox' = [outbox EXCEPT ![k] = outbox[k] \cup {row}]
    BY <2>1 DEF Record
  <2>3. row.status = "pending"
    OBVIOUS
  <2> HIDE DEF row
  <2>4. o \in outbox[d]
    BY <1>1, <2>2, <2>3
  <2> QED BY <1>4, <2>4
<1>7. CASE \/ \E e \in Engines : Applied(e)
           \/ \E k \in Devices : Clear(k)
           \/ UNCHANGED <<outbox, position, recorded>>
  <2>1. o \in outbox[d]
    BY <1>1, <1>7 DEF Applied, ApplySync, Clear
  <2> QED BY <1>4, <2>1
<1> QED BY <1>5, <1>6, <1>7, OutboxSteps

\* Nothing is hopeless before anything is sent.
LEMMA InitHopeless == SyncInit => HopelessInv
<1> SUFFICES ASSUME SyncInit PROVE HopelessInv
  OBVIOUS
<1>1. LogRecorded /\ OnlyHopelessRejected
  BY DEF SyncInit, StoreInit, LogRecorded, OnlyHopelessRejected
<1>2. Unchanging
  BY StoreAssumption DEF SyncInit, StoreInit, Unchanging, StoreAssumption
<1>3. RefusedAreHopeless
  BY SyncAssumption DEF SyncAssumption, SyncInit, StoreInit, RefusedAreHopeless, NoReply,
                        Answer, Refusals
<1> QED BY <1>1, <1>2, <1>3 DEF HopelessInv

\* The four parts together are inductive.
LEMMA HopelessStep ==
  ASSUME Settled, SyncInv, QueueInv, HopelessInv, [SyncNext]_syncVars
  PROVE  HopelessInv'
<1>1. recorded \subseteq recorded'
  BY OutboxSteps DEF Record, Applied, Reject, Clear, historyVars
<1>2. LogRecorded'
  BY <1>1, LogRecordedKept DEF HopelessInv
<1>3. Unchanging'
  BY UnchangingKept DEF HopelessInv
<1>4. RefusedAreHopeless' /\ OnlyHopelessRejected'
  BY <1>3, RefusedKept, OnlyHopelessKept
<1> QED BY <1>2, <1>3, <1>4 DEF HopelessInv

\* PermanentSyncError: "A rejected server request that will never succeed as
\* written".  When releases and access stay as they are and no event is ahead of
\* a clock that will reach it, a good event is never rejected for the company it
\* was sent in: isolate finds the bad ones.
THEOREM SyncOnlyHopelessRejected ==
  ASSUME Settled
  PROVE  SyncSpec => []OnlyHopelessRejected
<1>1. SyncInit => HopelessInv
  BY InitHopeless
<1>2. SyncInv /\ QueueInv /\ HopelessInv /\ [SyncNext]_syncVars => HopelessInv'
  BY HopelessStep
<1>3. HopelessInv => OnlyHopelessRejected
  BY DEF HopelessInv
<1> QED BY <1>1, <1>2, <1>3, SyncInvariant, QueueInvariant, PTL DEF SyncSpec

-----------------------------------------------------------------------------
(* Calm: nothing is refused. *)

Still == editions = Editions /\ signOuts = 0 /\ \A d \in Devices : session[d] = "in"

NeverRefused ==
  \A e \in Engines : /\ ~engine[e].single /\ Len(engine[e].batch) <= BatchSize
                     /\ reply[e].status \notin Refusals

CalmInv == QueueInv /\ HopelessInv /\ Still /\ NeverRefused

\* A calm history is settled.
LEMMA CalmSettled == Calm => Settled
BY StoreAssumption, SyncAssumption DEF StoreAssumption, SyncAssumption, Calm, Settled

\* Nothing an administrator or a sign-out would change changes.
LEMMA StillKept ==
  ASSUME Calm, SyncInv, Still, [SyncNext]_syncVars
  PROVE  Still'
<1>1. editions' = editions
  <2>1. CASE Administer
    BY <2>1 DEF Calm, Administer, Tick
  <2>2. CASE ~Administer
    BY <2>2 DEF SyncNext, EngineStep, StartRun, ReadOutbox, OutOfPages, Send, SendSignedOut, Applied,
         Check, StartIsolating, Reject, Refused, ServerFailed, Record, Fail, TakeReply, Receive,
         Request, RefuseSync, BeginSync, RefuseVersion, ServerStep, ServerAbort, Handle,
         RecordNew, RecordDuplicate, RecordConflict, RecordUnknown, RecordWrongFormat,
         CommitSync, CommitWithoutRow, Abort, Rollback, Advance,
         DropReply, UpdateServer, UpdateApp,
         SignOut, Clear, Expire, SignIn, syncVars, storeVars
  <2> QED BY <2>1, <2>2
<1>2. signOuts' = signOuts /\ session' = session
  <2>1. \A d \in Devices : ~SignOut(d) /\ ~Clear(d) /\ ~Expire(d) /\ ~SignIn(d)
    BY DEF Still, Calm, SignOut, Clear, Expire, SignIn
  <2> QED BY <2>1 DEF SyncNext, EngineStep, StartRun, ReadOutbox, OutOfPages, Send,
         SendSignedOut, Applied, Check, StartIsolating, Reject, ServerFailed, Record, Fail,
         Receive, ServerStep, ServerAbort, DropReply, Administer, UpdateServer, UpdateApp,
         syncVars, deviceVars, historyVars
<1> QED BY <1>1, <1>2 DEF Still

\* The server takes every event.
LEMMA CalmHopeful ==
  ASSUME Calm, Still, Unchanging, NEW c \in Changes
  PROVE  ~Hopeless(c)
<1>1. c.form = "good" /\ EditionBook[c.edition] = c.book /\ ~AheadOfClock(c, 0)
  BY DEF Calm
<1>2. /\ c.at.sec \in Nat /\ c.at.frac \in Nat /\ MaxFutureClockSkew \in Nat /\ now \in Nat
      /\ c.edition \in editions /\ c.book \in visible
  BY ChangeType, StoreAssumption DEF StoreAssumption, Instant, Still, Unchanging
<1>3. ~AheadOfClock(c, now)
  BY <1>1, <1>2 DEF AheadOfClock, Later
<1> QED BY <1>1, <1>2, <1>3 DEF Hopeless, ValidChange, KnownEdition, AheadOfClock

\* Where an engine goes when nothing is refused.
LEMMA EngineFlow ==
  ASSUME SyncInv, NeverRefused, [SyncNext]_syncVars, NEW e \in Engines
  PROVE  \/ engine'[e] = engine[e]
         \/ /\ engine'[e].pc \notin {"send", "wait"}
            /\ engine'[e].batch = <<>> /\ ~engine'[e].single
         \/ \E batch \in Batches :
              /\ ReadOutbox(e, batch)
              /\ engine'[e].batch = batch /\ ~engine'[e].single
         \/ /\ Send(e) /\ engine[e].pc = "send"
            /\ engine'[e].pc = "wait" /\ engine'[e].batch = engine[e].batch
            /\ engine'[e].single = engine[e].single
<1>1. engine \in [Engines -> EngineOver(recorded)]
  BY DEF SyncInv, OnlyRecorded
<1>2. CASE \E f \in Engines \ {e} : \/ StartRun(f) \/ EngineStep(f)
                                    \/ \E late \in BOOLEAN : Fail(f, late)
  <2>1. PICK f \in Engines \ {e} : \E next : engine' = [engine EXCEPT ![f] = next]
    BY <1>2 DEF EngineStep, StartRun, ReadOutbox, OutOfPages, Send, SendSignedOut, Applied,
                Check, StartIsolating, Reject, ServerFailed, Fail, Goto
  <2> QED BY <1>1, <2>1
<1>3. CASE engine' = engine
  BY <1>3
<1>4. /\ IdleEngine.pc \notin {"send", "wait"} /\ IdleEngine.batch = <<>> /\ ~IdleEngine.single
      /\ \A pc \in {"page", "check"} : /\ Loop(e, pc).pc \notin {"send", "wait"}
                                       /\ Loop(e, pc).batch = <<>> /\ ~Loop(e, pc).single
  BY DEF IdleEngine, Loop
<1>5. ASSUME NEW next, Goto(e, next),
             next.pc \notin {"send", "wait"} /\ next.batch = <<>> /\ ~next.single
      PROVE  /\ engine'[e].pc \notin {"send", "wait"}
             /\ engine'[e].batch = <<>> /\ ~engine'[e].single
  BY <1>1, <1>5 DEF Goto
<1>6. CASE StartRun(e) \/ Check(e)
  BY <1>4, <1>5, <1>6 DEF StartRun, Check
<1>7. CASE OutOfPages(e) \/ SendSignedOut(e) \/ ServerFailed(e) \/ \E late \in BOOLEAN : Fail(e, late)
  BY <1>4, <1>5, <1>7 DEF OutOfPages, SendSignedOut, ServerFailed, Fail
<1>8. CASE Applied(e)
  <2>1. Goto(e, AfterPage(e, reply[e]))
    BY <1>8 DEF Applied, NeverRefused
  <2>2. \/ AfterPage(e, reply[e]) = IdleEngine
        \/ \E pc \in {"page", "check"} : AfterPage(e, reply[e]) = Loop(e, pc)
    BY DEF AfterPage
  <2> QED BY <1>4, <1>5, <2>1, <2>2
<1>9. CASE Reject(e) \/ StartIsolating(e)
  BY <1>9 DEF Reject, StartIsolating, Refused, NeverRefused, Refusals
<1>10. CASE \E batch \in Batches : ReadOutbox(e, batch)
  <2>1. PICK batch \in Batches : ReadOutbox(e, batch)
    BY <1>10
  <2> DEFINE next == [pc |-> "send", pages |-> engine[e].pages + 1, batch |-> batch,
                      rest |-> <<>>, single |-> FALSE]
  <2>2. engine'[e] = next
    BY <1>1, <2>1 DEF ReadOutbox, Goto
  <2>3. next.batch = batch /\ ~next.single
    OBVIOUS
  <2> QED BY <2>1, <2>2, <2>3
<1>11. CASE Send(e)
  <2>1. engine[e].pc = "send" /\ engine'[e] = [engine[e] EXCEPT !.pc = "wait"]
    BY <1>1, <1>11 DEF Send, Goto
  <2>2. engine[e] \in EngineOver(recorded)
    BY <1>1
  <2>3. /\ engine'[e].pc = "wait" /\ engine'[e].batch = engine[e].batch
        /\ engine'[e].single = engine[e].single
    BY <2>1, <2>2 DEF EngineOver
  <2> QED BY <1>11, <2>1, <2>3
<1>12. CASE \E f \in Engines : StartRun(f) \/ EngineStep(f)
  <2>1. PICK f \in Engines : StartRun(f) \/ EngineStep(f)
    BY <1>12
  <2>2. CASE f /= e
    <3>1. f \in Engines \ {e}
      BY <2>2
    <3> QED BY <1>2, <2>1, <3>1
  <2>3. CASE f = e
    BY <1>6, <1>7, <1>8, <1>9, <1>10, <1>11, <2>1, <2>3 DEF EngineStep
  <2> QED BY <2>2, <2>3
<1>13. CASE \E f \in Engines, late \in BOOLEAN : Fail(f, late)
  BY <1>2, <1>7, <1>13
<1>14. CASE ~\/ \E f \in Engines : StartRun(f) \/ EngineStep(f)
             \/ \E f \in Engines, late \in BOOLEAN : Fail(f, late)
  <2>1. engine' = engine
    BY <1>14 DEF SyncNext, Record, Receive, ServerStep, ServerAbort, DropReply, Administer,
                UpdateServer, UpdateApp, SignOut, Clear, Expire, SignIn, syncVars
  <2> QED BY <1>3, <2>1
<1> QED BY <1>12, <1>13, <1>14

\* Every step keeps the server from refusing, and engines from isolating.
LEMMA NeverRefusedKept ==
  ASSUME Calm, SyncInv, CalmInv, [SyncNext]_syncVars
  PROVE  NeverRefused'
<1> SUFFICES ASSUME NEW e \in Engines
             PROVE  /\ ~engine'[e].single /\ Len(engine'[e].batch) <= BatchSize
                    /\ reply'[e].status \notin Refusals
  BY DEF NeverRefused
<1>1. /\ ~engine[e].single /\ Len(engine[e].batch) <= BatchSize /\ reply[e].status \notin Refusals
      /\ BatchSize \in Nat /\ MaxBatchSize \in Nat /\ BatchSize <= MaxBatchSize
      /\ engine[e].batch \in Seq(recorded) /\ Len(engine[e].batch) \in Nat
  BY StoreAssumption, SyncAssumption DEF StoreAssumption, SyncAssumption, Calm, CalmInv,
     NeverRefused, SyncInv, OnlyRecorded, EngineOver
<1>2. reply'[e].status \notin Refusals
  <2> SUFFICES ASSUME reply'[e].status \in Refusals PROVE FALSE
    OBVIOUS
  <2>1. \/ Len(engine[e].batch) > MaxBatchSize
        \/ \E i \in 1 .. Len(engine[e].batch) : Hopeless(engine[e].batch[i])
    BY <1>1, RefusalFlow DEF CalmInv, QueueInv, HopelessInv
  <2>2. PICK i \in 1 .. Len(engine[e].batch) : Hopeless(engine[e].batch[i])
    BY <1>1, <2>1
  <2>3. engine[e].batch[i] \in Changes
    BY <1>1 DEF SyncInv, OnlyRecorded
  <2> QED BY <2>2, <2>3, CalmHopeful DEF CalmInv, HopelessInv
<1>3. ~engine'[e].single /\ Len(engine'[e].batch) <= BatchSize
  <2>1. CASE engine'[e].batch = <<>> /\ ~engine'[e].single
    BY <1>1, <2>1
  <2>2. CASE \E batch \in Batches : /\ ReadOutbox(e, batch)
                                    /\ engine'[e].batch = batch /\ ~engine'[e].single
    <3>1. PICK batch \in Batches : /\ ReadOutbox(e, batch)
                                   /\ engine'[e].batch = batch /\ ~engine'[e].single
      BY <2>2
    <3>2. EngineDevice[e] \in Devices
      BY SyncAssumption DEF SyncAssumption
    <3>3. Cardinality(Pending(EngineDevice[e])) \in Nat
      BY <3>2, RankOrder DEF CalmInv, QueueInv
    <3>4. Len(batch) <= BatchSize
      BY <1>1, <3>1, <3>3 DEF ReadOutbox, OldestPending
    <3> QED BY <3>1, <3>4
  <2>3. CASE engine'[e].batch = engine[e].batch /\ engine'[e].single = engine[e].single
    BY <1>1, <2>3, Zenon
  <2> QED BY <2>1, <2>2, <2>3, EngineFlow DEF CalmInv
<1> QED BY <1>2, <1>3

\* The invariant of a calm history.
LEMMA CalmInvKept ==
  ASSUME Calm, SyncInv, CalmInv, [SyncNext]_syncVars
  PROVE  CalmInv'
<1>1. Settled
  BY CalmSettled
<1>2. QueueInv'
  BY QueueInvariantSteps DEF CalmInv
<1>3. HopelessInv'
  BY <1>1, HopelessStep DEF CalmInv
<1> QED BY <1>2, <1>3, StillKept, NeverRefusedKept DEF CalmInv

-----------------------------------------------------------------------------
(* What was sent is sent again. *)

InLog(c) == \E ev \in db.events : ev.change = c

\* The event has left its device, wherever it is.
Sent(c) ==
  \/ InLog(c)
  \/ \E t \in tx : \/ \E i \in 1 .. Len(t.todo) : t.todo[i] = c
                   \/ \E ev \in t.db.events : ev.change = c
  \/ \E m \in requests : \E i \in 1 .. Len(m.changes) : m.changes[i] = c

InBatch(e, c) == \E i \in 1 .. Len(engine[e].batch) : engine[e].batch[i] = c

Busy(e) == engine[e].pc \in {"send", "wait"}

\* No two devices queue one event, and engines send their own device's.
Owned ==
  /\ \A d, k \in Devices : d /= k =>
       \A o \in outbox[d], q \in outbox[k] : o.change /= q.change
  /\ \A e \in Engines, d \in Devices : d /= EngineDevice[e] =>
       \A o \in outbox[d] : ~InBatch(e, o.change)

\* On a device that runs one engine, an event that was sent and is still
\* pending is among the oldest that fit a batch, and in the batch being sent.
SentInBatch ==
  \A e \in Engines : Alone(EngineDevice[e]) =>
    \A o \in Pending(EngineDevice[e]) :
      /\ Sent(o.change) \/ (Busy(e) /\ InBatch(e, o.change)) =>
           Rank(EngineDevice[e], o) <= BatchSize
      /\ Sent(o.change) /\ Busy(e) => InBatch(e, o.change)

\* The rest of a sequence holds nothing new.
LEMMA TailOf ==
  ASSUME NEW S, NEW s \in Seq(S), s /= <<>>
  PROVE  \A i \in 1 .. Len(Tail(s)) : \E j \in 1 .. Len(s) : Tail(s)[i] = s[j]
<1>1. /\ Len(s) \in Nat /\ Len(Tail(s)) = Len(s) - 1
      /\ \A i \in 1 .. Len(s) - 1 : Tail(s)[i] = s[i + 1]
  OBVIOUS
<1> SUFFICES ASSUME NEW i \in 1 .. Len(Tail(s)) PROVE \E j \in 1 .. Len(s) : Tail(s)[i] = s[j]
  OBVIOUS
<1>2. i + 1 \in 1 .. Len(s) /\ Tail(s)[i] = s[i + 1]
  BY <1>1
<1> QED BY <1>2

\* A batch that is read holds pending events only, each at its place, and all
\* whose place fits.
LEMMA BatchRead ==
  ASSUME SyncInv, QueueKeys, NEW d \in Devices, NEW batch \in Seq(recorded),
         OldestPending(d, batch)
  PROVE  /\ \A i \in 1 .. Len(batch) : \E p \in Pending(d) : p.change = batch[i] /\ Rank(d, p) = i
         /\ Len(batch) <= BatchSize
         /\ \A o \in Pending(d) : Rank(d, o) <= BatchSize =>
              \E i \in 1 .. Len(batch) : batch[i] = o.change
<1>1. \A i \in 1 .. Len(batch) : \E p \in Pending(d) : p.change = batch[i] /\ Rank(d, p) = i
  BY DEF OldestPending, Rank
<1> DEFINE n == Cardinality(Pending(d))
<1>2. /\ n \in Nat /\ BatchSize \in Nat
      /\ \A o \in Pending(d) : Rank(d, o) \in 1 .. n
      /\ \A o, q \in Pending(d) : Rank(d, o) = Rank(d, q) => o = q
  BY RankOrder, SyncAssumption DEF SyncAssumption
<1>3. Len(batch) = IF n < BatchSize THEN n ELSE BatchSize
  BY DEF OldestPending
<1> HIDE DEF n
<1>4. ASSUME NEW o \in Pending(d), Rank(d, o) <= BatchSize
      PROVE  \E i \in 1 .. Len(batch) : batch[i] = o.change
  <2>1. Rank(d, o) \in 1 .. Len(batch)
    BY <1>2, <1>3, <1>4
  <2>2. PICK p \in Pending(d) : p.change = batch[Rank(d, o)] /\ Rank(d, p) = Rank(d, o)
    BY <1>1, <2>1
  <2>3. p = o
    BY <1>2, <2>2
  <2> QED BY <2>1, <2>2, <2>3
<1> QED BY <1>1, <1>2, <1>3, <1>4

\* Every step keeps events to their devices.
LEMMA OwnedKept ==
  ASSUME SyncInv, CalmInv, Owned, [SyncNext]_syncVars
  PROVE  Owned'
<1>1. /\ outbox \in [Devices -> SUBSET RowOver(recorded)] /\ recorded \subseteq Changes
      /\ \A e \in Engines : engine[e].batch \in Seq(recorded) /\ EngineDevice[e] \in Devices
  BY SyncAssumption DEF SyncAssumption, SyncInv, OnlyRecorded, EngineOver
<1>2. CASE \E d \in Devices, c \in Changes : Record(d, c)
  <2>1. PICK d \in Devices, c \in Changes : Record(d, c)
    BY <1>2
  <2> DEFINE row == [seq |-> Cardinality(recorded), change |-> c, status |-> "pending"]
  <2>2. outbox' = [outbox EXCEPT ![d] = outbox[d] \cup {row}] /\ engine' = engine
    BY <2>1 DEF Record
  <2>3. c \notin recorded /\ row.change = c
    BY <2>1 DEF Record
  <2> HIDE DEF row
  <2>4. ASSUME NEW k \in Devices, NEW o \in outbox'[k]
        PROVE  o \in outbox[k] \/ (k = d /\ o.change = c)
    BY <1>1, <2>2, <2>3
  <2>5. \A k \in Devices : \A o \in outbox[k] : o.change \in recorded
    BY <1>1 DEF RowOver
  <2>6. ASSUME NEW e \in Engines PROVE ~InBatch(e, c)
    BY <1>1, <2>3 DEF InBatch
  <2>7. \A k, l \in Devices : k /= l =>
          \A o \in outbox'[k], q \in outbox'[l] : o.change /= q.change
    BY <2>3, <2>4, <2>5 DEF Owned
  <2>8. \A e \in Engines, k \in Devices : k /= EngineDevice[e] =>
          \A o \in outbox'[k] : ~InBatch(e, o.change)
    BY <2>4, <2>6 DEF Owned
  <2>9. \A e \in Engines : \A b : InBatch(e, b)' <=> InBatch(e, b)
    BY <2>2 DEF InBatch
  <2> QED BY <2>7, <2>8, <2>9 DEF Owned
<1>3. CASE ~\E d \in Devices, c \in Changes : Record(d, c)
  <2>1. ASSUME NEW k \in Devices, NEW o \in outbox'[k]
        PROVE  \E r \in outbox[k] : r.change = o.change
    BY <1>3, RowsShrink
  <2>2. ASSUME NEW k \in Devices, NEW l \in Devices, k /= l,
               NEW o \in outbox'[k], NEW q \in outbox'[l]
        PROVE  o.change /= q.change
    BY <2>1, <2>2 DEF Owned
  <2>3. ASSUME NEW e \in Engines, NEW k \in Devices, k /= EngineDevice[e],
               NEW o \in outbox'[k], InBatch(e, o.change)'
        PROVE  FALSE
    <3>1. PICK r \in outbox[k] : r.change = o.change
      BY <2>1
    <3>2. PICK i \in 1 .. Len(engine'[e].batch) : engine'[e].batch[i] = o.change
      BY <2>3 DEF InBatch
    <3>3. CASE engine'[e].batch = engine[e].batch
      BY <2>3, <3>1, <3>2, <3>3 DEF Owned, InBatch
    <3>4. CASE engine'[e].batch = <<>>
      BY <3>2, <3>4
    <3>5. CASE \E batch \in Batches : ReadOutbox(e, batch) /\ engine'[e].batch = batch
      <4>1. PICK batch \in Batches : ReadOutbox(e, batch) /\ engine'[e].batch = batch
        BY <3>5
      <4>2. PICK p \in outbox[EngineDevice[e]] : p.change = batch[i]
        BY <3>2, <4>1 DEF ReadOutbox, OldestPending, Pending
      <4> QED BY <1>1, <2>3, <3>1, <3>2, <4>1, <4>2 DEF Owned
    <3> QED BY <3>3, <3>4, <3>5, EngineFlow DEF CalmInv
  <2> QED BY <2>2, <2>3 DEF Owned
<1> QED BY <1>2, <1>3

\* Recording a change brings nothing in.
LEMMA SentAdvances ==
  ASSUME SyncInv, NEW t \in tx, t.todo /= <<>>, NEW f, NEW ack, Advance(t, f, ack),
         \A ev \in f.events : ev \in t.db.events \/ ev.change = Head(t.todo),
         NEW c,
         InLog(c)' \/ \E u \in tx' : \/ \E i \in 1 .. Len(u.todo) : u.todo[i] = c
                                   \/ \E ev \in u.db.events : ev.change = c
  PROVE  Sent(c)
<1>1. /\ db' = db
      /\ \A u \in tx' : u.db = f /\ u.todo = Tail(t.todo)
  BY DEF Advance
<1>2. t.todo \in Seq(recorded)
  BY DEF SyncInv, OnlyRecorded
<1>3. Head(t.todo) = t.todo[1] /\ 1 \in 1 .. Len(t.todo)
  BY <1>2
<1>4. \A i \in 1 .. Len(Tail(t.todo)) : \E j \in 1 .. Len(t.todo) : Tail(t.todo)[i] = t.todo[j]
  BY <1>2, TailOf
<1>5. CASE InLog(c)'
  BY <1>1, <1>5 DEF Sent, InLog
<1>6. CASE \E u \in tx' : \E i \in 1 .. Len(u.todo) : u.todo[i] = c
  <2>1. PICK i \in 1 .. Len(Tail(t.todo)) : Tail(t.todo)[i] = c
    BY <1>1, <1>6
  <2> QED BY <1>4, <2>1 DEF Sent
<1>7. CASE \E u \in tx' : \E ev \in u.db.events : ev.change = c
  <2>1. PICK ev \in f.events : ev.change = c
    BY <1>1, <1>7
  <2> QED BY <1>3, <2>1 DEF Sent
<1> QED BY <1>5, <1>6, <1>7

\* An event is sent by an engine that has it in its batch.
LEMMA SentFlow ==
  ASSUME SyncInv, [SyncNext]_syncVars, NEW c, Sent(c)'
  PROVE  Sent(c) \/ \E e \in Engines : Send(e) /\ InBatch(e, c)
<1>1. CASE \E m \in requests' : \E i \in 1 .. Len(m.changes) : m.changes[i] = c
  <2>1. PICK m \in requests' : \E i \in 1 .. Len(m.changes) : m.changes[i] = c
    BY <1>1
  <2>2. \/ \E n \in requests : m.changes = n.changes
        \/ \E e \in Engines : Send(e) /\ m.changes = engine[e].batch
    BY RequestFlow
  <2> QED BY <2>1, <2>2 DEF Sent, InBatch
<1>2. StoreStep
  BY StoreSteps
<1>3. ASSUME InLog(c)' \/ \E t \in tx' : \/ \E i \in 1 .. Len(t.todo) : t.todo[i] = c
                                        \/ \E ev \in t.db.events : ev.change = c
      PROVE  Sent(c)
  <2>1. CASE \E t \in tx : RecordNew(t)
    <3>1. PICK t \in tx : RecordNew(t)
      BY <2>1
    <3> DEFINE f == RecordChange(t.db, Head(t.todo))
    <3>2. PICK ack : Advance(t, f, ack)
      BY <3>1 DEF RecordNew
    <3>3. \A ev \in f.events : ev \in t.db.events \/ ev.change = Head(t.todo)
      BY DEF RecordChange
    <3>4. t.todo /= <<>>
      BY <3>1 DEF RecordNew
    <3> HIDE DEF f
    <3> QED BY <1>3, <3>2, <3>3, <3>4, SentAdvances
  <2>2. CASE \E t \in tx : RecordDuplicate(t)
    <3>1. PICK t \in tx : RecordDuplicate(t)
      BY <2>2
    <3>2. PICK ack : Advance(t, t.db, ack)
      BY <3>1 DEF RecordDuplicate
    <3>3. t.todo /= <<>>
      BY <3>1 DEF RecordDuplicate
    <3> QED BY <1>3, <3>2, <3>3, SentAdvances
  <2>3. CASE \E t \in tx : \/ RecordConflict(t) \/ RecordUnknown(t) \/ RecordWrongFormat(t)
                           \/ CommitSync(t) \/ CommitWithoutRow(t) \/ Abort(t)
    BY <1>3, <2>3 DEF Sent, InLog, RecordConflict, RecordUnknown, RecordWrongFormat, CommitSync,
                CommitWithoutRow, Abort, Rollback
  <2>4. CASE \E m \in requests : Receive(m)
    <3>1. PICK m \in requests : Receive(m)
      BY <2>4
    <3>2. db' = db
      BY <3>1 DEF Receive, Request, RefuseSync, BeginSync, RefuseVersion
    <3>3. \A t \in tx' : t \in tx \/ (t.todo = m.changes /\ t.db = db)
      BY <3>1 DEF Receive, Request, RefuseSync, BeginSync, RefuseVersion
    <3> QED BY <1>3, <3>2, <3>3 DEF Sent, InLog
  <2>5. CASE tx' = tx /\ db' = db
    BY <1>3, <2>5 DEF Sent, InLog
  <2>6. CASE Administer
    BY <1>3, <2>6 DEF Sent, InLog, Administer, SetVisible, RemoveEditions, Tick
  <2>7. \/ \E m \in requests : Receive(m)
        \/ ServerStep \/ ServerAbort \/ Administer
        \/ tx' = tx /\ db' = db
    BY DEF SyncNext, EngineStep, StartRun, ReadOutbox, OutOfPages, Send, SendSignedOut, Applied,
         Check, StartIsolating, Reject, Refused, ServerFailed, Record, Fail, TakeReply,
         DropReply, UpdateServer, UpdateApp, SignOut, Clear, Expire, SignIn, syncVars, storeVars
  <2> QED BY <2>1, <2>2, <2>3, <2>4, <2>5, <2>6, <2>7 DEF ServerStep, ServerAbort, Handle
<1> QED BY <1>1, <1>3 DEF Sent

\* What is sent was recorded.
LEMMA SentRecorded ==
  ASSUME SyncInv, LogRecorded, NEW c, Sent(c)
  PROVE  c \in recorded
BY DEF Sent, InLog, LogRecorded, SyncInv, OnlyRecorded, MessageOver

\* When nothing is refused, an outbox only loses rows, but for what is recorded.
LEMMA OutboxShrinks ==
  ASSUME SyncInv, CalmInv, [SyncNext]_syncVars, NEW k \in Devices,
         ~\E d \in Devices, c \in Changes : Record(d, c)
  PROVE  outbox'[k] \subseteq outbox[k]
<1>1. outbox \in [Devices -> SUBSET RowOver(recorded)]
  BY DEF SyncInv, OnlyRecorded
<1>2. \A e \in Engines : ~Reject(e)
  BY DEF Reject, Refused, CalmInv, NeverRefused, Refusals
<1> QED BY <1>1, <1>2, OutboxSteps DEF Applied, ApplySync, Clear

\* A new event takes its place behind the others, and the others move up.
LEMMA RankKept ==
  ASSUME SyncInv, CalmInv, [SyncNext]_syncVars, NEW d \in Devices,
         NEW o \in Pending(d), o \in Pending(d)'
  PROVE  /\ Rank(d, o) \in Nat /\ Rank(d, o)' \in Nat
         /\ Rank(d, o)' <= Rank(d, o)
<1>1. /\ outbox \in [Devices -> SUBSET RowOver(recorded)]
      /\ o \in outbox[d] /\ o.seq \in Nat /\ o.seq < Cardinality(recorded)
      /\ IsFiniteSet(Pending(d)) /\ Cardinality(recorded) \in Nat
  BY RankOrder, FS_CardinalityType DEF CalmInv, QueueInv, QueueKeys, Pending, SyncInv, OnlyRecorded
<1> DEFINE Now == {p \in Pending(d) : p.seq <= o.seq}
           Next == {p \in Pending(d)' : p.seq <= o.seq}
<1>2. Next \subseteq Now
  <2>1. CASE \E k \in Devices, c \in Changes : Record(k, c)
    <3>1. PICK k \in Devices, c \in Changes : Record(k, c)
      BY <2>1
    <3> DEFINE row == [seq |-> Cardinality(recorded), change |-> c, status |-> "pending"]
    <3>2. outbox' = [outbox EXCEPT ![k] = outbox[k] \cup {row}]
      BY <3>1 DEF Record
    <3>3. row.seq = Cardinality(recorded)
      OBVIOUS
    <3> HIDE DEF row
    <3>4. ~(row.seq <= o.seq)
      BY <1>1, <3>3
    <3>5. \A p \in outbox'[d] : p \in outbox[d] \/ p = row
      BY <1>1, <3>2
    <3> QED BY <3>4, <3>5 DEF Pending
  <2>2. CASE ~\E k \in Devices, c \in Changes : Record(k, c)
    <3>1. outbox'[d] \subseteq outbox[d]
      BY <2>2, OutboxShrinks
    <3> QED BY <3>1 DEF Pending
  <2> QED BY <2>1, <2>2
<1>3. IsFiniteSet(Now)
  <2>1. Now \subseteq Pending(d)
    OBVIOUS
  <2> QED BY <1>1, <2>1, FS_Subset
<1>4. IsFiniteSet(Next) /\ Cardinality(Next) <= Cardinality(Now)
  <2> HIDE DEF Now, Next
  <2> QED BY <1>2, <1>3, FS_Subset
<1>5. Cardinality(Now) \in Nat /\ Cardinality(Next) \in Nat
  BY <1>3, <1>4, FS_CardinalityType
<1>6. Rank(d, o) = Cardinality(Now) /\ Rank(d, o)' = Cardinality(Next)
  BY DEF Rank
<1> HIDE DEF Now, Next
<1> QED BY <1>4, <1>5, <1>6

\* What a device has pending is sent by its own engine.
LEMMA SentByOwn ==
  ASSUME SyncInv, CalmInv, Owned, [SyncNext]_syncVars,
         NEW e \in Engines, Alone(EngineDevice[e]), NEW o \in Pending(EngineDevice[e]),
         Sent(o.change)'
  PROVE  Sent(o.change) \/ (Send(e) /\ InBatch(e, o.change))
<1>1. PICK f \in Engines : Sent(o.change) \/ (Send(f) /\ InBatch(f, o.change))
  BY SentFlow
<1>2. CASE EngineDevice[f] = EngineDevice[e]
  BY <1>1, <1>2 DEF Alone
<1>3. CASE EngineDevice[f] /= EngineDevice[e]
  BY <1>1, <1>3, SyncAssumption DEF SyncAssumption, Owned, Pending
<1> QED BY <1>2, <1>3

\* Sending and acknowledging keep the order of the queue, and so what a batch holds.
LEMMA SentInBatchKept ==
  ASSUME SyncInv, CalmInv, Owned, SentInBatch, [SyncNext]_syncVars
  PROVE  SentInBatch'
<1> SUFFICES ASSUME NEW e \in Engines, Alone(EngineDevice[e]), NEW o \in Pending(EngineDevice[e])'
             PROVE  /\ Sent(o.change)' \/ (Busy(e)' /\ InBatch(e, o.change)') =>
                         Rank(EngineDevice[e], o)' <= BatchSize
                    /\ Sent(o.change)' /\ Busy(e)' => InBatch(e, o.change)'
  BY DEF SentInBatch, Alone
<1> DEFINE d == EngineDevice[e]
<1>1. /\ d \in Devices /\ BatchSize \in Nat
      /\ outbox \in [Devices -> SUBSET RowOver(recorded)]
      /\ engine[e].batch \in Seq(recorded) /\ QueueKeys
  BY SyncAssumption DEF SyncAssumption, SyncInv, OnlyRecorded, EngineOver, CalmInv, QueueInv
<1>2. CASE o \notin Pending(d)
  <2>1. PICK k \in Devices, c \in Changes : Record(k, c)
    BY <1>1, <1>2, OutboxShrinks DEF Pending
  <2> DEFINE row == [seq |-> Cardinality(recorded), change |-> c, status |-> "pending"]
  <2>2. outbox' = [outbox EXCEPT ![k] = outbox[k] \cup {row}] /\ engine' = engine
    BY <2>1 DEF Record
  <2>3. c \notin recorded /\ row.change = c
    BY <2>1 DEF Record
  <2> HIDE DEF row
  <2>4. o = row
    BY <1>1, <1>2, <2>2 DEF Pending
  <2>5. \A f \in Engines : ~InBatch(f, c)
    BY <2>3 DEF InBatch, SyncInv, OnlyRecorded, EngineOver
  <2>6. ~InBatch(e, c)'
    BY <2>2, <2>5 DEF InBatch
  <2>7. ~Sent(c)'
    BY <2>3, <2>5, SentFlow, SentRecorded DEF CalmInv, HopelessInv
  <2> QED BY <2>3, <2>4, <2>6, <2>7
<1>3. CASE o \in Pending(d)
  <2>1. /\ Sent(o.change) \/ (Busy(e) /\ InBatch(e, o.change)) => Rank(d, o) <= BatchSize
        /\ Sent(o.change) /\ Busy(e) => InBatch(e, o.change)
    BY <1>3 DEF SentInBatch
  <2>2. Sent(o.change)' => Sent(o.change) \/ (Send(e) /\ InBatch(e, o.change))
    BY <1>3, SentByOwn
  <2>3. Rank(d, o) \in Nat /\ Rank(d, o)' \in Nat /\ Rank(d, o)' <= Rank(d, o)
    BY <1>1, <1>3, RankKept
  <2>4. Send(e) => Busy(e)
    BY DEF Send, Busy
  <2>5. CASE engine'[e] = engine[e]
    <3>1. (Busy(e)' <=> Busy(e)) /\ (InBatch(e, o.change)' <=> InBatch(e, o.change))
      BY <2>5 DEF Busy, InBatch
    <3> QED BY <1>1, <2>1, <2>2, <2>3, <2>4, <3>1
  <2>6. CASE engine'[e].pc \notin {"send", "wait"}
    <3>1. ~Busy(e)'
      BY <2>6 DEF Busy
    <3> QED BY <1>1, <2>1, <2>2, <2>3, <2>4, <3>1
  <2>7. CASE \E batch \in Batches : ReadOutbox(e, batch) /\ engine'[e].batch = batch
    <3>1. PICK batch \in Batches : ReadOutbox(e, batch) /\ engine'[e].batch = batch
      BY <2>7
    <3>2. ~Busy(e) /\ OldestPending(d, batch)
      BY <3>1 DEF ReadOutbox, Busy
    <3>3. batch \in Seq(recorded)
      BY <1>1, <3>2, BatchRecorded
    <3>4. /\ \A i \in 1 .. Len(batch) : \E p \in Pending(d) : p.change = batch[i] /\ Rank(d, p) = i
          /\ Len(batch) <= BatchSize
          /\ Rank(d, o) <= BatchSize => \E i \in 1 .. Len(batch) : batch[i] = o.change
      BY <1>1, <1>3, <3>2, <3>3, BatchRead
    <3>5. InBatch(e, o.change)' <=> \E i \in 1 .. Len(batch) : batch[i] = o.change
      BY <3>1 DEF InBatch
    <3>6. InBatch(e, o.change)' => Rank(d, o) <= BatchSize
      <4> SUFFICES ASSUME NEW i \in 1 .. Len(batch), batch[i] = o.change
                   PROVE  Rank(d, o) <= BatchSize
        BY <3>5
      <4>1. PICK p \in Pending(d) : p.change = batch[i] /\ Rank(d, p) = i
        BY <3>4
      <4>2. p = o
        BY <1>1, <1>3, <4>1 DEF Pending, QueueKeys
      <4>3. Len(batch) \in Nat /\ i \in Nat /\ i <= Len(batch)
        BY <3>3
      <4> QED BY <1>1, <3>4, <4>1, <4>2, <4>3
    <3>7. Sent(o.change)' => Rank(d, o) <= BatchSize
      BY <2>1, <2>2, <2>4, <3>2
    <3> QED BY <1>1, <2>3, <3>4, <3>5, <3>6, <3>7
  <2>8. CASE Send(e) /\ engine'[e].batch = engine[e].batch
    <3>1. InBatch(e, o.change)' <=> InBatch(e, o.change)
      BY <2>8 DEF InBatch
    <3> QED BY <1>1, <2>1, <2>2, <2>3, <2>4, <2>8, <3>1
  <2> QED BY <2>5, <2>6, <2>7, <2>8, EngineFlow DEF CalmInv
<1> QED BY <1>2, <1>3

-----------------------------------------------------------------------------
(* The log grows, and a page leaves nothing out. *)

\* What a transaction has added is newer than everything committed.
TxFresh ==
  \A t \in tx :
    /\ t.db.revision >= db.revision
    /\ \A p \in t.db.progress : p \in db.progress \/ p.rev > db.revision
    /\ \A ev \in t.db.events : ev \in db.events \/ ev.rev > db.revision

\* What a transaction adds to the log has a revision no cursor can have reached.
LEMMA TxFreshKept ==
  ASSUME SyncInv, StoreStep, TxFresh
  PROVE  TxFresh'
<1>1. db.revision \in Nat /\ \A t \in tx : t.db.revision \in Nat
  BY DEF SyncInv, IInv, TypeOK, Transaction, Database
<1>2. CASE \E t \in tx : RecordNew(t)
  <2>1. PICK t \in tx : RecordNew(t)
    BY <1>2
  <2> DEFINE f == RecordChange(t.db, Head(t.todo))
  <2>2. PICK ack : Advance(t, f, ack)
    BY <2>1 DEF RecordNew
  <2>3. /\ f.revision = t.db.revision + 1
        /\ \A p \in f.progress : p \in t.db.progress \/ p.rev = t.db.revision + 1
        /\ \A ev \in f.events : ev \in t.db.events \/ ev.rev = t.db.revision + 1
    BY DEF RecordChange
  <2> HIDE DEF f
  <2>4. db' = db /\ \A u \in tx' : u.db = f
    BY <2>2 DEF Advance
  <2>5. f.revision >= db.revision /\ t.db.revision + 1 > db.revision
    BY <1>1, <2>3 DEF TxFresh
  <2> QED BY <2>3, <2>4, <2>5 DEF TxFresh
<1>3. CASE \E t \in tx : RecordDuplicate(t)
  <2>1. PICK t \in tx : \E ack : Advance(t, t.db, ack)
    BY <1>3 DEF RecordDuplicate
  <2>2. db' = db /\ \A u \in tx' : u.db = t.db
    BY <2>1 DEF Advance
  <2> QED BY <2>2 DEF TxFresh
<1>4. CASE \E client \in Clients, from \in Nat, changes \in Seq(recorded) :
             Request(client, from, changes)
  BY <1>1, <1>4 DEF TxFresh, Request, RefuseSync, BeginSync
<1>5. CASE tx' = {}
  BY <1>5 DEF TxFresh
<1>6. CASE tx' = tx /\ db' = db
  BY <1>6 DEF TxFresh
<1>7. \/ \E t \in tx : RecordNew(t) \/ RecordDuplicate(t)
      \/ \E client \in Clients, from \in Nat, changes \in Seq(recorded) :
           Request(client, from, changes)
      \/ tx' = {} \/ (tx' = tx /\ db' = db)
  BY DEF StoreStep, SyncStep, Handle, RecordConflict, RecordUnknown, RecordWrongFormat,
         CommitSync, CommitWithoutRow, Abort, Rollback, RemoveEditions, RefuseVersion,
         TakeReply, SetVisible, Tick, storeVars
<1> QED BY <1>2, <1>3, <1>4, <1>5, <1>6, <1>7

\* While no edition leaves the catalog, committed tables only grow, and what is
\* new in them has a new revision.
LEMMA TablesGrow ==
  ASSUME SyncInv, StoreStep, TxFresh, editions' = editions
  PROVE  /\ db.events \subseteq db'.events
         /\ db'.revision >= db.revision
         /\ \A p \in db'.progress : p \in db.progress \/ p.rev > db.revision
         /\ \A ev \in db'.events : ev \in db.events \/ ev.rev > db.revision
<1>1. db.revision \in Nat
  BY DEF SyncInv, IInv, TypeOK, Database
<1>2. CASE \E t \in tx : CommitSync(t)
  BY <1>2 DEF CommitSync, TxFresh, SyncInv, IInv, Extends
<1>3. CASE \E removed \in Removable : RemoveEditions(removed)
  BY <1>3 DEF RemoveEditions
<1>4. CASE db' = db
  BY <1>1, <1>4
<1>5. \/ \E t \in tx : CommitSync(t)
      \/ \E removed \in Removable : RemoveEditions(removed)
      \/ db' = db
  BY DEF StoreStep, SyncStep, Handle, RecordNew, RecordDuplicate, RecordConflict,
         RecordUnknown, RecordWrongFormat, Advance,
         CommitWithoutRow, Abort, Rollback, RefuseVersion, Request, RefuseSync, BeginSync,
         TakeReply, SetVisible, Tick, storeVars
<1> QED BY <1>2, <1>3, <1>4, <1>5

\* The log of recorded events is finite.
LEMMA LogFinite ==
  ASSUME NEW d \in Database, Keys(d), IsFiniteSet(recorded),
         \A ev \in d.events : ev.change \in recorded
  PROVE  IsFiniteSet(d.events)
<1> DEFINE f == [ev \in d.events |-> ev.change]
<1>1. f \in [d.events -> recorded]
  OBVIOUS
<1>2. \A a, b \in d.events : f[a] = f[b] => a = b
  BY DEF Keys
<1>3. f \in Injection(d.events, recorded)
  BY <1>1, <1>2 DEF Injection, IsInjective
<1> QED BY <1>3, FS_Injection

\* A page covers every event up to the cursor it answers with (changedBookIDs:
\* ORDER BY revision LIMIT).
LEMMA PageClosed ==
  ASSUME NEW d \in Database, Keys(d), IsFiniteSet(d.events), visible = Books, NEW from \in Nat,
         NEW ev \in d.events, ev.rev > from, ev.rev <= NextCursor(d, from)
  PROVE  ev.change.book \in ChangedBooks(d, from)
<1> DEFINE unseen == Unseen(d, from)
           Before(r) == {g \in unseen : g.rev < r}
<1>1. /\ ev.rev \in Nat /\ ev.change.book \in Books
      /\ \A g \in d.events : g.rev \in Nat
  BY ChangeType DEF Database, EventRow
<1>2. ev \in unseen /\ unseen \subseteq d.events
  BY <1>1 DEF Unseen
<1>3. PICK g \in Page(d, from) : g.rev = NextCursor(d, from)
  BY <1>1, NextCursorType
<1>4. g \in unseen /\ Cardinality(Before(g.rev)) < PullPageSize
  BY <1>3 DEF Page
<1>5. Before(ev.rev) \subseteq Before(g.rev)
  BY <1>1, <1>2, <1>3, <1>4
<1>6. IsFiniteSet(Before(g.rev))
  <2>1. Before(g.rev) \subseteq d.events
    BY <1>2
  <2> HIDE DEF Before
  <2> QED BY <2>1, FS_Subset
<1>7. /\ Cardinality(Before(ev.rev)) <= Cardinality(Before(g.rev))
      /\ Cardinality(Before(ev.rev)) \in Nat /\ Cardinality(Before(g.rev)) \in Nat
      /\ PullPageSize \in Nat
  <2> HIDE DEF Before
  <2>1. IsFiniteSet(Before(ev.rev)) /\ Cardinality(Before(ev.rev)) <= Cardinality(Before(g.rev))
    BY <1>5, <1>6, FS_Subset
  <2> QED BY <1>6, <2>1, FS_CardinalityType, StoreAssumption DEF StoreAssumption
<1>8. Cardinality(Before(ev.rev)) < PullPageSize
  <2> HIDE DEF Before
  <2> QED BY <1>4, <1>7
<1>9. ev \in Page(d, from)
  BY <1>2, <1>8 DEF Page
<1> QED BY <1>9 DEF ChangedBooks

\* No answer is ahead of the log.
LEMMA NextCursorBound ==
  ASSUME NEW d \in Database, Keys(d), NEW from \in Nat, from <= d.revision
  PROVE  NextCursor(d, from) <= d.revision
<1>1. \A ev \in Page(d, from) : ev.rev <= d.revision
  BY DEF Page, Unseen, Keys
<1> QED BY <1>1, NextCursorType

-----------------------------------------------------------------------------
(* What a cursor stands for. *)

\* No cursor is ahead of the committed log.
CursorsKnown ==
  /\ \A d \in Devices : cursor[d] <= db.revision
  /\ \A m \in requests : m.cursor <= db.revision
  /\ \A t \in tx : t.cursor <= db.revision
  /\ \A e \in Engines : reply[e].status = "ok" => reply[e].cursor <= db.revision

\* The one engine of a device asks from where the device is.
AskedFromHere ==
  \A e \in Engines : Alone(EngineDevice[e]) =>
    /\ \A m \in requests : m.by = e => m.cursor = cursor[EngineDevice[e]]
    /\ \A t \in tx : t.by = e => t.cursor = cursor[EngineDevice[e]]

\* The log has an event of the book after revision n.
Due(b, n) == \E ev \in db.events : ev.change.book = b /\ ev.rev > n

\* The answer has the canonical position of every book the device is due and is
\* not due any more after it.
TellsAll(e) ==
  \A p \in db.progress :
    /\ Due(p.change.book, cursor[EngineDevice[e]])
    /\ ~Due(p.change.book, reply[e].cursor)
    => p \in reply[e].progress

\* An answer carries logged positions only and, where one engine runs, all that
\* are due.
RepliesTell ==
  \A e \in Engines : reply[e].status = "ok" =>
    /\ \A p \in reply[e].progress : InLog(p.change)
    /\ Alone(EngineDevice[e]) => TellsAll(e)

\* In a calm history a cursor moves by an answer only.
LEMMA CalmCursor ==
  ASSUME SyncInv, CalmInv, [SyncNext]_syncVars, NEW d \in Devices
  PROVE  \/ cursor'[d] = cursor[d]
         \/ \E e \in Engines : Applied(e) /\ EngineDevice[e] = d /\ cursor'[d] = reply[e].cursor
BY CursorSteps DEF Clear, CalmInv, Still

\* A cursor is taken from an answer, an answer's from a page of the log.
LEMMA CursorsKnownKept ==
  ASSUME SyncInv, CalmInv, StoreStep, TxFresh, CursorsKnown, editions' = editions,
         [SyncNext]_syncVars
  PROVE  CursorsKnown'
<1>1. /\ db.revision \in Nat /\ db'.revision \in Nat /\ db'.revision >= db.revision
      /\ cursor \in [Devices -> Nat] /\ reply \in [Clients -> Reply]
      /\ \A m \in requests : m.cursor \in Nat
      /\ \A t \in tx : t.cursor \in Nat /\ t.db \in Database /\ Keys(t.db) /\ t.db.revision \in Nat
      /\ Engines \subseteq Clients
  BY TablesGrow, StoreStepKeeps, SyncAssumption
     DEF SyncAssumption, SyncInv, OnlyRecorded, MessageOver, IInv, TypeOK, Transaction, Database, Good
<1>2. ASSUME NEW d \in Devices PROVE cursor'[d] <= db'.revision
  <2>1. cursor[d] <= db.revision /\ cursor[d] \in Nat
    BY <1>1 DEF CursorsKnown
  <2>2. CASE cursor'[d] = cursor[d]
    BY <1>1, <2>1, <2>2
  <2>3. CASE \E e \in Engines : Applied(e) /\ cursor'[d] = reply[e].cursor
    <3>1. PICK e \in Engines : Applied(e) /\ cursor'[d] = reply[e].cursor
      BY <2>3
    <3>2. reply[e].cursor <= db.revision /\ reply[e].cursor \in Nat
      BY <1>1, <3>1 DEF Applied, CursorsKnown, Reply
    <3> QED BY <1>1, <3>1, <3>2
  <2> QED BY <2>2, <2>3, CalmCursor
<1>3. ASSUME NEW m \in requests' PROVE m.cursor <= db'.revision
  <2>1. \/ \E n \in requests : m.cursor = n.cursor
        \/ \E e \in Engines : m.cursor = cursor[EngineDevice[e]]
    BY RequestFlow
  <2>2. m.cursor \in Nat /\ m.cursor <= db.revision
    BY <1>1, <2>1, SyncAssumption DEF SyncAssumption, CursorsKnown
  <2> QED BY <1>1, <2>2
<1>4. ASSUME NEW t \in tx' PROVE t.cursor <= db'.revision
  <2>1. \/ \E u \in tx : t.cursor = u.cursor
        \/ \E m \in requests : t.cursor = m.cursor
    BY TransactionFlow
  <2>2. t.cursor \in Nat /\ t.cursor <= db.revision
    BY <1>1, <2>1 DEF CursorsKnown
  <2> QED BY <1>1, <2>2
<1>5. ASSUME NEW e \in Engines, reply'[e].status = "ok" PROVE reply'[e].cursor <= db'.revision
  <2>1. CASE reply'[e] = reply[e]
    <3>1. reply[e].cursor <= db.revision /\ reply[e].cursor \in Nat
      BY <1>1, <1>5, <2>1 DEF CursorsKnown, Reply
    <3> QED BY <1>1, <2>1, <3>1
  <2>2. CASE \E t \in tx : CommitSync(t) /\ reply'[e].cursor = NextCursor(t.db, t.cursor)
    <3>1. PICK t \in tx : CommitSync(t) /\ reply'[e].cursor = NextCursor(t.db, t.cursor)
      BY <2>2
    <3>2. db' = t.db
      BY <3>1 DEF CommitSync
    <3>3. t.cursor <= t.db.revision
      BY <1>1, <3>2 DEF CursorsKnown
    <3> QED BY <1>1, <3>1, <3>2, <3>3, NextCursorBound
  <2> QED BY <1>1, <1>5, <2>1, <2>2, ReplyFlow
<1> QED BY <1>2, <1>3, <1>4, <1>5 DEF CursorsKnown

\* While a device's one engine waits, nothing moves the cursor it asked from.
LEMMA AskedFromHereKept ==
  ASSUME SyncInv, CalmInv, AskedFromHere, [SyncNext]_syncVars
  PROVE  AskedFromHere'
<1> SUFFICES ASSUME NEW e \in Engines, Alone(EngineDevice[e])
             PROVE  /\ \A m \in requests' : m.by = e => m.cursor = cursor'[EngineDevice[e]]
                    /\ \A t \in tx' : t.by = e => t.cursor = cursor'[EngineDevice[e]]
  BY DEF AskedFromHere, Alone
<1> DEFINE d == EngineDevice[e]
<1>1. d \in Devices /\ e /= Nobody /\ RoundTrip
  BY SyncAssumption DEF SyncAssumption, CalmInv, QueueInv
<1>2. CASE Applied(e)
  <2>1. tx' = tx /\ requests' = requests /\ reply[e] /= NoReply
    BY <1>2 DEF Applied, TakeReply
  <2> QED BY <1>1, <2>1, AnswerIsAll
<1>3. CASE ~Applied(e)
  <2>1. cursor'[d] = cursor[d]
    BY <1>1, <1>3, CalmCursor DEF Alone
  <2>2. \A m \in requests : m.by = e => m.cursor = cursor[d]
    BY DEF AskedFromHere
  <2>3. \A t \in tx : t.by = e => t.cursor = cursor[d]
    BY DEF AskedFromHere
  <2>4. \A m \in requests' : m.by = e => m.cursor = cursor[d]
    BY <1>1, <2>2, RequestFlow
  <2>5. \A t \in tx' : t.by = e => t.cursor = cursor[d]
    BY <2>2, <2>3, TransactionFlow
  <2> QED BY <2>1, <2>4, <2>5
<1> QED BY <1>2, <1>3

\* A page is an interval of the log from the cursor asked from: an answer that
\* passes a book's last event passes no event of it silently.
LEMMA RepliesTellKept ==
  ASSUME SyncInv, CalmInv, StoreStep, TxFresh, CursorsKnown, AskedFromHere, RepliesTell,
         editions' = editions, [SyncNext]_syncVars
  PROVE  RepliesTell'
<1> SUFFICES ASSUME NEW e \in Engines, reply'[e].status = "ok"
             PROVE  /\ \A p \in reply'[e].progress : InLog(p.change)'
                    /\ Alone(EngineDevice[e]) =>
                         \A p \in db'.progress :
                           /\ \E ev \in db'.events : /\ ev.change.book = p.change.book
                                                    /\ ev.rev > cursor'[EngineDevice[e]]
                           /\ \A ev \in db'.events : ev.change.book = p.change.book =>
                                                      ~(ev.rev > reply'[e].cursor)
                           => p \in reply'[e].progress
  BY DEF RepliesTell, Alone, TellsAll, Due
<1> DEFINE d == EngineDevice[e]
<1>1. /\ d \in Devices /\ e \in Clients /\ cursor \in [Devices -> Nat] /\ reply \in [Clients -> Reply]
      /\ db \in Database /\ db' \in Database /\ Logged(db') /\ db.revision \in Nat
      /\ db.events \subseteq db'.events
      /\ \A p \in db'.progress : p \in db.progress \/ p.rev > db.revision
      /\ \A ev \in db'.events : ev \in db.events \/ ev.rev > db.revision
  BY TablesGrow, StoreStepKeeps, SyncAssumption
     DEF SyncAssumption, SyncInv, OnlyRecorded, IInv, TypeOK, Database, Good
<1>2. ~Applied(e)
  BY <1>1 DEF Applied, TakeReply, NoReply, Answer
<1>3. Alone(d) => cursor'[d] = cursor[d]
  BY <1>1, <1>2, CalmCursor DEF Alone
<1>4. cursor[d] \in Nat /\ reply[e].cursor \in Nat
  BY <1>1 DEF Reply
<1>5. CASE reply'[e] = reply[e]
  <2>1. /\ \A p \in reply[e].progress : InLog(p.change)
        /\ reply[e].cursor <= db.revision
    BY <1>5 DEF RepliesTell, CursorsKnown
  <2>2. \A p \in reply'[e].progress : InLog(p.change)'
    BY <1>1, <1>5, <2>1 DEF InLog
  <2>3. ASSUME Alone(d), NEW p \in db'.progress,
               \E ev \in db'.events : ev.change.book = p.change.book /\ ev.rev > cursor'[d],
               \A ev \in db'.events : ev.change.book = p.change.book =>
                                      ~(ev.rev > reply'[e].cursor)
        PROVE  p \in reply'[e].progress
    <3>1. \A ev \in db'.events : ev.change.book = p.change.book => ~(ev.rev > reply[e].cursor)
      BY <1>5, <2>3
    <3>2. PICK ev \in db'.events : ev.change.book = p.change.book /\ ev.rev > cursor[d]
      BY <1>3, <2>3
    <3>3. \A x \in db'.events : x.rev \in Nat
      BY <1>1 DEF Database, EventRow
    <3>4. ev \in db.events
      BY <1>1, <1>4, <2>1, <3>1, <3>2, <3>3
    <3>5. PICK x \in db'.events : x.rev = p.rev /\ x.change = p.change
      BY <1>1 DEF Logged
    <3>6. p \in db.progress
      BY <1>1, <1>4, <2>1, <3>1, <3>3, <3>5
    <3>7. Due(p.change.book, cursor[d]) /\ ~Due(p.change.book, reply[e].cursor)
      BY <1>1, <3>1, <3>2, <3>4 DEF Due
    <3> QED BY <1>5, <2>3, <3>6, <3>7 DEF RepliesTell, TellsAll
  <2> QED BY <2>2, <2>3
<1>6. CASE \E t \in tx : /\ t.by = e /\ CommitSync(t)
                         /\ reply'[e].cursor = NextCursor(t.db, t.cursor)
                         /\ reply'[e].progress =
                              UNION {RowsOf(b, t.db.progress) : b \in ChangedBooks(t.db, t.cursor)}
  <2>1. PICK t \in tx : /\ t.by = e /\ CommitSync(t)
                        /\ reply'[e].cursor = NextCursor(t.db, t.cursor)
                        /\ reply'[e].progress =
                             UNION {RowsOf(b, t.db.progress) : b \in ChangedBooks(t.db, t.cursor)}
    BY <1>6
  <2>2. /\ db' = t.db /\ t.db \in Database /\ Keys(t.db) /\ Logged(t.db) /\ t.cursor \in Nat
        /\ \A ev \in t.db.events : ev.change \in recorded
        /\ IsFiniteSet(recorded) /\ visible = Books
    BY <2>1 DEF CommitSync, SyncInv, OnlyRecorded, IInv, TypeOK, Transaction, Good, CalmInv,
                HopelessInv, LogRecorded, Unchanging
  <2>3. \A p : p \in reply'[e].progress <=>
                 p \in t.db.progress /\ p.change.book \in ChangedBooks(t.db, t.cursor)
    BY <2>1 DEF RowsOf
  <2>4. \A p \in reply'[e].progress : InLog(p.change)'
    BY <2>2, <2>3 DEF Logged, InLog
  <2>5. ASSUME Alone(d), NEW p \in db'.progress,
               \E ev \in db'.events : ev.change.book = p.change.book /\ ev.rev > cursor'[d],
               \A ev \in db'.events : ev.change.book = p.change.book =>
                                      ~(ev.rev > reply'[e].cursor)
        PROVE  p \in reply'[e].progress
    <3>1. t.cursor = cursor[d]
      BY <2>1, <2>5 DEF AskedFromHere
    <3>2. PICK ev \in t.db.events : ev.change.book = p.change.book /\ ev.rev > t.cursor
      BY <1>3, <2>2, <2>5, <3>1
    <3>3. ~(ev.rev > NextCursor(t.db, t.cursor))
      BY <2>1, <2>2, <2>5, <3>2
    <3>4. ev.rev <= NextCursor(t.db, t.cursor)
      <4>1. ev.rev \in Nat
        BY <2>2 DEF Database, EventRow
      <4>2. NextCursor(t.db, t.cursor) \in Nat
        BY <2>2, NextCursorType
      <4> QED BY <3>3, <4>1, <4>2
    <3>5. IsFiniteSet(t.db.events)
      BY <2>2, LogFinite
    <3>6. ev.change.book \in ChangedBooks(t.db, t.cursor)
      BY <2>2, <3>2, <3>4, <3>5, PageClosed
    <3> QED BY <2>2, <2>3, <3>2, <3>6
  <2> QED BY <2>4, <2>5
<1> QED BY <1>1, <1>5, <1>6, ReplyFlow

-----------------------------------------------------------------------------
(* What a device shows. *)

\* A device shows what the log has or what it still has to send.
PositionsKnown ==
  \A d \in Devices : \A c \in position[d] : InLog(c) \/ \E o \in outbox[d] : o.change = c

\* Where one engine runs, an event that is logged while it is pending is ahead of
\* the cursor.
PendingAhead ==
  \A d \in Devices : Alone(d) => \A o \in Pending(d), ev \in db.events :
     ev.change = o.change => ev.rev > cursor[d]

\* Such a device is due an event of the book, has one to send, or shows the
\* canonical position.
ToldOrNot ==
  \A d \in Devices : Alone(d) => \A p \in db.progress :
    \/ Due(p.change.book, cursor[d])
    \/ \E o \in Pending(d) : o.change.book = p.change.book
    \/ p.change \in position[d]

\* Nothing is given up.
LEMMA AllPending ==
  ASSUME Calm, SyncInv, CalmInv, NEW d \in Devices
  PROVE  \A o \in outbox[d] : o.status = "pending" /\ o \in Pending(d)
<1> SUFFICES ASSUME NEW o \in outbox[d] PROVE o.status = "pending"
  BY DEF Pending
<1>1. o.change \in Changes /\ o.status \in {"pending", "rejected"}
  BY DEF SyncInv, OnlyRecorded, RowOver
<1>2. ~Hopeless(o.change)
  BY <1>1, CalmHopeful DEF CalmInv, HopelessInv
<1> QED BY <1>1, <1>2 DEF CalmInv, HopelessInv, OnlyHopelessRejected, Hopeless

\* What an answer acknowledges is in the log.
LEMMA AckedLogged ==
  ASSUME SyncInv, Still, NEW e \in Engines, NEW d \in Devices, NEW o \in outbox[d],
         o.change.id \in {a.id : a \in reply[e].acks}
  PROVE  InLog(o.change)
<1>1. PICK a \in reply[e].acks : a.id = o.change.id
  OBVIOUS
<1>2. e \in Clients
  BY SyncAssumption DEF SyncAssumption
<1>3. PICK r \in recorded : r.id = a.id /\ (r.edition \in editions => \E ev \in db.events : ev.change = r)
  BY <1>2 DEF SyncInv, AcksNameRecorded, Named
<1>4. o.change \in recorded /\ recorded \subseteq Changes
  BY DEF SyncInv, OnlyRecorded, RowOver
<1>5. r = o.change
  BY <1>1, <1>3, <1>4 DEF SyncInv, OnlyRecorded
<1>6. r.edition \in editions
  BY <1>4, ChangeType DEF Still
<1> QED BY <1>3, <1>5, <1>6 DEF InLog

\* The canonical position is later than every other that is logged of its book.
LEMMA CanonicalIsLater ==
  ASSUME Calm, SyncInv, Still, NEW p \in db.progress, NEW c, InLog(c), c.book = p.change.book
  PROVE  c = p.change \/ Later(p.change.at, c.at)
<1>1. PICK ev \in db.events : ev.change = c
  BY DEF InLog
<1>2. /\ p.change \in Changes /\ c \in Changes
      /\ Keys(db) /\ Logged(db) /\ Latest(db)
  BY <1>1 DEF SyncInv, IInv, TypeOK, Database, ProgressRow, EventRow, Good
<1>3. Intact(c.book, editions)
  BY DEF Still, Intact
<1>4. PICK q \in db.progress : /\ q.change.book = c.book
                               /\ q.rev = ev.rev \/ Beats(q, ev)
  BY <1>1, <1>2, <1>3 DEF Latest
<1>5. q = p
  BY <1>2, <1>4 DEF Keys
<1>6. CASE p.rev = ev.rev
  BY <1>1, <1>2, <1>6 DEF Logged, Keys
<1>7. CASE Beats(p, ev)
  BY <1>1, <1>2, <1>7 DEF Beats, Calm
<1> QED BY <1>4, <1>5, <1>6, <1>7

\* A position leaves the outbox only when it is logged, and one that is adopted is.
LEMMA PositionsKnownKept ==
  ASSUME SyncInv, CalmInv, StoreStep, TxFresh, RepliesTell, PositionsKnown,
         editions' = editions, [SyncNext]_syncVars
  PROVE  PositionsKnown'
<1>1. /\ position \in [Devices -> SUBSET Changes]
      /\ outbox \in [Devices -> SUBSET RowOver(recorded)]
      /\ \A c : InLog(c) => InLog(c)'
  BY TablesGrow DEF InLog, SyncInv, OnlyRecorded
<1> SUFFICES ASSUME NEW d \in Devices, NEW c \in position'[d]
             PROVE  InLog(c)' \/ \E o \in outbox'[d] : o.change = c
  BY DEF PositionsKnown
<1>2. CASE \E k \in Devices, x \in Changes : Record(k, x)
  <2>1. PICK k \in Devices, x \in Changes : Record(k, x)
    BY <1>2
  <2> DEFINE row == [seq |-> Cardinality(recorded), change |-> x, status |-> "pending"]
  <2>2. /\ outbox' = [outbox EXCEPT ![k] = outbox[k] \cup {row}]
        /\ position' = [position EXCEPT ![k] = PutPositions(k, {x})]
    BY <2>1 DEF Record
  <2>3. row.change = x
    OBVIOUS
  <2> HIDE DEF row
  <2>4. outbox[d] \subseteq outbox'[d] /\ (k = d => row \in outbox'[d])
    BY <1>1, <2>2
  <2>5. c \in position[d] \/ (k = d /\ c = x)
    BY <1>1, <2>2 DEF PutPositions
  <2> QED BY <1>1, <2>3, <2>4, <2>5 DEF PositionsKnown
<1>3. CASE \E e \in Engines : Applied(e)
  <2>1. PICK e \in Engines : Applied(e)
    BY <1>3
  <2> DEFINE k == EngineDevice[e]
             acked == {a.id : a \in reply[e].acks}
             left == {o \in outbox[k] : o.change.id \notin acked}
             unsent == {o \in left : o.status = "pending"}
             adopted == {x \in {p.change : p \in reply[e].progress} : ShouldAdopt(k, x, unsent)}
  <2>2. /\ outbox' = [outbox EXCEPT ![k] = left]
        /\ position' = [position EXCEPT ![k] = PutPositions(k, adopted)]
        /\ reply[e].status = "ok"
    BY <2>1 DEF Applied, ApplySync
  <2>3. \A x \in adopted : InLog(x)
    BY <2>2 DEF RepliesTell
  <2>4. c \in position[d] \/ c \in adopted
    <3> HIDE DEF adopted, left
    <3> QED BY <1>1, <2>2 DEF PutPositions
  <2>5. ASSUME NEW o \in outbox[d], o \notin outbox'[d]
        PROVE  InLog(o.change)
    <3>1. o.change.id \in acked
      BY <1>1, <2>2, <2>5
    <3> QED BY <3>1, AckedLogged DEF CalmInv
  <2> HIDE DEF adopted, left
  <2> QED BY <1>1, <2>3, <2>4, <2>5 DEF PositionsKnown
<1>4. CASE UNCHANGED <<outbox, position, recorded>>
  BY <1>1, <1>4 DEF PositionsKnown
<1>5. /\ \A e \in Engines : ~Reject(e)
      /\ \A k \in Devices : ~Clear(k)
  BY DEF Reject, Refused, Clear, CalmInv, NeverRefused, Refusals, Still
<1> QED BY <1>2, <1>3, <1>4, <1>5, OutboxSteps

\* An event that is logged and still pending was sent by the engine that waits for
\* its answer, so a merged answer acknowledges it.
LEMMA PendingAheadKept ==
  ASSUME SyncInv, CalmInv, StoreStep, TxFresh, CursorsKnown, SentInBatch, PendingAhead,
         editions' = editions, [SyncNext]_syncVars
  PROVE  PendingAhead'
<1> SUFFICES ASSUME NEW d \in Devices, Alone(d), NEW o \in Pending(d)',
                    NEW ev \in db'.events, ev.change = o.change
             PROVE  ev.rev > cursor'[d]
  BY DEF PendingAhead, Alone
<1>1. /\ db.revision \in Nat /\ cursor[d] \in Nat /\ cursor[d] <= db.revision
      /\ \A x \in db'.events : x.rev \in Nat
      /\ \A x \in db'.events : x \in db.events \/ x.rev > db.revision
      /\ outbox \in [Devices -> SUBSET RowOver(recorded)]
  BY TablesGrow, StoreStepKeeps DEF CursorsKnown, SyncInv, OnlyRecorded, IInv, TypeOK, Database, EventRow
<1>2. CASE o \notin Pending(d)
  <2>1. PICK k \in Devices, c \in Changes : Record(k, c)
    BY <1>2, OutboxShrinks DEF Pending
  <2> DEFINE row == [seq |-> Cardinality(recorded), change |-> c, status |-> "pending"]
  <2>2. outbox' = [outbox EXCEPT ![k] = outbox[k] \cup {row}] /\ db' = db
    BY <2>1 DEF Record, storeVars
  <2>3. c \notin recorded /\ row.change = c
    BY <2>1 DEF Record
  <2> HIDE DEF row
  <2>4. o = row
    BY <1>1, <1>2, <2>2 DEF Pending
  <2>5. \A x \in db.events : x.change \in recorded
    BY DEF CalmInv, HopelessInv, LogRecorded
  <2> QED BY <2>2, <2>3, <2>4, <2>5
<1>3. CASE o \in Pending(d) /\ cursor'[d] = cursor[d]
  <2>1. ev \in db.events => ev.rev > cursor[d]
    BY <1>3 DEF PendingAhead
  <2> QED BY <1>1, <1>3, <2>1
<1>4. CASE o \in Pending(d) /\ \E e \in Engines : Applied(e) /\ EngineDevice[e] = d
  <2>1. PICK e \in Engines : Applied(e) /\ EngineDevice[e] = d
    BY <1>4
  <2>2. db' = db /\ Busy(e)
    BY <2>1 DEF Applied, TakeReply, Busy
  <2>3. Sent(o.change)
    BY <2>2 DEF Sent, InLog
  <2>4. InBatch(e, o.change)
    BY <1>4, <2>1, <2>2, <2>3 DEF SentInBatch
  <2>5. o.change.id \in IdsOf(engine[e].batch)
    BY <2>4 DEF InBatch, IdsOf
  <2>6. o.change.id \notin IdsOf(engine[e].batch)
    BY <2>1, LeftUnsent DEF CalmInv, QueueInv
  <2> QED BY <2>5, <2>6
<1> QED BY <1>2, <1>3, <1>4, CalmCursor

\* A row that a device has not been told of is due; the device's own changes are
\* pending; and the answer that tells the device all adopts the canonical position,
\* which is later than every other that is logged.
LEMMA ToldOrNotKept ==
  ASSUME Calm, SyncInv, CalmInv, StoreStep, TxFresh, CursorsKnown, RepliesTell,
         PositionsKnown, PendingAhead, ToldOrNot, editions' = editions, [SyncNext]_syncVars
  PROVE  ToldOrNot'
<1> SUFFICES ASSUME NEW d \in Devices, Alone(d), NEW p \in db'.progress,
                    \A ev \in db'.events : ev.change.book = p.change.book => ~(ev.rev > cursor'[d]),
                    \A o \in Pending(d)' : o.change.book /= p.change.book
             PROVE  p.change \in position'[d]
  BY DEF ToldOrNot, Alone, Due
<1>1. /\ db.revision \in Nat /\ cursor[d] \in Nat /\ cursor[d] <= db.revision
      /\ db.events \subseteq db'.events
      /\ db' \in Database /\ Logged(db')
      /\ \A x \in db'.progress : x \in db.progress \/ x.rev > db.revision
      /\ position \in [Devices -> SUBSET Changes]
      /\ outbox \in [Devices -> SUBSET RowOver(recorded)]
      /\ reply \in [Clients -> Reply] /\ Engines \subseteq Clients
  BY TablesGrow, StoreStepKeeps, SyncAssumption
     DEF SyncAssumption, CursorsKnown, SyncInv, OnlyRecorded, IInv, TypeOK, Database, Good
<1>2. p \in db.progress
  <2>1. cursor'[d] \in Nat /\ cursor'[d] <= db.revision
    <3>1. CASE cursor'[d] = cursor[d]
      BY <1>1, <3>1
    <3>2. CASE \E e \in Engines : Applied(e) /\ cursor'[d] = reply[e].cursor
      BY <1>1, <3>2 DEF Applied, CursorsKnown, Reply
    <3> QED BY <3>1, <3>2, CalmCursor
  <2>2. PICK ev \in db'.events : ev.rev = p.rev /\ ev.change = p.change
    BY <1>1 DEF Logged
  <2>3. ~(p.rev > cursor'[d])
    BY <2>2
  <2>4. p.rev \in Nat
    BY <1>1, <2>2 DEF Database, EventRow
  <2> QED BY <1>1, <2>1, <2>3, <2>4
<1>3. /\ \A e \in Engines : ~Reject(e)
      /\ \A k \in Devices : ~Clear(k)
  BY DEF Reject, Refused, Clear, CalmInv, NeverRefused, Refusals, Still
<1>4. CASE \E e \in Engines : Applied(e) /\ EngineDevice[e] = d
  <2>1. PICK e \in Engines : Applied(e) /\ EngineDevice[e] = d
    BY <1>4
  <2> DEFINE acked == {a.id : a \in reply[e].acks}
             left == {o \in outbox[d] : o.change.id \notin acked}
             unsent == {o \in left : o.status = "pending"}
             adopted == {x \in {r.change : r \in reply[e].progress} : ShouldAdopt(d, x, unsent)}
  <2>2. /\ outbox' = [outbox EXCEPT ![d] = left]
        /\ position' = [position EXCEPT ![d] = PutPositions(d, adopted)]
        /\ cursor' = [cursor EXCEPT ![d] = reply[e].cursor]
        /\ db' = db /\ reply[e].status = "ok"
    BY <2>1 DEF Applied, ApplySync, TakeReply
  <2>3. /\ left = outbox'[d] /\ unsent = Pending(d)'
        /\ position'[d] = PutPositions(d, adopted)
        /\ cursor'[d] = reply[e].cursor
    <3>1. left = outbox'[d] /\ cursor'[d] = reply[e].cursor
      BY <1>1, <2>2 DEF SyncInv, OnlyRecorded
    <3>2. position'[d] = PutPositions(d, adopted)
      <4> HIDE DEF adopted
      <4> QED BY <1>1, <2>2
    <3> QED BY <3>1, <3>2 DEF Pending
  <2>4. \A x \in adopted : InLog(x) /\ ShouldAdopt(d, x, unsent)
    BY <2>2 DEF RepliesTell
  <2>5. \A o \in outbox[d] : o.change.book = p.change.book => o.change.id \in acked /\ InLog(o.change)
    <3> SUFFICES ASSUME NEW o \in outbox[d], o.change.book = p.change.book
                 PROVE  o.change.id \in acked /\ InLog(o.change)
      OBVIOUS
    <3>1. o.status = "pending"
      BY AllPending
    <3>2. o \notin unsent
      BY <2>3
    <3>3. o.change.id \in acked
      BY <3>1, <3>2
    <3> QED BY <3>3, AckedLogged DEF CalmInv
  <2>6. \A q \in position[d] : q.book = p.change.book => q = p.change \/ Later(p.change.at, q.at)
    <3> SUFFICES ASSUME NEW q \in position[d], q.book = p.change.book
                 PROVE  q = p.change \/ Later(p.change.at, q.at)
      OBVIOUS
    <3>1. InLog(q)
      BY <2>5 DEF PositionsKnown
    <3> QED BY <1>2, <3>1, CanonicalIsLater DEF CalmInv
  <2>7. p.change \in position[d] \/ p.change \in adopted
    <3> SUFFICES ASSUME p.change \notin position[d] PROVE p.change \in adopted
      OBVIOUS
    <3>1. Due(p.change.book, cursor[d])
      <4>1. CASE \E o \in Pending(d) : o.change.book = p.change.book
        <5>1. PICK o \in Pending(d) : o.change.book = p.change.book
          BY <4>1
        <5>2. InLog(o.change)
          BY <2>5, <5>1 DEF Pending
        <5>3. PICK ev \in db.events : ev.change = o.change
          BY <5>2 DEF InLog
        <5> QED BY <5>1, <5>3 DEF PendingAhead, Due
      <4> QED BY <1>2, <4>1 DEF ToldOrNot
    <3>2. ~Due(p.change.book, reply[e].cursor)
      BY <2>2, <2>3 DEF Due
    <3>3. p \in reply[e].progress
      BY <1>2, <2>1, <2>2, <3>1, <3>2 DEF RepliesTell, TellsAll
    <3>4. ShouldAdopt(d, p.change, unsent)
      <4>1. \A o \in unsent : o.change.book /= p.change.book
        BY <2>3
      <4> HIDE DEF unsent
      <4> QED BY <2>6, <4>1 DEF ShouldAdopt
    <3> QED BY <3>3, <3>4
  <2>8. ASSUME p.change \in position[d], NEW x \in adopted, x.book = p.change.book
        PROVE  FALSE
    <3>1. Later(x.at, p.change.at)
      <4> HIDE DEF adopted, unsent
      <4> QED BY <2>4, <2>8 DEF ShouldAdopt
    <3>2. x = p.change \/ Later(p.change.at, x.at)
      <4> HIDE DEF adopted
      <4> QED BY <1>2, <2>4, <2>8, CanonicalIsLater DEF CalmInv
    <3>3. x \in Changes /\ p.change \in Changes
      <4>1. InLog(x) /\ p.change \in Changes
        <5> HIDE DEF adopted
        <5> QED BY <1>1, <2>4, <2>8
      <4> QED BY <4>1 DEF InLog, SyncInv, IInv, TypeOK, Database, EventRow
    <3>4. /\ x.at.sec \in Nat /\ x.at.frac \in Nat
          /\ p.change.at.sec \in Nat /\ p.change.at.frac \in Nat
      BY <3>3, ChangeType DEF Instant
    <3> QED BY <3>1, <3>2, <3>4 DEF Later
  <2>9. p.change \in PutPositions(d, adopted)
    <3> HIDE DEF adopted
    <3> QED BY <2>7, <2>8 DEF PutPositions
  <2> QED BY <2>3, <2>9
<1>5. CASE ~\E e \in Engines : Applied(e) /\ EngineDevice[e] = d
  <2>1. cursor'[d] = cursor[d]
    BY <1>5, CalmCursor
  <2>2. ~Due(p.change.book, cursor[d])
    BY <1>1, <2>1 DEF Due
  <2>3. CASE \E k \in Devices, c \in Changes : Record(k, c)
    <3>1. PICK k \in Devices, c \in Changes : Record(k, c)
      BY <2>3
    <3> DEFINE row == [seq |-> Cardinality(recorded), change |-> c, status |-> "pending"]
    <3>2. /\ outbox' = [outbox EXCEPT ![k] = outbox[k] \cup {row}]
          /\ position' = [position EXCEPT ![k] = PutPositions(k, {c})]
      BY <3>1 DEF Record
    <3>3. row.change = c /\ row.status = "pending"
      OBVIOUS
    <3> HIDE DEF row
    <3>4. outbox[d] \subseteq outbox'[d] /\ (k = d => row \in outbox'[d])
      BY <1>1, <3>2
    <3>5. \A o \in Pending(d) : o.change.book /= p.change.book
      BY <3>4 DEF Pending
    <3>6. p.change \in position[d]
      BY <1>2, <2>2, <3>5 DEF ToldOrNot
    <3>7. k = d => c.book /= p.change.book
      BY <3>3, <3>4 DEF Pending
    <3> QED BY <1>1, <3>2, <3>6, <3>7 DEF PutPositions
  <2>4. CASE \E e \in Engines : Applied(e)
    <3>1. PICK e \in Engines : Applied(e)
      BY <2>4
    <3>2. EngineDevice[e] /= d
      BY <1>5, <3>1
    <3>3. outbox'[d] = outbox[d] /\ position'[d] = position[d]
      BY <1>1, <3>1, <3>2 DEF Applied, ApplySync
    <3> QED BY <1>2, <2>2, <3>3 DEF ToldOrNot, Pending
  <2>5. CASE UNCHANGED <<outbox, position, recorded>>
    BY <1>2, <2>2, <2>5 DEF ToldOrNot, Pending
  <2> QED BY <1>3, <2>3, <2>4, <2>5, OutboxSteps
<1> QED BY <1>4, <1>5

\* Everything the rule of what a device shows rests on.
ShowsInv ==
  /\ CalmInv /\ Owned /\ SentInBatch /\ TxFresh
  /\ CursorsKnown /\ AskedFromHere /\ RepliesTell
  /\ PositionsKnown /\ PendingAhead /\ ToldOrNot

\* Nothing is recorded, sent, logged or shown at first.
LEMMA InitShows == SyncInit => ShowsInv
<1> SUFFICES ASSUME SyncInit PROVE ShowsInv
  OBVIOUS
<1>1. CalmInv
  <2>1. Still
    BY DEF SyncInit, StoreInit, Still
  <2>2. NeverRefused
    BY SyncAssumption DEF SyncAssumption, SyncInit, StoreInit, NeverRefused, IdleEngine, NoReply,
                          Answer, Refusals
  <2> QED BY <2>1, <2>2, InitQueue, InitHopeless DEF CalmInv
<1>2. Owned /\ SentInBatch
  <2>1. \A d \in Devices : outbox[d] = {} /\ Pending(d) = {}
    BY DEF SyncInit, Pending
  <2>2. \A e \in Engines : EngineDevice[e] \in Devices
    BY SyncAssumption DEF SyncAssumption
  <2> QED BY <2>1, <2>2 DEF Owned, SentInBatch
<1>3. TxFresh /\ CursorsKnown /\ AskedFromHere
  BY SyncAssumption DEF SyncAssumption, SyncInit, StoreInit, TxFresh, CursorsKnown, AskedFromHere,
                        NoReply, Answer
<1>4. RepliesTell
  BY SyncAssumption DEF SyncAssumption, SyncInit, StoreInit, RepliesTell, NoReply, Answer
<1>5. PositionsKnown /\ PendingAhead /\ ToldOrNot
  BY DEF SyncInit, StoreInit, PositionsKnown, PendingAhead, ToldOrNot, Pending
<1> QED BY <1>1, <1>2, <1>3, <1>4, <1>5 DEF ShowsInv

\* And it is inductive.
LEMMA ShowsStep ==
  ASSUME Calm, SyncInv, ShowsInv, [SyncNext]_syncVars
  PROVE  ShowsInv'
<1>1. StoreStep
  BY StoreSteps
<1>2. CalmInv'
  BY CalmInvKept DEF ShowsInv
<1>3. editions' = editions
  BY <1>2 DEF ShowsInv, CalmInv, Still
<1>4. Owned' /\ SentInBatch'
  BY OwnedKept, SentInBatchKept DEF ShowsInv
<1>5. TxFresh' /\ CursorsKnown' /\ AskedFromHere' /\ RepliesTell'
  BY <1>1, <1>3, TxFreshKept, CursorsKnownKept, AskedFromHereKept, RepliesTellKept DEF ShowsInv
<1>6. PositionsKnown' /\ PendingAhead' /\ ToldOrNot'
  BY <1>1, <1>3, PositionsKnownKept, PendingAheadKept, ToldOrNotKept DEF ShowsInv
<1> QED BY <1>2, <1>4, <1>5, <1>6 DEF ShowsInv

\* docs/offline-sync.md: "The client applies a server position when its source
\* event is newer than the local position and is not still represented by an
\* unacknowledged local event".  In a calm history, over any network, with any
\* crashes and any order of the devices, a device that runs one engine, has been
\* told all of a book's events and has none of its own to send shows the server's
\* position of the book: devices agree.
THEOREM SyncShowsCanonical ==
  ASSUME Calm
  PROVE  SyncSpec => []ShowsCanonical
<1>1. SyncInit => ShowsInv
  BY InitShows
<1>2. SyncInv /\ ShowsInv /\ [SyncNext]_syncVars => ShowsInv'
  BY ShowsStep
<1>3. SyncInv /\ ShowsInv => ShowsCanonical
  <2> SUFFICES ASSUME SyncInv, ShowsInv, NEW d \in Devices, Alone(d), NEW p \in db.progress,
                      Told(d, p)
               PROVE  p.change \in position[d]
    BY DEF ShowsCanonical
  <2>1. ~Due(p.change.book, cursor[d])
    <3>1. cursor[d] \in Nat /\ \A ev \in db.events : ev.rev \in Nat
      BY DEF SyncInv, OnlyRecorded, IInv, TypeOK, Database, EventRow
    <3> QED BY <3>1 DEF Told, Due
  <2> QED BY <2>1 DEF Told, ShowsInv, ToldOrNot
<1> QED BY <1>1, <1>2, <1>3, SyncInvariant, PTL DEF SyncSpec

=============================================================================
