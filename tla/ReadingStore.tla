---------------------------- MODULE ReadingStore ----------------------------
(***************************************************************************)
(* The server's reading-progress store: POST /api/v1/progress/sync as one  *)
(* SQLite transaction per request, for the rows of one reader.             *)
(*                                                                         *)
(* reading_events is the reader's log (a unique client event ID and an     *)
(* AUTOINCREMENT revision per row), reading_progress the canonical row of  *)
(* each book.  A transaction works on a private copy of both, records the  *)
(* changes of the batch one at a time, then reads the page of changed      *)
(* books the client has not seen, and either replaces the committed tables *)
(* or leaves no trace.  SQLite admits one writer: a racing request waits   *)
(* or fails, so at most one transaction is open and Abort stands for the   *)
(* failures.  Around it, administrators change who may see a book and      *)
(* remove editions, whose rows the foreign keys take along.                *)
(***************************************************************************)
EXTENDS Instants, Sequences, FiniteSets

CONSTANTS
  Books, Editions,
  EditionBook,          \* the book of each edition
  WatchedEditions,      \* the editions indexed from one watched source
  EventIds, Places,
  FinishedPlaces,       \* the places at or past FinishedThreshold
  Changes,              \* the progress changes clients may send
  Clients,              \* whoever waits for a reply
  Batches, Cursors,     \* the batches and cursors they may send
  MaxBatchSize, PullPageSize, MaxFutureClockSkew,
  MaxNow                \* bound: the server's clock stops here

\* form: malformed fails validateChange whatever the clock (identifiers,
\* percentage, locator shape); wrong_format has a locator of the other format.
Change == [id : EventIds, book : Books, edition : Editions, at : Instant,
           place : Places, form : {"good", "malformed", "wrong_format"}]

ASSUME StoreAssumption ==
  /\ EditionBook \in [Editions -> Books]
  /\ WatchedEditions \subseteq Editions
  /\ FinishedPlaces \subseteq Places
  /\ Changes \subseteq Change
  /\ Batches \subseteq Seq(Changes) /\ Cursors \subseteq Nat
  /\ MaxBatchSize \in Nat /\ PullPageSize \in Nat \ {0}
  /\ MaxFutureClockSkew \in Nat /\ MaxNow \in Nat

VARIABLES
  db,        \* the committed reading_events, reading_progress and revision
  tx,        \* the open transaction: at most one record
  reply,     \* the answer waiting for each client
  editions,  \* the editions in the catalog
  visible,   \* the books the reader may see
  now        \* the server's clock, in whole seconds

storeVars == <<db, tx, reply, editions, visible, now>>

Disposition == {"applied", "superseded"}
EventRow    == [rev : Nat, change : Changes, disposition : Disposition]
ProgressRow == [rev : Nat, change : Changes, finishedAt : SUBSET Instant]
Database    == [events : SUBSET EventRow, progress : SUBSET ProgressRow,
                revision : Nat]
Ack         == [id : EventIds, rev : Nat, disposition : Disposition,
                duplicate : BOOLEAN]
Transaction == [by : Clients, cursor : Nat, todo : Seq(Changes),
                acks : SUBSET Ack, db : Database]
Status      == {"none", "ok", "invalid_change", "unknown_edition",
                "event_id_conflict", "version_mismatch", "internal_error"}
Reply       == [status : Status, cursor : Nat, hasMore : BOOLEAN,
                acks : SUBSET Ack, progress : SUBSET ProgressRow]

Answer(status) == [status |-> status, cursor |-> 0, hasMore |-> FALSE,
                   acks |-> {}, progress |-> {}]

NoReply == Answer("none")

-----------------------------------------------------------------------------
(* The order that decides which event is canonical. *)

\* The upsert's WHERE clause: the text of occurred_at, then the revision.
Beats(a, b) ==
  \/ TextLater(a.change.at, b.change.at)
  \/ a.change.at = b.change.at /\ a.rev > b.rev

ValidChange(c) ==
  /\ c.form /= "malformed"
  /\ ~Later(c.at, [sec |-> now + MaxFutureClockSkew, frac |-> 0])

KnownEdition(c) ==
  c.edition \in editions /\ EditionBook[c.edition] = c.book /\ c.book \in visible

RowsOf(b, rows) == {r \in rows : r.change.book = b}

\* Mutant: marking a book unread keeps the date it was finished.
FinishedAtKept(c, current) ==
  LET kept == UNION {p.finishedAt : p \in current}
  IN  IF kept = {} /\ c.place \in FinishedPlaces THEN {c.at} ELSE kept

\* finished_at of a winning change over the book's current rows: the first
\* time the book was finished is kept until it is marked unread again.
FinishedAt(c, current) ==
  IF c.place \notin FinishedPlaces THEN {}
  ELSE LET kept == UNION {p.finishedAt : p \in current}
       IN  IF kept = {} THEN {c.at} ELSE kept

\* Mutant: the upsert without its WHERE clause, last arrival wins.
RecordChangeLastArrival(d, c) ==
  LET current == RowsOf(c.book, d.progress)
  IN  [events   |-> d.events \cup {[rev |-> d.revision + 1, change |-> c,
                                     disposition |-> "applied"]},
       progress |-> (d.progress \ current) \cup
                      {[rev |-> d.revision + 1, change |-> c,
                        finishedAt |-> FinishedAt(c, current)]},
       revision |-> d.revision + 1]

\* Mutant: a winning event also marks the book's older ones superseded.
RecordChangeRewriting(d, c) ==
  LET n == RecordChangeLastArrival(d, c)
  IN  [n EXCEPT !.events =
         {IF e.change.book = c.book /\ e.rev < n.revision
          THEN [e EXCEPT !.disposition = "superseded"] ELSE e : e \in @}]

\* INSERT INTO reading_events, then the conditional upsert of the book's
\* canonical row and the disposition it earned.
RecordChange(d, c) ==
  LET entry   == [rev |-> d.revision + 1, change |-> c]
      current == RowsOf(c.book, d.progress)
      wins    == \A p \in current : Beats(entry, p)
      row     == [rev |-> entry.rev, change |-> c,
                  finishedAt |-> FinishedAt(c, current)]
  IN  [events   |-> d.events \cup
                      {[rev |-> entry.rev, change |-> c,
                        disposition |-> IF wins THEN "applied" ELSE "superseded"]},
       progress |-> IF wins THEN (d.progress \ current) \cup {row} ELSE d.progress,
       revision |-> entry.rev]

\* reading_events after the cursor that the reader may see, and the page of
\* them, oldest first, that one response covers.
Unseen(d, cursor) == {e \in d.events : e.rev > cursor /\ e.change.book \in visible}

Page(d, cursor) ==
  LET unseen == Unseen(d, cursor)
  IN  {e \in unseen :
         Cardinality({f \in unseen : f.rev < e.rev}) < PullPageSize}

\* Mutant: an empty page answers with no cursor.
NextCursorUnset(d, cursor) ==
  LET page == Page(d, cursor)
  IN  IF page = {} THEN 0
      ELSE CHOOSE r \in {e.rev : e \in page} : \A e \in page : e.rev <= r

NextCursor(d, cursor) ==
  LET page == Page(d, cursor)
  IN  IF page = {} THEN cursor
      ELSE CHOOSE r \in {e.rev : e \in page} : \A e \in page : e.rev <= r

ChangedBooks(d, cursor) == {e.change.book : e \in Page(d, cursor)}

-----------------------------------------------------------------------------
(* One request. *)

\* withVersionCheck, in front of every handler: app and server must be of one
\* minor release.
RefuseVersion(client) ==
  /\ reply[client] = NoReply
  /\ \A t \in tx : t.by /= client
  /\ reply' = [reply EXCEPT ![client] = Answer("version_mismatch")]
  /\ UNCHANGED <<db, tx, editions, visible, now>>

\* ErrTooManyChanges and the checks made before the transaction starts.
RefuseSync(client, changes) ==
  /\ reply[client] = NoReply
  /\ \A t \in tx : t.by /= client
  /\ \/ Len(changes) > MaxBatchSize
     \/ \E i \in 1 .. Len(changes) : ~ValidChange(changes[i])
  /\ reply' = [reply EXCEPT ![client] = Answer("invalid_change")]
  /\ UNCHANGED <<db, tx, editions, visible, now>>

\* Mutant: two transactions write at once.
BeginSyncTogether(client, cursor, changes) ==
  /\ reply[client] = NoReply
  /\ Len(changes) <= MaxBatchSize
  /\ \A i \in 1 .. Len(changes) : ValidChange(changes[i])
  /\ tx' = tx \cup {[by |-> client, cursor |-> cursor, todo |-> changes,
                     acks |-> {}, db |-> db]}
  /\ UNCHANGED <<db, reply, editions, visible, now>>

BeginSync(client, cursor, changes) ==
  /\ tx = {}
  /\ reply[client] = NoReply
  /\ Len(changes) <= MaxBatchSize
  /\ \A i \in 1 .. Len(changes) : ValidChange(changes[i])
  /\ tx' = {[by |-> client, cursor |-> cursor, todo |-> changes,
             acks |-> {}, db |-> db]}
  /\ UNCHANGED <<db, reply, editions, visible, now>>

\* An error return: tx.Rollback, and the status the handler maps it to.
Rollback(t, status) ==
  /\ tx' = {}
  /\ reply' = [reply EXCEPT ![t.by] = Answer(status)]
  /\ UNCHANGED <<db, editions, visible, now>>

Advance(t, d, ack) ==
  /\ tx' = {[by |-> t.by, cursor |-> t.cursor, todo |-> Tail(t.todo),
             acks |-> t.acks \cup {ack}, db |-> d]}
  /\ UNCHANGED <<db, reply, editions, visible, now>>

\* Mutant: the event ID is not looked up first.
RecordNewUnchecked(t) ==
  LET c == Head(t.todo)
      d == RecordChange(t.db, c)
  IN
  /\ t.todo /= <<>>
  /\ KnownEdition(c) /\ c.form = "good"
  /\ Advance(t, d, [id |-> c.id, rev |-> d.revision, disposition |-> "applied",
                    duplicate |-> FALSE])

RecordNew(t) ==
  LET c == Head(t.todo) IN
  /\ t.todo /= <<>>
  /\ KnownEdition(c) /\ c.form = "good"
  /\ \A e \in t.db.events : e.change.id /= c.id
  /\ LET d == RecordChange(t.db, c)
         e == CHOOSE e \in d.events : e.rev = d.revision
     IN  Advance(t, d, [id |-> c.id, rev |-> d.revision,
                        disposition |-> e.disposition, duplicate |-> FALSE])

\* existingAcknowledgement: the same event again gets its first answer.
RecordDuplicate(t) ==
  LET c == Head(t.todo) IN
  /\ t.todo /= <<>>
  /\ KnownEdition(c) /\ c.form = "good"
  /\ \E e \in t.db.events :
       /\ e.change = c
       /\ Advance(t, t.db, [id |-> c.id, rev |-> e.rev,
                            disposition |-> e.disposition, duplicate |-> TRUE])

RecordConflict(t) ==
  LET c == Head(t.todo) IN
  /\ t.todo /= <<>>
  /\ KnownEdition(c) /\ c.form = "good"
  /\ \E e \in t.db.events : e.change.id = c.id /\ e.change /= c
  /\ Rollback(t, "event_id_conflict")

RecordUnknown(t) ==
  /\ t.todo /= <<>>
  /\ ~KnownEdition(Head(t.todo))
  /\ Rollback(t, "unknown_edition")

RecordWrongFormat(t) ==
  /\ t.todo /= <<>>
  /\ KnownEdition(Head(t.todo)) /\ Head(t.todo).form /= "good"
  /\ Rollback(t, "invalid_change")

\* Mutant: the answer is written though the commit failed.
CommitSyncUnwritten(t) ==
  /\ t.todo = <<>>
  /\ db' = db
  /\ tx' = {}
  /\ reply' = [reply EXCEPT ![t.by] =
       [status |-> "ok", cursor |-> NextCursor(t.db, t.cursor), hasMore |-> FALSE,
        acks |-> t.acks, progress |-> {}]]
  /\ UNCHANGED <<editions, visible, now>>

CommitSync(t) ==
  LET changed == ChangedBooks(t.db, t.cursor) IN
  /\ t.todo = <<>>
  /\ \A b \in changed : RowsOf(b, t.db.progress) /= {}
  /\ db' = t.db
  /\ tx' = {}
  /\ reply' = [reply EXCEPT ![t.by] =
       [status |-> "ok", cursor |-> NextCursor(t.db, t.cursor),
        hasMore |-> Unseen(t.db, t.cursor) /= Page(t.db, t.cursor),
        acks |-> t.acks,
        progress |-> UNION {RowsOf(b, t.db.progress) : b \in changed}]]
  /\ UNCHANGED <<editions, visible, now>>

\* currentProgress finds no canonical row for a changed book: the request
\* fails with 500 and everything it recorded is rolled back.
CommitWithoutRow(t) ==
  /\ t.todo = <<>>
  /\ \E b \in ChangedBooks(t.db, t.cursor) : RowsOf(b, t.db.progress) = {}
  /\ Rollback(t, "internal_error")

\* SQLITE_BUSY, a disk error or a restarted server.
Abort(t) == Rollback(t, "internal_error")

Handle(t) ==
  \/ RecordNew(t) \/ RecordDuplicate(t) \/ RecordConflict(t)
  \/ RecordUnknown(t) \/ RecordWrongFormat(t)
  \/ CommitSync(t) \/ CommitWithoutRow(t)

SyncStep == \E t \in tx : Handle(t) \/ Abort(t)

-----------------------------------------------------------------------------
(* The client takes its answer; administrators and the clock. *)

TakeReply(client) ==
  /\ reply[client] /= NoReply
  /\ reply' = [reply EXCEPT ![client] = NoReply]
  /\ UNCHANGED <<db, tx, editions, visible, now>>

\* Library membership decides visibility at the moment of each query.
SetVisible(books) ==
  /\ tx = {}
  /\ visible' = books
  /\ UNCHANGED <<db, tx, reply, editions, now>>

\* Delete of a book, and removal of a watched source with its catalog rows:
\* ON DELETE CASCADE takes the events and canonical rows of the editions.
Removable == {{ed \in Editions : EditionBook[ed] = b} : b \in Books} \cup {WatchedEditions}

\* Mutant: reading_progress without ON DELETE CASCADE.
RemoveEditionsOnlyEvents(removed) ==
  /\ tx = {}
  /\ removed \cap editions /= {}
  /\ editions' = editions \ removed
  /\ db' = [db EXCEPT !.events = {e \in @ : e.change.edition \notin removed}]
  /\ UNCHANGED <<tx, reply, visible, now>>

RemoveEditions(removed) ==
  /\ tx = {}
  /\ removed \cap editions /= {}
  /\ editions' = editions \ removed
  /\ db' = [events   |-> {e \in db.events : e.change.edition \notin removed},
            progress |-> {p \in db.progress : p.change.edition \notin removed},
            revision |-> db.revision]
  /\ UNCHANGED <<tx, reply, visible, now>>

Tick ==
  /\ now < MaxNow
  /\ now' = now + 1
  /\ UNCHANGED <<db, tx, reply, editions, visible>>

-----------------------------------------------------------------------------

StoreInit ==
  /\ db = [events |-> {}, progress |-> {}, revision |-> 0]
  /\ tx = {}
  /\ reply = [c \in Clients |-> NoReply]
  /\ editions = Editions
  /\ visible = Books
  /\ now = 0

Request(client, cursor, changes) ==
  \/ RefuseSync(client, changes)
  \/ BeginSync(client, cursor, changes)

StoreNext ==
  \/ \E client \in Clients, cursor \in Cursors, changes \in Batches :
       Request(client, cursor, changes)
  \/ SyncStep
  \/ \E client \in Clients : RefuseVersion(client) \/ TakeReply(client)
  \/ \E books \in SUBSET Books : SetVisible(books)
  \/ \E removed \in Removable : RemoveEditions(removed)
  \/ Tick

StoreSpec == StoreInit /\ [][StoreNext]_storeVars


-----------------------------------------------------------------------------
(* Properties. *)

TypeOK ==
  /\ db \in Database
  /\ tx \subseteq Transaction
  /\ \A t, u \in tx : t = u
  /\ reply \in [Clients -> Reply]
  /\ editions \subseteq Editions
  /\ visible \subseteq Books
  /\ now \in Nat

\* A book none of whose editions was ever removed.
Intact(b, present) == \A ed \in Editions : EditionBook[ed] = b => ed \in present

\* No two log rows share a revision or a client event ID, no two canonical
\* rows a book, and revisions never run ahead of the counter: the keys that
\* make a retried event recognisable, kept by hand across every rollback.
Keys(d) ==
  /\ \A e, f \in d.events :
       (e.rev = f.rev \/ e.change.id = f.change.id) => e = f
  /\ \A e \in d.events : e.rev <= d.revision
  /\ \A p, q \in d.progress : p.change.book = q.change.book => p = q

\* Every canonical row is the row of a logged event that was acknowledged as
\* applied: the position a reader gets back was really read.
Logged(d) ==
  \A p \in d.progress :
    \E e \in d.events : e.rev = p.rev /\ e.change = p.change /\ e.disposition = "applied"

\* The canonical row of a book beats every other event of it in the log, in
\* the order of the upsert, whatever the arrival order, batching, retries and
\* rollbacks; a book with an event always has a canonical row.
Latest(d) ==
  \A e \in d.events : Intact(e.change.book, editions) =>
    \E p \in d.progress : /\ p.change.book = e.change.book
                          /\ p.rev = e.rev \/ Beats(p, e)

\* A book is shown finished exactly when its canonical position is, and the
\* date it shows is one at which some logged event finished it.
Finished(d) ==
  \A p \in d.progress :
    /\ p.finishedAt = {} <=> p.change.place \notin FinishedPlaces
    /\ Intact(p.change.book, editions) =>
         \A f \in p.finishedAt : \E e \in d.events :
           /\ e.change.book = p.change.book /\ e.change.at = f
           /\ e.change.place \in FinishedPlaces

KeysOK == Keys(db)
CanonicalIsLogged == Logged(db)
CanonicalIsLatest == Latest(db)
FinishedMatchesCanonical == Finished(db)

\* What an acknowledgement says of an event is what the log says of it, for
\* as long as the event's edition is in the catalog.
Acknowledged(a, d) ==
  \E c \in Changes :
    /\ c.id = a.id
    /\ c.edition \in editions =>
         \E e \in d.events : e.change = c /\ e.rev = a.rev /\ e.disposition = a.disposition

\* A client that reads "acknowledged", however late, may drop the event: it
\* is in the committed log under that revision and disposition.
AcksAreDurable ==
  \A client \in Clients : \A a \in reply[client].acks : Acknowledged(a, db)

\* docs/offline-sync.md: "the event with the latest occurredAt becomes
\* canonical".  The upsert compares text, and the text of a later instant may
\* sort first.
CanonicalHasLatestTime ==
  \A e \in db.events : Intact(e.change.book, editions) =>
    \A p \in RowsOf(e.change.book, db.progress) : ~Later(e.change.at, p.change.at)

\* A delayed, retried or superseded event never moves the canonical position
\* of a book backwards.
CanonicalNeverRegresses ==
  [][\A p \in db.progress : Intact(p.change.book, editions') =>
       \E q \in db'.progress : /\ q.change.book = p.change.book
                               /\ q = p \/ Beats(q, p)]_storeVars

\* Only the removal of its edition takes an event out of the log, and nothing
\* rewrites one: revisions and dispositions stay as first acknowledged.
LogIsAppendOnly ==
  [][\A e \in db.events : e.change.edition \in editions' => e \in db'.events]_storeVars

=============================================================================
