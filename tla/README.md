# BookHarbor verification

TLA+ specifications of BookHarbor, the TLC configurations that check them on
small instances, and TLAPS proofs of what matters most for every instance.

BookHarbor is a self-hosted ebook server (`src/apps/server`, Go, one process
over one SQLite database and a data directory), an Android reader
(`src/apps/android`, Kotlin) that works offline and synchronises, and an
administration console (`src/apps/admin`, React). Paths below are relative to
`src/`; `internal/` is `apps/server/internal/`, `app/` is
`apps/android/app/src/main/java/dev/bookharbor/app/` and `admin/` is
`apps/admin/src/`.

## 1. Inventory

| Component | State | Operations | Correct when |
|---|---|---|---|
| **Reading store** `internal/reading/store.go`, `httpapi/progress.go` | `reading_events` (append-only log, key event ID), `reading_progress` (canonical row per reader and book), revision counter | `Sync`: validate, insert events, upsert canonical rows, page changes after a cursor; one transaction. Editions vanish by cascade | one canonical row per book, the latest event of its log; answers speak of durable data; retries and reordering harmless |
| **Progress sync** `app/sync/{SyncEngine,HttpSyncApi,SqliteProgressStore,ProgressRecorder,SyncWorker}.kt` | local positions, outbox, cursor; engines in flight | record, send a batch, isolate a refused event, reject, merge an answer, clear at sign-out | nothing recorded is lost; a device shows the newest reading it has been told of; the queue drains |
| **Annotations** `internal/annotations/store.go`, `app/reader/Annotations.kt`, `app/sync/AnnotationSync.kt` | server table with tombstones and revisions; device table with dirty marks; the open book's list | add, note, delete; push and pull with last edit wins, clamped clocks | the last edit survives; losers converge; a delete reaches everyone |
| **Sessions** `internal/identity/session.go`, `httpapi/auth.go`, `admin/lib/api.ts` | sessions with hashed access and refresh tokens; a session in local storage and in the memory of each page | sign in and out, authenticate, rotate, revoke; one refresh for all the calls answered 401; retry a call once | a refresh token works once; a retried call is carried out once |
| **Book requests** `internal/requests/store.go`, `httpapi/{requests,shelfmark}.go`, `admin/views/requests.tsx`, `admin/lib/queries.ts` | a request and its status, the book that fulfilled it, Shelfmark downloads in memory; groups, sheets and the list of a page | ask, find, upload or download, fulfil, decline, cancel | one decision a request; a fulfilled request has content; what is announced is done |
| **Book details** `internal/library/metadata.go`, `admin/views/book-editor.tsx` | fields with locks and origins; a form and a cached row per editor | edit, lock, take a suggestion, save, refresh from the EPUB, rescan | the origin shown is true; a refresh brings back nothing old |
| **Catalog and libraries** `internal/library/{store,catalog}.go`, `admin/views/{library,import-panel,libraries-panel}.tsx`, `admin/lib/queries.ts` | books and the library of each; the list of a page, its fetch, its imports | list page by page, import, remove, move, save and delete a library | every book is in a library; pages are complete; the list follows |
| **Accounts, readers page** `internal/identity/{store,reset,opds}.go`, `httpapi/auth.go`, `admin/views/readers.tsx`, `admin/lib/queries.ts` | users, roles, disabled, password, reset codes, connections for reader apps; the list of a page | create, promote, demote, disable, enable, remove, reset, connect, revoke | one active administrator always; no connection outlives its password; the list follows |
| **Tokens on Android** `app/library/ApiClient.kt` | one session of the device | refresh once on a 401, sign out | as for the console |
| **Managed files** `internal/library/{store,media,objects,convert}.go`, `objectstore/` | catalog rows, files under the data directory, S3 objects | import, replace, convert, move to S3, delete | every edition has its bytes; no row points at a removed file |
| **Watched sources** `internal/library/watched.go` | sources, files with missing counts, editions in place | scan, match a rename, mark missing, remove a source | a short absence or a failed walk loses nothing |
| **Web novels** `internal/webnovel/` | followed novels, fetched chapters, published edition | follow, pass, publish, recheck, unfollow | a crash repeats no book; a recheck is not forgotten |
| **Social, lists, settings** `internal/{social,lists,settings}/` | friendships, shelves, settings | ask, accept, remove, add | one friendship per pair, agreed by both |
| **Downloads, catalog cache** `app/library/` | partial and complete files, cached pages | resume, verify, refresh | an opened file is one whole edition |
| **Reader** `app/reader/` | page index, marks, statistics | paginate, locate, count days | the position survives re-pagination |
| **Export, restore** `internal/export/` | a zip of database and files | offline commands | a restored server is the exported one |
| HTTP routing, OPDS, mail, ntfy, audit, metadata search; console settings, web novels, activity, backup, components | none, or single inserts | translation, forms over single calls, I/O | not modelled |

**How they interact.** The app and the console call the server's HTTP API; every
call is one request and one answer, so a caller can stop waiting while the
server goes on. Server packages share the database: removing a source or a book
deletes, by `ON DELETE CASCADE`, events, canonical rows and annotations, and
unlinks fulfilled requests; `catalogaccess` predicates are evaluated in every
query and may change between two requests. Handlers that check something before
their transaction may find it changed inside. On the device, one database per
concern is shared by the reader's screen, two uniquely named WorkManager jobs,
the sync button and sign-out. Each of those may run an engine. In the console,
the pages of one browser share a session through local storage, and each keeps
copies of what it fetched (TanStack Query), which it patches with the answers to
its own calls or fetches again.

**What is hard.** Lost, late and repeated requests; several devices with clocks
that disagree; several engines of one device; a batch, or a group, of which one
member fails; transactions that fail half way; rows that disappear under
a cursor; sign-out while calls are in flight; server and client of different
releases; answers that come in another order than they were asked for; forms
that stay open while their row changes; checks made before a transaction.
`PROJECT.json` lists the hazards at their lines.

## 2. Modules

| Module | What it is |
|---|---|
| `Instants` | Times of day as the program compares them: parsed, and as RFC 3339 text whose trailing zeros are dropped |
| `ReadingStore` | The server's reading store: `Sync` as a transaction begun, advanced one event at a time and committed or rolled back, its answers, removal of editions, visibility, the clock |
| `ProgressRegister` | Abstract: per book, a register that holds the newest accepted entry |
| `ReadingStoreRegister` | The refinement mapping from `ReadingStore` to `ProgressRegister` |
| `ProgressSync` | `ReadingStore` composed with devices, engines and a network |
| `AnnotationStore` | The server's annotation store, one step an exchange |
| `AnnotationSync` | `AnnotationStore` composed with devices, open books, engines and a network |
| `ConsoleSession` | The session table composed with the pages of one browser and their calls |
| `ConsoleRequests` | Requests, downloads and their followers composed with the requests page |
| `BookEditor` | A book's row and EPUB composed with the editors open on it |
| `ConsoleCatalog` | Books and libraries composed with the library page |
| `ConsoleReaders` | Accounts and connections composed with the readers page and other administrators |
| `…Proofs` | Proofs about the module of that name: `ReadingStore` (with the refinement), `ProgressSync`, `AnnotationSync` and the five console modules |
| `MC…` | Values for small instances |

### State and actions

`ReadingStore`: `db` is the committed pair of tables, `tx` the open
transaction with its own copy (SQLite serialises writers: a request that races
with another waits or fails). `BeginSync`, `RecordNew`, `RecordDuplicate`,
`RecordConflict`, `RecordUnknown`, `RecordWrongFormat`, `CommitSync`,
`CommitWithoutRow` and `Abort` are the paths of `Sync`; `RemoveEditions` is
`RemoveSource` with its cascade; `SetVisible` is any change of library access;
`reply` is the answer a client has not read yet.

`ProgressSync`: `position`, `outbox`, `cursor` are the three tables of
`SqliteProgressStore`; `engine[e].pc` says where a thread stands in `runOnce`.
`Record`, `ReadOutbox`, `Send`, `Applied`, `Check`, `StartIsolating`, `Reject`
and `ServerFailed` are its steps. A device transaction is one step, because
SQLite makes it one; between two steps anything may happen. `Fail` covers the
killed process, the lost request, the lost answer and the request that arrives
after the client gave up. `SignOut` and `Clear` are the two halves of
`AppController.signOut`, `Expire` is the worker's 401. `UpdateServer` and
`UpdateApp` move releases apart, which `withVersionCheck` answers with 426.

`AnnotationStore`: one transaction is one step (`Sync`), for it is all or
nothing and its first write takes the write lock. `Stored` and `AnswerTo` say what it
keeps and answers. `RemoveBook`, `Withhold`, `Grant` are the catalog's doing.

`AnnotationSync`: `rows` is the device's table, `listed` and `orphaned` what an
open book lists with and without a row behind it. The text of an edit is its
number, so the model can tell every edit from every other.

`ConsoleSession`: `table` is the session table; `stored` is local storage,
`current[t]` the variable of `api.ts` in page `t`. The access and the refresh
token issued together are one numbered pair, so presenting an old one is
visible. `RefreshSession` is two steps, `FindSession` (the SELECT) and `Rotate`
or `RotateNothing` (the conditional UPDATE). `Present` and `Join` are the two
ways into `refreshSession`, `Renewed` and `NotRenewed` its outcomes, which also
release every call that waited; `Settle` is what the code after `await` does.
`Refuse` is the 426, `LearnRelease` the poll of `/instance`, `Reload` a new page.

`ConsoleRequests`: whoever works through a group of requests is a worker with
one `work` record: the list row that declines, the sheet that fulfils, the
goroutine `followShelfmarkDownload`. `Fulfill` is two steps, `BookExists` and
`Resolve`, because the book is looked up before the conditional UPDATE. A group
is worked through call by call (`CallDone`, `CallFailed`). `downloads` is the
map in the server's memory that `Restart` empties. `Invalidated` is TanStack's
`invalidateQueries`: a fetch under way is cancelled and another started.

`BookEditor`: `book` is the row, `cached[e]` the `["book", id]` entry of the
page, `form[e]` the form. `Type`, `ToggleLock` and `Use` are the three ways to
change a form, `Save` sends the fields that differ from the cached row and all
locks, `Patched` is `UpdateMetadata`, `Extracted` what a rescan or a refresh
does. `ReadEpub` and `RefreshMetadata` are apart because the file is read before
the writer is taken. `Look` stands for every other call whose answer is the row.

`ConsoleCatalog`: books are numbered, newest first, so a number is also a
cursor. `PageAt` and `NextAfter` are `search`; `fetch` collects pages one answer
at a time, `Arrive` asks for the next or shows them. `list.now.steady` and
`fetch.got.steady` are histories: books that were there from the first request
of that listing on. `MakeBook`, `MoveBook`, `DeleteBook`, `SaveLibrary` and
`DeleteLibrary` are the server's statements; `Elsewhere` lets anyone run them.

`ConsoleReaders`: a call goes through `Allow` (session, role, "not yourself",
the old password) and `Commit` (the transaction, `Transaction`), with anything
in between. `signed` is where each administrator's sign-in stands: `CreateSession`
is `CheckPassword` and `InsertSession`. `list` is what `setReaders` patches
(`Patched`). `off` is a history: accounts whose row the page cannot know.

### Abstractions

Text, locators, percentages and JSON are values of small sets. A payload is a
`place`; one that validation refuses has a `form` that says so. Times are
seconds and a fraction where their text is compared, numbers elsewhere. One
reader is modelled in the sync modules: every table is keyed by user and no
query crosses users. A 401 followed by a successful refresh is the same request
to these models. Sending a batch twice is modelled as such, TCP retransmission
is not. In `AnnotationSync` the two halves of sign-out are one step: only
reading progress has the window between them. A request the annotation store
refuses or fails is one that is lost (`Fail`).

In the console modules: a password is the number of times it was set; a title,
a suggestion and what an EPUB says are values; a file is what it makes of
a book. Filters, display names and covers are left out, and so is what a book
says in `ConsoleCatalog`. TanStack Query is modelled from how the code uses it:
`invalidateQueries` cancels and restarts a fetch once there are data, and leaves
the first one alone; a fetch that fails after its retries leaves an error;
queries are stale after 30 seconds and not fetched again on focus
(`admin/main.tsx`).

## 3. Runs

| Run | Instance | Shows |
|---|---|---|
| `reading_store` | 1 client, 2 books, 3 editions, 8 changes: valid, tied, early, malformed, reused ID | Every store property, and the refinement to a register |
| `progress_sync` | 2 devices with an engine each, 2 events of a book and 1 of another, pages of 1, 1 failure | No cursor goes back; what devices show agrees with the server |
| `progress_sync_threads` | 1 device with 2 engines, a refused event, a removable edition, 1 session end | With concurrent engines no fresh reading is hidden and only hopeless events are given up |
| `progress_sync_live` | 1 engine, early event, hidden book, 2 releases, 1 failure | The queue drains; the device catches up |
| `annotations` | 2 devices with an engine each, 3 edits of an annotation, 2 clock readings, a volatile book, 1 failure | Last edit wins; no edit lost; losers converge |
| `annotations_threads` | 1 device with 2 engines, 3 edits, clocks ahead, a refused edit, 1 sign-out | No edit lost with concurrent engines and clamped clocks |
| `annotations_live` | 2 devices, 2 annotations, pages and batches of 1, 1 failure | Every edit is sent, every change is heard of; runs end |
| `console_session` | 2 pages of a browser, 2 calls, an administrator and a reader, 2 pairs, 1 lost call, 1 reload, 1 upgrade | A token is exchanged once and presented once; a retried call is carried out once |
| `console_requests` | 1 page with list and sheet, 1 follower, a group of 2 requests, 1 book, 1 release, 1 fetch besides those of calls, restarts | One decision stands; fulfilled means content; announced means done; the list forgets |
| `book_editor` | 2 editors, 2 fields, an EPUB replaced once, a suggestion, 4 acts | Origins stay true; a refresh is current |
| `console_catalog` | 3 books, pages of 1, 2 libraries, 1 file to import | Every book shelved; pages complete; the list follows |
| `console_readers` | 2 administrators and a reader, 1 connection, 2 calls, 3 acts | An administrator remains; connections are current; rows follow |

**Bounds.** *Sync.* The store has at most one open transaction, so a second
client would add only another waiting answer; several clients are in the
composed runs. Batches of 2 are enough for a batch with one bad event, isolation
and a partial failure; a page of 1 makes every second answer say `hasMore`;
2 pages a run let a run stop early with work left. Three events or edits give
a first, a competing and a late one, or, in `progress_sync`, two that compete and
one of another book, so that a page can end between the books. One failure in a run of two devices is
enough for each retry to meet its own first attempt; two failures were tried on
one device. `MaxNow` lets the clock pass the skew once. `MaxSignOuts = 1` lets
one session end with calls in flight, and the next begin. The real limits (200
events, 100 edits, 500 rows, 50 pages) differ only in size. Symmetry swaps two devices
with their engines, two engines of a device, two pages, two calls or two
editors; it is used in no run with a liveness property.

*Console.* Two calls let one refresh while the other waits, or two pages present
the same token; the second pair is what a rotation or another sign-in issues.
A group of two has a first and a last member, so an error can fall before, between and
after. Four acts let one editor change and save while another does, or one to
type over a suggestion and refresh. Three books and pages of one give a page
that is gone, a cursor that is gone and a book that comes between; the
constraint `SecondLibraryApart` explores the second library with two books only,
for shelving and paging do not meet. Three acts let two administrators act on
each other and a third call, or a mailed reset, fall between. The proofs need
none of these bounds.

**Deadlock** is checked in the seven sync runs: a device can always start
another run. The console runs say `CHECK_DEADLOCK FALSE`: the histories they
bound (pairs, acts, requests made) run out, and a page with nothing left to do
may stop.

**Fairness.** `StartRun` is weakly fair: WorkManager repeats a failed job and a
daily job starts one when none is left (`SyncWorker.kt:49-74`). The steps of an
engine are weakly fair: a thread goes on. The server answers: weakly fair in
`AnnotationSync`, strongly fair in `ProgressSync` where a request must wait for
another transaction to end, as SQLite's busy timeout makes it. Nothing else is
fair: nobody must record, sign in, update or administer. For annotations,
`StartRun` takes for granted that progress sync, which precedes it in the job,
does not fail for ever (`SyncWorker.kt:26-27`). The console modules state no
fairness: nobody makes an administrator press a button or the network answer.

**What the properties leave out.** `Told` in `ProgressSync` says what a device
has been told: every logged event of the book lies at or below its cursor. An
answer may acknowledge the device's own event in a page that ends before it, and
until the next page the device shows that event though a later one is canonical.
`ShowsCanonical` and `CursorNeverRewinds` are about devices with one engine
(`Alone`), like `ShowsWinner`: with two, the older of two answers can be merged
last, and nothing sends the newer version again. `ShowsWinner` also leaves out
books granted again and edits the server refuses, for the same reason. `Settled` counts an edit stamped beyond `MaxFutureSkew` as settled
by any row of its annotation: it counts as made when the server took it.
`RowsFollow` leaves out accounts in `off`, `ListFollows` imports whose fetch
*Load more* cut short, `ListForgets` what a follower of a download did, whom no
page is told of. Section 5 says what happens there.

## 4. Proofs

Checked by TLAPS for every value of the constants that satisfies the
assumptions the modules state (finite batches of known changes, positive page
sizes, engines on devices, finitely many annotations and requests, a `None` that
is none of the values it stands beside, an administrator to begin with).

*Reading store.* The invariant is `IInv` in `ReadingStoreProofs`: `TypeOK`, and
`Good` of the committed tables and of every open transaction's copy, where
`Good` joins the key, canonical, logged and finished invariants (the upsert
keeps the latest only if what it compares with was the latest, and
`finished_at` agrees only if the row came from a logged event), every open copy
`Extends` the committed log, and acknowledgements, delivered or still in
a transaction, name rows of the table they speak of. Without the clauses about
open transactions commit would not preserve the others. `RecordChangeKeeps`
carries the one hard step. The refinement `StoreImplementsRegister` follows from
`IInv`: a commit accepts what it adds, `RemoveEditions` forgets.

*Progress sync: lost work.* `SyncInv` adds to `IInv` that every event anywhere
(positions, outboxes, batches, requests, transactions, the log) has been
recorded, and that every acknowledgement names an event that is logged or whose
edition is gone. `NoQueuedWorkLost` is inductive with these two: an outbox row
leaves only for an acknowledgement, and the acknowledgement vouches for the
event.

*Progress sync: fresh activity.* `FreshActivityVisible` needs the order in which
an outbox empties. `RoundTrip`: an engine that waits has at most one of a request,
a transaction or an answer on its way, and all it names is the engine's batch.
`OldestFirst`: an engine sends an event, alone or in a batch, after every older
one of its device that is still pending, so what an answer leaves of the outbox is
newer than what it acknowledges, whichever of several engines it is for. While an
event of a book is left, no position of the book is adopted.

*Progress sync: cursors.* `CursorsAhead`: where a device runs one engine, the
cursor of its request, of the transaction that serves it and of the answer is no
less than the device's. `CursorNeverRewinds` holds for every value of the
constants; removals, aborts and requests that arrive when nobody waits included.

*Progress sync: refusals.* `RefusedAreHopeless`: a batch of one that is refused
holds an event the server never takes. It is proved under `Settled`
(`ProgressSync`): releases and access stay, and the clock does not reach an event
that is ahead of it. Where they change the statement is false (section 5), and an
event ahead of the clock is given up though it would be taken later; removals,
sign-outs and any number of engines are allowed.

*Progress sync: what is shown.* `ShowsInv` says what a cursor stands for. An
answer has the canonical position of every book that is due at the cursor asked
from and not due after the cursor answered (`TellsAll`), because a page is an
interval of the log (`PageClosed`) and what an open transaction adds is newer than
any cursor (`TxFresh`). What a device shows is logged or still in its outbox
(`PositionsKnown`); an event that was sent and is still pending is in the batch
being sent (`SentInBatch`, by the rank of a row in its queue, which only falls),
so a logged event that is pending is ahead of the cursor (`PendingAhead`).
`ToldOrNot` is inductive with these: of every canonical position a device is due
an event, has one of the book to send, or shows it. `Calm` is its hypothesis: no
administrator, sign-out or update, events the server takes, and within a book
distinct times whose texts sort like the times. Each conjunct excludes a case of
section 5. The network, failures, aborts, devices, batch and page sizes and the
number of events are free. `MCProgressSync` asserts that the instance of
`progress_sync` is calm and that of `progress_sync_threads` settled, so the
hypotheses hold where TLC looks.

*Annotations.* `AInv` adds to the types and keys: a device has one row an
annotation; edits are numbered, and a device makes at most one edit of an
annotation in an instant; what is marked dirty or stands in a batch is an edit
of that device; a request somebody waits for carries that engine's batch and is
the only one; and an answer vouches for the batch, which means that whatever it
accepts or rejects is settled at the server. A mark is cleared only where the
row is still the version that was sent, so `NoEditLost` is inductive beside
these. `NewestKept` needs no invariant but the types: `SyncKeeps` shows that an
exchange keeps a row or replaces it by a later one.

`ShowsWinner` rests on `WInv`, which says what a cursor stands for: no cursor is
ahead of the server's counter (`CursorsKnown`), so what an exchange stores is
past all of them; an engine alone on its device asks from the device's cursor
(`AskedFromHere`); an answer not applied yet tells the device of every row its
cursor will be past, by the page, or by the winners it adds for edits that lost
(`AnswersTell`, from `PageComplete`: a page holds every unseen row up to the
cursor it returns); and only what nobody could take is rejected (`RejectsFine`).
Applying such an answer shows the rows it tells of and disturbs no other
(`LeftShows`). Without the added winners a device whose cursor is already past
the winner would clean its losing row and show it for ever.

*Sessions.* `SessionInv`: every pair anyone knows has been issued (`Bounds`);
a row's pair is its own and was never exchanged (`Exchanges`, hence
`ExchangedOnce`: the conditional UPDATE takes the pair away with the exchange);
a call that will be sent again has left no effect (`Effects`, hence
`CarriedOutOnce`); pages and the calls they make are administrators'
(`OfAdmins`), which the type of a page's session needs when a refresh brings it
a user; and a page that holds a pair it has presented is still waiting for that
exchange, while the pairs on their way to it are new to it and to one another
(`Presentations`). `PresentedOnce` is the guard of `Present` against the last.

*Requests.* `RequestInv`: what a worker has gone through of its group is settled
as it decided, up to a book deleted since (`WorkOK`), so what it announces at
the end is true (`AnnouncedIsDone`); no answer a page will take in lists what it
announced (`Forgets`), because each call that succeeds starts the fetch again.
`ResolvedOnce` and `DoneHasContent` follow from the one UPDATE of `Resolve`.

*Book details.* `OriginsInv`: a form, and a save on its way, claims the search
only for what the search said, and never the EPUB (`FormsHonest`); answers carry
rows. With it a save, a refresh and a rescan each leave every origin true,
whatever order they come in.

*Catalog.* `CatalogInv`: numbers are not used again (`OldBooks`); the pages shown
and the pages fetched so far are disjoint and end at their cursor (`Paged`),
have every steady book above it (`Complete`), and none the page was told is gone
(`ListInv`); what it was told is made is listed, or was there when the fetch
began (`MadeInv`). `Append1` is the heart: one more page read from tables that
have changed meanwhile keeps all of this. It needs a first and a last element of
a finite set of numbers; as induction is out of the prover's reach, `FirstOf`
proves that by the pigeonhole principle.

*Accounts.* `AdminRemains` and `ConnectionsCurrent` are inductive with the types:
each transaction looks at other administrators, and revokes connections, itself.
`RowsInv` says that a row is the server's, or will be once the one answer on its
way is there, and that a list being fetched was read after every call that the
page knows to be carried out; `RowsFollow` is its first clause.

*Only model-checked.* Liveness (`OutboxDrains`, `DevicesCatchUp`,
`DevicesConverge`) is beyond the prover, as are `ENABLED`, RECURSIVE operators
(no module here has one) and induction over data. Every invariant and action
property the runs check is proved; `ShowsCanonical` and `ShowsWinner` hold only
within the restrictions named above, which their theorems carry.

## 5. Disagreements

What was met while modelling, between the code and what its documents, comments
or users would say. The models behave as the code does; the properties are
stated so that they hold, and leave out what is described here. Values of the
constants that show a case are given where they differ from the runs'.

*Reading progress*

- `internal/reading/store.go:282` compares `occurred_at` as text without
  trailing zeros, so half past a second sorts before the second;
  `docs/offline-sync.md:43-44` promises the event with the latest `occurredAt`.
  `CanonicalIsLatest` states the order of the text (`TextLater`).
- A 500 is never isolated (`SyncEngine.kt:30`), and a book whose canonical row
  went with a removed source is answered with one: one such event in the outbox
  stops the queue, which a comment says must not wedge. (`ProgressSync` with both
  editions of a book read and `Removals = {{2}}`: `OutboxDrains` fails.)
- Several engines run at once (`SyncWorker.kt:54`, the sync button, sign-out)
  although `docs/offline-sync.md:25` speaks of one unique job; with two engines
  and a second device a position can be skipped for good.
- A 426 marks every queued event rejected (`HttpSyncApi.kt:12`), although the
  server will accept them after an upgrade (`README.md:132`); `MaxRelease = 1`
  shows it for `OnlyHopelessRejected`.
- A position is skipped for good for an event that is rejected afterwards (one
  device, an event with `form = "malformed"`); when a sign-out does not wait for
  a running engine, whose old cursor then lands in the emptied database
  (`MaxSignOuts = 1`); and when access to a book is given after the cursor has
  passed its events (`AccessSets = {{1, 2}, {2}}`).
- An answer that acknowledges the device's event of a book may end before its
  revision (`internal/reading/store.go:370`); until the next page is merged, the
  device shows its own older position with nothing unsent. `Told` waits for that
  page.
- `ShowsCanonical` fails when two devices record at the same instant: the server
  prefers the higher revision, `shouldAdopt` wants a strictly later time
  (`SqliteProgressStore.kt:130`).
- An event recorded while the session is being ended is discarded at `Clear`
  although the reader was told nothing was left (`AppController.kt:228-231`).
- `OnlyHopelessRejected` fails when access is withdrawn and given back: what was
  queued meanwhile has been given up (`AccessSets = {{1, 2}, {2}}`).

*Annotations*

- An edit of an annotation whose row a sync has just removed or replaced changes
  no row and is lost (`Annotations.kt:87`); `docs/reader.md:113` says it is saved
  on the device first.
- With two engines on a device, `ShowsWinner` fails without its `Alone`.

*Sessions of the console*

- The outcome of a refresh is written over whatever session the page holds by
  then: it drops or replaces one that was signed in meanwhile, and a refresh
  answered after a sign-out signs in again (`api.ts:319-322, 452`).
- A call that was answered 401 is sent again with the token of whoever is signed
  in by now (`api.ts:390`); the answer to a change of one's own account is
  written into another administrator's session (`queries.ts:191`).
- A lost answer to a refresh signs the page out: the token is spent.
- A reader who signs in at the console is turned away with a live session left
  behind (`api.ts:440`). `upload` does not report a 426, so an outdated page
  learns of it from the next call only (`api.ts:422`).

*Requests*

- A restart forgets Shelfmark downloads and what they were queued for; a comment
  at `shelfmark.go:32` says so. The same release queued for a second group
  replaces the entry, and the first group's requests stay open (`:126`).
- `imported` is set before the requests are fulfilled, so a sheet may close with
  success and the requests still be open, or stay so (`:199`,
  `requests.tsx:295`).

*Book details*

- An editor sends its whole set of locks, and the fields that differ from the
  row as the page has it now, while its form is of the row it opened with
  (`book-editor.tsx:117-121`): untouched fields and locks that another editor
  or a rescan changed are sent back as they were. `docs/api.md:371` says the set
  replaces the locks; `README.md:34` says locks protect curated metadata.
- A field typed back to what the page has is not sent, though another editor
  may have changed it. What is typed while a save is under way is lost with its
  answer (`:81`).
- Answers that come out of order leave the cached row stale until it is fetched
  again (`queries.ts:34`: `["book", id]` is patched, not invalidated).

*Catalog*

- *Load more* cancels a fetch that an import has started, and the import is not
  shown until the list is fetched again (`library.tsx:183`); the comment at
  `queries.ts:58` wants the catalog in step. An invalidation during the first
  fetch is lost with it (`queries.ts:60`).
- A file imported twice at the same time becomes two books: the check for its
  checksum precedes the statement (`internal/library/store.go:251, 353`).
- The libraries panel saves the readers it showed when it was opened, over what
  was set since (`libraries-panel.tsx:43`).

*Accounts*

- `CreateSession` reads the account, verifies the password and inserts
  a session: one disabled in between has a live session (`session.go:76`). No
  handler looks at the caller again inside its transaction.
- `UpdateSelf` verifies the old password before its transaction and can replace
  the one an administrator has set meanwhile (`internal/identity/store.go:336`).
- An invitation that cannot be mailed is answered 502 though the account exists
  (`httpapi/auth.go:205`); the page does not show it.
- Two answers about an account that cross leave the older row; a creation
  answered after a fetch that saw the account shows it twice, which the model,
  whose list is a function, shows as one row (`queries.ts:162-180`).

## 6. Plan

In this order; done is marked.

1. `Instants`, `ReadingStore`, `ProgressRegister`, `ReadingStoreRegister`,
   proofs. Done.
2. `ProgressSync`, proofs of types and of no lost work. Done.
3. `AnnotationStore`, `AnnotationSync`, proofs of keys, of the newest edit kept
   and of no edit lost. Done.
4. `ConsoleSession`: sessions, rotation, one refresh at a time, with proofs. Done.
5. `ConsoleRequests`: requests and downloads, with proofs. Done.
6. `BookEditor`: details, locks, origins, with proofs. Done.
7. `ConsoleCatalog`: pages, imports, libraries, with proofs. Done.
8. `ConsoleReaders`: accounts and connections, with proofs. Done.
9. Proofs of `FreshActivityVisible`, `CursorNeverRewinds`,
   `OnlyHopelessRejected` and `ShowsCanonical`, in `ProgressSyncProofs`, and of
   `ShowsWinner`, in `AnnotationSyncProofs`. Done.
10. An abstract specification of sessions (a chain of pairs of which one is live)
    and of requests (a request decided once), with the refinements; tokens on
    Android against the first.
11. `ManagedFiles`: import, replace, convert, move to S3 and delete as steps over
    rows and files, with crashes. Property: an edition's bytes exist.
12. `WatchedScan`: a walk, its index of found files, renames and missing counts.
13. `WebNovelSync`: a pass over chapters with crashes, unfollow and recheck.
14. `Social`, `Downloads` (partial files against a server that replaces them),
    restoring a backup against the cursors clients hold.
15. Pure algorithms: pagination, chapter marks, streaks of `ReadingStats`,
    `matchSourcePattern`, each against a reference definition.

Hazards of what is planned join the list in `PROJECT.json` with their module:
a killed import between file and row, a scan over an unmounted directory, an
unfollow during a pass, both readers asking for one friendship, a file replaced
between two ranges of a download, a queue left by another account after a 401
(`SyncWorker.kt:37`), an edit clamped twice (`internal/annotations/store.go:97`).

## 7. Not modelled

Console: settings, web novels, activity and backup are forms over single calls,
each answered by the state it shows; the components present. Within the modelled
views: filters and saved filters, covers, the reader lists of libraries, the
search of Shelfmark and of metadata, attempts at a reset code, first-run setup.
Routing, OPDS, mail, ntfy, audit and metadata search translate and forward.
The read-only queries of the reading store (`SnapshotForUser`, `FinishedCount`,
`FinishedBooks`) change nothing. EPUB parsing, conversion and rendering are
libraries' work. Managed files, watched sources, web novels, social, lists,
settings, downloads, the Android reader and export are in section 6 and not
modelled yet.
