-------------------------- MODULE ConsoleRequests --------------------------
(***************************************************************************)
(* Readers' book requests: the table on the server, the pages of the admin *)
(* console that work through a group of requests one call at a time, and   *)
(* the server's own goroutines that follow a Shelfmark download and then   *)
(* fulfil the requests it was queued for.                                  *)
(*                                                                         *)
(* Whoever works through a group is a worker: the list row of a page       *)
(* (which declines), the sheet of a page (which fulfils), or a follower.   *)
(* Requests are numbered in the order they are made.                       *)
(***************************************************************************)
EXTENDS Naturals, FiniteSets, FiniteSetsExt

CONSTANTS
  Requests, Keys, Key,   \* the requests, and what readers ask for
  Books, Releases,       \* books that may be imported; what Shelfmark offers
  Pages, Lists, Sheets, Followers, PageOf,
  Watchful,              \* requests whose reader may lose access to the library
  None,
  MaxRefreshes           \* bound: fetches of the lists that follow no call

Workers == Lists \cup Sheets \cup Followers

ASSUME RequestAssumption ==
  /\ Requests \subseteq Nat /\ IsFiniteSet(Requests)
  /\ Key \in [Requests -> Keys] /\ Watchful \subseteq Requests
  /\ PageOf \in [Lists \cup Sheets -> Pages]
  /\ Lists \cap Sheets = {} /\ Lists \cap Followers = {} /\ Sheets \cap Followers = {}
  /\ None \notin Books \cup Releases /\ MaxRefreshes \in Nat

VARIABLES
  status,      \* server: the state of each request
  linked,      \* server: the book that fulfilled it
  books,       \* server: the books of the library
  barred,      \* server: requests whose reader may not read the library
  downloads,   \* server, in memory: the Shelfmark downloads it follows
  listed,      \* page: the open requests as last fetched
  fetch,       \* page: the fetch of that list
  work,        \* what each worker is doing
  announced,   \* history: requests reported as done, by whom, and with which book
  refreshes

serverVars  == <<status, linked, books, barred, downloads>>
pageVars    == <<listed, fetch>>
historyVars == <<announced, refreshes>>
requestVars == <<serverVars, pageVars, work, historyVars>>

Statuses == {"none", "open", "fulfilled", "declined", "cancelled"}
Download == [status : {"none", "queued", "imported", "failed"}, requestIDs : SUBSET Requests]
Fetch == [phase : {"idle", "asked", "answered"}, got : SUBSET Requests]
Work == [phase : {"idle", "confirm", "open", "uploading", "polling", "importing",
                  "sent", "checked", "done", "failed"},
         group : SUBSET Requests, todo : SUBSET Requests,
         book : Books \cup {None}, release : Releases \cup {None}]

Idle == [phase |-> "idle", group |-> {}, todo |-> {}, book |-> None, release |-> None]
NoFetch == [phase |-> "idle", got |-> {}]
NoDownload == [status |-> "none", requestIDs |-> {}]

IsOpen(r) == status[r] = "open"

\* groupRequests: requests for the same thing are one row of the list.
Group(p, k) == {r \in listed[p] : Key[r] = k}

\* Group members are worked through in the order they were made.
Next1(w) == Min(work[w].todo)

-----------------------------------------------------------------------------
(* The list of a page. *)

\* Mutant: a fetch under way is good enough.
InvalidatedIdle(f) == IF f.phase = "idle" THEN [phase |-> "asked", got |-> {}] ELSE f

\* invalidateQueries cancels a fetch under way and starts another.
Invalidated(f) == [phase |-> "asked", got |-> {}]

\* The page is opened again once the list is stale.
Refresh(p) ==
  /\ fetch[p].phase = "idle" /\ refreshes < MaxRefreshes
  /\ refreshes' = refreshes + 1
  /\ fetch' = [fetch EXCEPT ![p] = Invalidated(@)]
  /\ UNCHANGED <<serverVars, listed, work, announced>>

ListOpen(p) ==
  /\ fetch[p].phase = "asked"
  /\ fetch' = [fetch EXCEPT ![p] = [phase |-> "answered", got |-> {r \in Requests : IsOpen(r)}]]
  /\ UNCHANGED <<serverVars, listed, work, historyVars>>

Fetched(p) ==
  /\ fetch[p].phase = "answered"
  /\ listed' = [listed EXCEPT ![p] = fetch[p].got]
  /\ fetch' = [fetch EXCEPT ![p] = NoFetch]
  /\ UNCHANGED <<serverVars, work, historyVars>>

\* After three retries an error takes the place of the list.
FetchFails(p) ==
  /\ fetch[p].phase /= "idle"
  /\ listed' = [listed EXCEPT ![p] = {}]
  /\ fetch' = [fetch EXCEPT ![p] = NoFetch]
  /\ UNCHANGED <<serverVars, work, historyVars>>

-----------------------------------------------------------------------------
(* What the administrator does. *)

Do(w, new) == work' = [work EXCEPT ![w] = new]

\* Decline: the group is the one on screen when the button was pressed.
AskDecline(w, k) ==
  /\ w \in Lists /\ work[w] = Idle /\ Group(PageOf[w], k) /= {}
  /\ LET g == Group(PageOf[w], k) IN
       Do(w, [Idle EXCEPT !.phase = "confirm", !.group = g, !.todo = g])
  /\ UNCHANGED <<serverVars, pageVars, historyVars>>

Confirm(w) ==
  /\ work[w].phase = "confirm"
  /\ \/ Do(w, [work[w] EXCEPT !.phase = "sent"])
     \/ Do(w, Idle)
  /\ UNCHANGED <<serverVars, pageVars, historyVars>>

\* Add book: the sheet keeps the group it was opened with.  A sheet that is
\* closed while it works goes on; the page's next one is another worker.
OpenSheet(w, k) ==
  /\ w \in Sheets /\ work[w] = Idle /\ Group(PageOf[w], k) /= {}
  /\ LET g == Group(PageOf[w], k) IN
       Do(w, [Idle EXCEPT !.phase = "open", !.group = g, !.todo = g])
  /\ UNCHANGED <<serverVars, pageVars, historyVars>>

CloseSheet(w) ==
  /\ work[w].phase = "open"
  /\ Do(w, Idle)
  /\ UNCHANGED <<serverVars, pageVars, historyVars>>

\* A book of the library as the page knows it, or the duplicate an upload met.
UseBook(w, b) ==
  /\ work[w].phase = "open"
  /\ Do(w, [work[w] EXCEPT !.phase = "sent", !.book = b, !.todo = work[w].group])
  /\ UNCHANGED <<serverVars, pageVars, historyVars>>

Upload(w, b) ==
  /\ work[w].phase = "open"
  /\ Do(w, [work[w] EXCEPT !.phase = "uploading", !.book = b])
  /\ UNCHANGED <<serverVars, pageVars, historyVars>>

\* The file becomes a book, which may get the request's cover, and the group
\* is fulfilled with it; a duplicate is offered instead, for UseBook.
Uploaded(w) ==
  /\ work[w].phase = "uploading"
  /\ IF work[w].book \in books
     THEN Do(w, [work[w] EXCEPT !.phase = "open", !.book = None]) /\ UNCHANGED books
     ELSE /\ Do(w, [work[w] EXCEPT !.phase = "sent", !.todo = work[w].group])
          /\ books' = books \cup {work[w].book}
  /\ UNCHANGED <<status, linked, barred, downloads, pageVars, historyVars>>

\* Shelfmark names its task after the release and the server its entry after
\* the task, so one release has one entry.
Queue(w, f, x) ==
  /\ work[w].phase = "open" /\ work[w].release = None /\ work[f] = Idle
  /\ downloads' = [downloads EXCEPT ![x] = [status |-> "queued", requestIDs |-> work[w].group]]
  /\ work' = [work EXCEPT ![w].release = x,
                          ![f] = [Idle EXCEPT !.phase = "polling", !.release = x]]
  /\ UNCHANGED <<status, linked, books, barred, pageVars, historyVars>>

\* The sheet polls the downloads: an imported one closes it, after a failed
\* one another release can be picked.
SeeDownload(w) ==
  /\ work[w].phase = "open" /\ work[w].release /= None
  /\ \/ /\ downloads[work[w].release].status = "imported"
        /\ fetch' = [fetch EXCEPT ![PageOf[w]] = Invalidated(@)]
        /\ Do(w, Idle)
     \/ /\ downloads[work[w].release].status \in {"failed", "none"}
        /\ Do(w, [work[w] EXCEPT !.release = None])
        /\ UNCHANGED fetch
  /\ UNCHANGED <<serverVars, listed, historyVars>>

-----------------------------------------------------------------------------
(* The server. *)

Create(r) ==
  /\ status[r] = "none" /\ \A s \in Requests : s < r => status[s] /= "none"
  /\ status' = [status EXCEPT ![r] = "open"]
  /\ UNCHANGED <<linked, books, barred, downloads, pageVars, work, historyVars>>

Cancel(r) ==
  /\ IsOpen(r)
  /\ status' = [status EXCEPT ![r] = "cancelled"]
  /\ UNCHANGED <<linked, books, barred, downloads, pageVars, work, historyVars>>

\* fulfilled_book_id REFERENCES books(id) ON DELETE SET NULL
DeleteBook(b) ==
  /\ b \in books /\ books' = books \ {b}
  /\ linked' = [r \in Requests |-> IF linked[r] = b THEN None ELSE linked[r]]
  /\ UNCHANGED <<status, barred, downloads, pageVars, work, historyVars>>

LoseAccess(r) ==
  /\ r \in Watchful \ barred /\ barred' = barred \cup {r}
  /\ UNCHANGED <<status, linked, books, downloads, pageVars, work, historyVars>>

Declines(w) == w \in Lists

\* Fulfill looks the book up before anything else.
BookExists(w) ==
  /\ work[w].phase = "sent" /\ ~Declines(w)
  /\ Do(w, [work[w] EXCEPT !.phase = IF work[w].book \in books THEN "checked" ELSE "failed"])
  /\ UNCHANGED <<serverVars, pageVars, historyVars>>

\* Mutant: the row is found by its ID alone.
MayResolveAny(w, r) == status[r] /= "cancelled" /\ (Declines(w) \/ (work[w].book \in books /\ r \notin barred))

\* Mutant: who asked is not looked at.
MayResolveUnseen(w, r) == IsOpen(r) /\ (Declines(w) \/ work[w].book \in books)

\* resolve's UPDATE: still open, and a fulfilled request's reader may read
\* the book, which is then there.
MayResolve(w, r) == IsOpen(r) /\ (Declines(w) \/ (work[w].book \in books /\ r \notin barred))

Resolve(w) ==
  /\ work[w].phase = IF Declines(w) THEN "sent" ELSE "checked"
  /\ LET r == Next1(w) IN
     IF MayResolve(w, r)
     THEN /\ status' = [status EXCEPT ![r] = IF Declines(w) THEN "declined" ELSE "fulfilled"]
          /\ linked' = [linked EXCEPT ![r] = work[w].book]
          /\ Do(w, [work[w] EXCEPT !.phase = "done"])
     ELSE /\ Do(w, [work[w] EXCEPT !.phase = "failed"])
          /\ UNCHANGED <<status, linked>>
  /\ UNCHANGED <<books, barred, downloads, pageVars, historyVars>>

\* A follower's poll: the task is complete, or has failed for good.
Complete(f) ==
  /\ work[f].phase = "polling"
  /\ Do(f, [work[f] EXCEPT !.phase = "importing"])
  /\ UNCHANGED <<serverVars, pageVars, historyVars>>

\* Shelfmark failed, lost the task or its file, took too long, or delivered
\* something that cannot be imported.
DownloadFails(f) ==
  /\ work[f].phase \in {"polling", "importing"}
  /\ downloads' = [downloads EXCEPT ![work[f].release].status =
       IF @ = "none" THEN @ ELSE "failed"]
  /\ Do(f, Idle)
  /\ UNCHANGED <<status, linked, books, barred, pageVars, historyVars>>

\* The file is imported, or its duplicate taken; the entry says so before its
\* requests, read only now, are fulfilled.
Import(f, b) ==
  /\ work[f].phase = "importing"
  /\ books' = books \cup {b}
  /\ LET entry == downloads[work[f].release] IN
     /\ downloads' = [downloads EXCEPT ![work[f].release].status =
          IF entry.status = "none" THEN "none" ELSE "imported"]
     /\ Do(f, IF entry.requestIDs = {} THEN Idle
              ELSE [work[f] EXCEPT !.phase = "sent", !.book = b,
                                   !.group = entry.requestIDs, !.todo = entry.requestIDs])
  /\ UNCHANGED <<status, linked, barred, pageVars, historyVars>>

\* The list of downloads, and who follows them, is kept in memory.
Restart ==
  /\ \E f \in Followers : work[f] /= Idle
  /\ work' = [w \in Workers |-> IF w \in Followers THEN Idle ELSE work[w]]
  /\ downloads' = [x \in Releases |-> NoDownload]
  /\ UNCHANGED <<status, linked, books, barred, pageVars, historyVars>>

-----------------------------------------------------------------------------
(* The answer to one call of a group. *)

Announce(w, group) ==
  announced' = announced \cup
    {[request |-> r, by |-> w, book |-> work[w].book] : r \in group}

\* useDeclineBookRequest and useFulfillBookRequest refresh the lists.
Report(w) ==
  IF w \in Followers THEN UNCHANGED fetch
  ELSE fetch' = [fetch EXCEPT ![PageOf[w]] = Invalidated(@)]

CallDone(w) ==
  /\ work[w].phase = "done"
  /\ Report(w)
  /\ LET rest == work[w].todo \ {Next1(w)} IN
     IF rest = {} THEN Do(w, Idle) /\ Announce(w, work[w].group)
     ELSE Do(w, [work[w] EXCEPT !.phase = "sent", !.todo = rest]) /\ UNCHANGED announced
  /\ UNCHANGED <<serverVars, listed, refreshes>>

\* Mutant: an error is shown and the loop goes on.
FailedOn(w) ==
  LET rest == work[w].todo \ {Next1(w)} IN
  IF rest = {} THEN Do(w, Idle) /\ Announce(w, work[w].group)
  ELSE Do(w, [work[w] EXCEPT !.phase = "sent", !.todo = rest]) /\ UNCHANGED announced

\* The first error ends the loop, and the rest of the group is left as it is.
Failed(w) ==
  /\ Do(w, IF w \in Sheets THEN [work[w] EXCEPT !.phase = "open", !.book = None] ELSE Idle)
  /\ UNCHANGED announced

\* A call of a page is lost, or its answer is.
Lose(w) ==
  /\ w \notin Followers /\ work[w].phase \in {"sent", "checked", "done"}
  /\ Do(w, [work[w] EXCEPT !.phase = "failed"])
  /\ UNCHANGED <<serverVars, pageVars, historyVars>>

CallFailed(w) ==
  /\ work[w].phase = "failed"
  /\ Failed(w)
  /\ UNCHANGED <<serverVars, pageVars, refreshes>>

-----------------------------------------------------------------------------
RequestInit ==
  /\ status = [r \in Requests |-> "none"] /\ linked = [r \in Requests |-> None]
  /\ books = {} /\ barred = {}
  /\ downloads = [x \in Releases |-> NoDownload]
  /\ listed = [p \in Pages |-> {}] /\ fetch = [p \in Pages |-> NoFetch]
  /\ work = [w \in Workers |-> Idle]
  /\ announced = {} /\ refreshes = 0

PageStep ==
  \/ \E p \in Pages : Refresh(p) \/ Fetched(p) \/ FetchFails(p)
  \/ \E w \in Lists, k \in Keys : AskDecline(w, k)
  \/ \E w \in Lists : Confirm(w)
  \/ \E w \in Sheets :
       \/ \E k \in Keys : OpenSheet(w, k)
       \/ CloseSheet(w) \/ SeeDownload(w)
       \/ \E b \in Books : UseBook(w, b) \/ Upload(w, b)

ServerStep ==
  \/ \E p \in Pages : ListOpen(p)
  \/ \E r \in Requests : Create(r) \/ Cancel(r) \/ LoseAccess(r)
  \/ \E b \in Books : DeleteBook(b)
  \/ \E w \in Sheets : Uploaded(w)
  \/ \E w \in Sheets, f \in Followers, x \in Releases : Queue(w, f, x)
  \/ \E f \in Followers : Complete(f) \/ DownloadFails(f) \/ \E b \in Books : Import(f, b)
  \/ Restart

RequestNext ==
  \/ PageStep \/ ServerStep
  \/ \E w \in Workers : BookExists(w) \/ Resolve(w) \/ CallDone(w) \/ Lose(w) \/ CallFailed(w)

RequestSpec == RequestInit /\ [][RequestNext]_requestVars

-----------------------------------------------------------------------------
(* Type correctness; only a fulfilled request is linked to a book, and the  *)
(* book is there (the foreign key of fulfilled_book_id).                   *)
RequestTypeOK ==
  /\ status \in [Requests -> Statuses]
  /\ linked \in [Requests -> Books \cup {None}]
  /\ books \subseteq Books /\ barred \subseteq Requests
  /\ downloads \in [Releases -> Download]
  /\ listed \in [Pages -> SUBSET Requests] /\ fetch \in [Pages -> Fetch]
  /\ work \in [Workers -> Work]
  /\ announced \subseteq [request : Requests, by : Workers, book : Books \cup {None}]
  /\ refreshes \in Nat
  /\ \A r \in Requests : linked[r] /= None => status[r] = "fulfilled" /\ linked[r] \in books

(* What one administrator or follower has decided no other changes         *)
(* (requests/store.go: the UPDATE of resolve asks for an open request).    *)
ResolvedOnce ==
  [][\A r \in Requests : status[r] \in {"fulfilled", "declined"} => status'[r] = status[r]]_requestVars

(* "There is no way to mark a request done without real content behind     *)
(* it" (requests.tsx): when a request is fulfilled its book is in the      *)
(* library and its reader may read it.                                     *)
DoneHasContent ==
  [][\A r \in Requests : status'[r] = "fulfilled" /\ status[r] /= "fulfilled" =>
       linked'[r] \in books' /\ r \notin barred]_requestVars

(* A group is reported as done only when every request of it is: what a    *)
(* page declined is declined, and what it or a follower fulfilled is       *)
(* fulfilled with the book it named, unless that book was deleted since.   *)
AnnouncedIsDone ==
  \A a \in announced :
    /\ status[a.request] = IF Declines(a.by) THEN "declined" ELSE "fulfilled"
    /\ linked[a.request] \in {a.book, None}

(* Once its fetches are over a page does not list what it has reported as  *)
(* done, however the fetches and its calls overlapped (queries.ts:         *)
(* useResolveBookRequest).                                                 *)
ListForgets ==
  \A a \in announced : a.by \notin Followers /\ fetch[PageOf[a.by]].phase = "idle"
    => a.request \notin listed[PageOf[a.by]]

=============================================================================
