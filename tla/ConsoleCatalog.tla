--------------------------- MODULE ConsoleCatalog ---------------------------
(***************************************************************************)
(* The catalog as the library page of the admin console shows it: the      *)
(* books and libraries of the server, the list the page has fetched page   *)
(* by page, and the imports, removals and moves that make it stale.        *)
(*                                                                         *)
(* Books are numbered in the order they are made and listed newest first,  *)
(* so a number is also the cursor of the page that ends with it.  Filters, *)
(* which choose another list, and what a book says (BookEditor) are left   *)
(* out.                                                                    *)
(***************************************************************************)
EXTENDS Naturals, Sequences, FiniteSets

CONSTANTS
  MaxBooks,        \* bound: books ever made
  PageSize,
  Libraries, Main, \* the libraries there may be; the one that always is
  Items,           \* files dropped on the import panel
  None

Books == 1 .. MaxBooks

ASSUME CatalogAssumption ==
  /\ MaxBooks \in Nat /\ PageSize \in Nat \ {0}
  /\ Main \in Libraries /\ None \notin Libraries \cup Books

VARIABLES
  made,       \* server: how many books were ever made
  shelf,      \* server: the library of each book, None when there is no such book
  libraries,  \* server: the libraries
  list,       \* page: the list it shows
  fetch,      \* page: the fetch of that list
  item,       \* page: the import panel
  call,       \* page: a removal, a move
  told        \* history: what the page was told while it had a list, and
              \* has asked the list for since

serverVars  == <<made, shelf, libraries>>
catalogVars == <<serverVars, list, fetch, item, call, told>>

IsThere(b) == shelf[b] /= None
There == {b \in Books : IsThere(b)}

\* next: the cursor after the last page, 0 when there is none; steady, a
\* history: books that were there from the first fetch of the list on.
Listing == [pages : Seq(SUBSET Books), next : 0 .. MaxBooks, steady : SUBSET Books]
Empty == [pages |-> <<>>, next |-> 0, steady |-> {}]
List == [loaded : BOOLEAN, failed : BOOLEAN, now : Listing]
Fetch == [phase : {"idle", "asked", "answered"}, more : BOOLEAN, got : Listing]
NoFetch == [phase |-> "idle", more |-> FALSE, got |-> Empty]

Item == [state : {"absent", "queued", "uploading", "answered", "done", "failed"},
         book : Books \cup {None}]
Call == [phase : {"idle", "sent", "done"}, kind : {"remove", "move"},
         book : Books \cup {None}, to : Libraries]
NoCall == [phase |-> "idle", kind |-> "move", book |-> None, to |-> Main]

Listed(l) == UNION {l.pages[i] : i \in DOMAIN l.pages}

-----------------------------------------------------------------------------
(* The server. *)

\* Mutant: pages are counted from the top.
PageAtOffset(l) ==
  {b \in There : LET above == Cardinality({c \in There : c > b}) IN
     above >= Cardinality(Listed(l)) /\ above < Cardinality(Listed(l)) + PageSize}

\* search: the first books below the cursor.
PageAt(l) ==
  LET below == {b \in There : l.next = 0 \/ b < l.next} IN
  {b \in below : Cardinality({c \in below : c > b}) < PageSize}

\* The cursor is given only when there is more.
NextAfter(page) ==
  IF page /= {} /\ \E b \in There : \A c \in page : b < c
  THEN CHOOSE b \in page : \A c \in page : b <= c ELSE 0

ListBooks ==
  /\ fetch.phase = "asked"
  /\ LET page == PageAt(fetch.got) IN
     fetch' = [fetch EXCEPT !.phase = "answered", !.got.pages = Append(@, page),
                            !.got.next = NextAfter(page)]
  /\ UNCHANGED <<serverVars, list, item, call, told>>

\* Mutant: the library may be gone by now.
ShelvableAnywhere(l) == TRUE

\* Import and MoveBook name the library in the statement that sets it.
Shelvable(l) == l \in libraries

MakeBook(l) ==
  /\ made < MaxBooks /\ Shelvable(l)
  /\ made' = made + 1 /\ shelf' = [shelf EXCEPT ![made + 1] = l]
  /\ UNCHANGED libraries

DeleteBook(b) ==
  /\ IsThere(b) /\ shelf' = [shelf EXCEPT ![b] = None]
  /\ UNCHANGED <<made, libraries>>

MoveBook(b, l) ==
  /\ IsThere(b) /\ Shelvable(l) /\ shelf' = [shelf EXCEPT ![b] = l]
  /\ UNCHANGED <<made, libraries>>

SaveLibrary(l) ==
  /\ libraries' = libraries \cup {l} /\ UNCHANGED <<made, shelf>>

DeleteLibrary(l) ==
  /\ l /= Main /\ \A b \in Books : shelf[b] /= l
  /\ libraries' = libraries \ {l} /\ UNCHANGED <<made, shelf>>

\* What a deleted book leaves of the histories.
Steady ==
  /\ told' = [told EXCEPT !.made = {b \in @ : shelf'[b] /= None}]
  /\ list' = [list EXCEPT !.now.steady = {b \in @ : shelf'[b] /= None}]
  /\ fetch' = [fetch EXCEPT !.got.steady = {b \in @ : shelf'[b] /= None}]

\* Other administrators, watched folders, downloads.
Elsewhere ==
  /\ \/ \E l \in Libraries : MakeBook(l) \/ SaveLibrary(l) \/ DeleteLibrary(l)
     \/ \E b \in Books : DeleteBook(b) \/ \E l \in Libraries : MoveBook(b, l)
  /\ Steady /\ UNCHANGED <<item, call>>

-----------------------------------------------------------------------------
(* The list. *)

Started == [phase |-> "asked", more |-> FALSE, got |-> [Empty EXCEPT !.steady = There]]

\* Mutant: a fetch under way is left to finish.
InvalidatedIdle == IF fetch.phase = "idle" THEN Started ELSE fetch

\* invalidateCatalog: a fetch under way starts again, unless it is the first,
\* which the query client lets finish.
Invalidated == IF fetch.phase /= "idle" /\ ~list.loaded THEN fetch ELSE Started

\* The page is opened, or Try again.
Load ==
  /\ IF list.loaded THEN list.failed ELSE fetch.phase = "idle"
  /\ fetch' = Started
  /\ UNCHANGED <<serverVars, list, item, call, told>>

\* Load more books: it takes the place of a fetch of the list that is under
\* way, or failed.
LoadMore ==
  /\ list.now.next /= 0 /\ (fetch.phase = "idle" \/ ~fetch.more)
  /\ fetch' = [phase |-> "asked", more |-> TRUE, got |-> list.now]
  /\ told' = IF fetch.phase = "idle" /\ ~list.failed THEN told
             ELSE [told EXCEPT !.made = {}]
  /\ UNCHANGED <<serverVars, list, item, call>>

\* As many pages are fetched again as there were.
Arrive ==
  /\ fetch.phase = "answered"
  /\ IF ~fetch.more /\ fetch.got.next /= 0 /\ Len(fetch.got.pages) < Len(list.now.pages)
     THEN fetch' = [fetch EXCEPT !.phase = "asked"] /\ UNCHANGED list
     ELSE /\ list' = [loaded |-> TRUE, failed |-> FALSE, now |-> fetch.got]
          /\ fetch' = NoFetch
  /\ UNCHANGED <<serverVars, item, call, told>>

FetchFails ==
  /\ fetch.phase /= "idle"
  /\ fetch' = NoFetch /\ list' = [list EXCEPT !.failed = TRUE]
  /\ UNCHANGED <<serverVars, item, call, told>>

Tell(what, b) ==
  told' = IF list.loaded THEN [told EXCEPT ![what] = @ \cup {b}] ELSE told

-----------------------------------------------------------------------------
(* The import panel: files one after another. *)

Uploading(i) == item[i].state \in {"uploading", "answered"}

Add(i) ==
  /\ item[i].state = "absent" /\ \A j \in Items : ~Uploading(j)
  /\ item' = [item EXCEPT ![i].state = "queued"]
  /\ UNCHANGED <<serverVars, list, fetch, call, told>>

Upload(i) ==
  /\ item[i].state = "queued" /\ \A j \in Items : ~Uploading(j)
  /\ item' = [item EXCEPT ![i].state = "uploading"]
  /\ UNCHANGED <<serverVars, list, fetch, call, told>>

ImportBook(i, l) ==
  /\ item[i].state = "uploading"
  /\ MakeBook(l)
  /\ item' = [item EXCEPT ![i] = [state |-> "answered", book |-> made']]
  /\ UNCHANGED <<list, fetch, call, told>>

Imported(i) ==
  /\ item[i].state = "answered"
  /\ item' = [item EXCEPT ![i].state = "done"]
  /\ fetch' = Invalidated /\ Tell("made", item[i].book)
  /\ UNCHANGED <<serverVars, list, call>>

\* A duplicate, a file that is no book, or a lost answer: the next file follows.
NotImported(i) ==
  /\ Uploading(i)
  /\ item' = [item EXCEPT ![i] = [state |-> "failed", book |-> None]]
  /\ UNCHANGED <<serverVars, list, fetch, call, told>>

\* The panel is closed, which it cannot be while it works.
CloseImport ==
  /\ \A i \in Items : ~Uploading(i)
  /\ \E i \in Items : item[i].state /= "absent"
  /\ item' = [i \in Items |-> [state |-> "absent", book |-> None]]
  /\ UNCHANGED <<serverVars, list, fetch, call, told>>

-----------------------------------------------------------------------------
(* A book is removed or moved from its editor. *)

Send(kind, b, l) ==
  /\ call.phase = "idle"
  /\ b \in Listed(list.now) \cup ({item[i].book : i \in Items} \ {None})
  /\ call' = [phase |-> "sent", kind |-> kind, book |-> b, to |-> l]
  /\ UNCHANGED <<serverVars, list, fetch, item, told>>

Carry ==
  /\ call.phase = "sent"
  /\ IF call.kind = "remove" THEN DeleteBook(call.book) ELSE MoveBook(call.book, call.to)
  /\ call' = [call EXCEPT !.phase = "done"]
  /\ Steady /\ UNCHANGED item

Without(l, b) == [l EXCEPT !.pages = [i \in DOMAIN @ |-> @[i] \ {b}]]

\* useDeleteBook takes the book from the list; every answer invalidates it.
CallDone ==
  /\ call.phase = "done" /\ call' = NoCall
  /\ fetch' = Invalidated
  /\ IF call.kind = "remove"
     THEN list' = [list EXCEPT !.now = Without(@, call.book)] /\ Tell("gone", call.book)
     ELSE UNCHANGED <<list, told>>
  /\ UNCHANGED <<serverVars, item>>

\* Refused, or lost with or without effect.
CallFailed ==
  /\ call.phase /= "idle" /\ call' = NoCall
  /\ UNCHANGED <<serverVars, list, fetch, item, told>>

-----------------------------------------------------------------------------
CatalogInit ==
  /\ made = 0 /\ shelf = [b \in Books |-> None] /\ libraries = {Main}
  /\ list = [loaded |-> FALSE, failed |-> FALSE, now |-> Empty] /\ fetch = NoFetch
  /\ item = [i \in Items |-> [state |-> "absent", book |-> None]]
  /\ call = NoCall /\ told = [made |-> {}, gone |-> {}]

CatalogNext ==
  \/ Elsewhere \/ ListBooks \/ Load \/ LoadMore \/ Arrive \/ FetchFails
  \/ \E i \in Items :
       \/ Add(i) \/ Upload(i) \/ Imported(i) \/ NotImported(i)
       \/ \E l \in Libraries : ImportBook(i, l)
  \/ CloseImport \/ Carry \/ CallDone \/ CallFailed
  \/ \E b \in Books : Send("remove", b, Main) \/ \E l \in Libraries : Send("move", b, l)

CatalogSpec == CatalogInit /\ [][CatalogNext]_catalogVars

-----------------------------------------------------------------------------
(* Type correctness of the tables and of what the page holds.              *)
CatalogTypeOK ==
  /\ made \in 0 .. MaxBooks /\ shelf \in [Books -> Libraries \cup {None}]
  /\ libraries \subseteq Libraries
  /\ list \in List /\ fetch \in Fetch
  /\ item \in [Items -> Item] /\ call \in Call
  /\ told \in [{"made", "gone"} -> SUBSET Books]

(* Each book belongs to one library (libraries-panel.tsx), and that        *)
(* library exists, whatever was deleted while a book was imported or moved.*)
EveryBookShelved == \A b \in Books : IsThere(b) => shelf[b] \in libraries

(* Books that were there all the while are listed, and once, however many  *)
(* others came and went between the pages of a fetch (library/store.go:    *)
(* the cursor of search).                                                  *)
PagesComplete ==
  LET l == list.now IN
  /\ \A i, j \in DOMAIN l.pages : i /= j => l.pages[i] \cap l.pages[j] = {}
  /\ \A b \in l.steady : l.next = 0 \/ b >= l.next => b \in Listed(l)

(* What the page was told holds for its list: a book that was deleted      *)
(* never comes back, and once no fetch is under way a book that was        *)
(* imported is listed, if it is still there and on the pages loaded        *)
(* (queries.ts: invalidateCatalog).  Load more can cut short the fetch     *)
(* that an import started; such imports are forgotten (see LoadMore).      *)
ListFollows ==
  /\ told.gone \cap Listed(list.now) = {}
  /\ fetch.phase = "idle" /\ ~list.failed =>
       \A b \in told.made : IsThere(b) /\ (list.now.next = 0 \/ b >= list.now.next)
         => b \in Listed(list.now)

=============================================================================
