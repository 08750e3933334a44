-------------------------- MODULE AnnotationStore --------------------------
(***************************************************************************)
(* The server's store of one reader's bookmarks, highlights and notes:     *)
(* POST /api/v1/annotations/sync.  Whichever version of an annotation was  *)
(* edited last is kept, a delete is kept as a tombstone, and every change  *)
(* the store takes gets a revision, which is what client cursors count.    *)
(*                                                                         *)
(* A request is one SQLite transaction that works or leaves no trace, and  *)
(* touches nothing another request can see half done, so Exchange is one   *)
(* step.  Times are compared after parsing, and are numbers here.          *)
(***************************************************************************)
EXTENDS Naturals, FiniteSets

CONSTANTS
  Books, Ids,
  IdBook,          \* the book of each annotation
  Texts,           \* what an edit can make of an annotation
  Overlong,        \* the texts that valid refuses
  PullPageSize, MaxFutureSkew,
  MaxNow           \* bound: the server's clock stops here

\* An ID has at most 128 characters, so there are finitely many.
ASSUME StoreAssumption ==
  /\ IsFiniteSet(Ids)
  /\ IdBook \in [Ids -> Books]
  /\ Overlong \subseteq Texts
  /\ PullPageSize \in Nat \ {0} /\ MaxFutureSkew \in Nat /\ MaxNow \in Nat

VARIABLES
  annotations,   \* the annotations table: a version and its revision
  revision,      \* the high-water mark of annotation_revisions
  books,         \* the books in the catalog
  withheld,      \* the books of the catalog the reader may not see
  regranted,     \* history: the books withheld for a while
  now            \* the server's clock

storeVars == <<annotations, revision, books, withheld, regranted, now>>

Version == [id : Ids, at : Nat, text : Texts, deleted : BOOLEAN]
Row     == [version : Version, rev : Nat]
Answer  == [ok : BOOLEAN, cursor : Nat, hasMore : BOOLEAN,
            accepted : SUBSET Ids, rejected : SUBSET Ids,
            annotations : SUBSET Version]

Readable(id) == IdBook[id] \in books \ withheld

\* valid, and the book exists and is the reader's to see.
Admissible(v) == v.text \notin Overlong /\ Readable(v.id)

\* A fast device clock must not make its edits unbeatable.
Clamped(v) == IF v.at > now + MaxFutureSkew THEN [v EXCEPT !.at = now] ELSE v

\* Mutant: at equal times the later arrival is kept.
NewestAtLeast(v) ==
  \A r \in annotations : r.version.id = v.id => v.at >= r.version.at

\* No copy on the server, or an older one.
Newest(v) ==
  \A r \in annotations : r.version.id = v.id => v.at > r.version.at

\* Mutant: a losing change is left out of accepted.
AcceptedWinners(changes) == {v.id : v \in {w \in changes : Admissible(w) /\ Newest(Clamped(w))}}

\* A change that lost is accepted too: there is nothing left to send.
Accepted(changes) == {v.id : v \in {w \in changes : Admissible(w)}}

Rejected(changes) == {v.id : v \in {w \in changes : ~Admissible(w)}}

Winners(changes) == {v \in {Clamped(w) : w \in {x \in changes : Admissible(x)}} : Newest(v)}

\* The changes of a request have distinct IDs and the store takes them in the
\* order they were sent, which the client's clock decides.
Orders(S) ==
  {f \in [S -> 1 .. Cardinality(S)] : \A x, y \in S : f[x] = f[y] => x = y}

\* Mutant: INSERT without ON CONFLICT.
StoredBeside(changes, order) ==
  annotations \cup {[version |-> v, rev |-> revision + order[v]] : v \in Winners(changes)}

Stored(changes, order) ==
  {r \in annotations : \A v \in Winners(changes) : v.id /= r.version.id}
    \cup {[version |-> v, rev |-> revision + order[v]] : v \in Winners(changes)}

Unseen(table, cursor) ==
  {r \in table : r.rev > cursor /\ Readable(r.version.id)}

Page(table, cursor) ==
  LET unseen == Unseen(table, cursor)
  IN  {r \in unseen : Cardinality({q \in unseen : q.rev < r.rev}) < PullPageSize}

NextCursor(table, cursor) ==
  LET page == Page(table, cursor)
  IN  IF page = {} THEN cursor
      ELSE CHOOSE n \in {r.rev : r \in page} : \A r \in page : r.rev <= n

\* Mutant: what beat a losing change is sent only if the page holds it.
PulledPage(table, cursor, changes) == {r.version : r \in Page(table, cursor)}

\* The page, and whatever beat a losing change, which the page may not hold.
Pulled(table, cursor, changes) ==
  LET losers == Accepted(changes) \ {v.id : v \in Winners(changes)}
  IN  {r.version : r \in Page(table, cursor) \cup
         {q \in table : q.version.id \in losers /\ Readable(q.version.id)}}

AnswerTo(table, cursor, changes) ==
  [ok |-> TRUE, cursor |-> NextCursor(table, cursor),
   hasMore |-> Unseen(table, cursor) /= Page(table, cursor),
   accepted |-> Accepted(changes), rejected |-> Rejected(changes),
   annotations |-> Pulled(table, cursor, changes)]

NoAnswer == [ok |-> FALSE, cursor |-> 0, hasMore |-> FALSE,
             accepted |-> {}, rejected |-> {}, annotations |-> {}]

\* Sync: what it stores.  AnswerTo is what it answers, over the same tables.
Sync(changes, order) ==
  /\ annotations' = Stored(changes, order)
  /\ revision' = revision + Cardinality(Winners(changes))
  /\ UNCHANGED <<books, withheld, regranted, now>>

\* A book leaves the catalog: its annotations go with it, without tombstones.
RemoveBook(b) ==
  /\ b \in books
  /\ books' = books \ {b}
  /\ annotations' = {r \in annotations : IdBook[r.version.id] /= b}
  /\ UNCHANGED <<revision, withheld, regranted, now>>

\* The reader loses the library a book is in, and is given it again.  (Bound:
\* once for each book.)
Withhold(b) ==
  /\ b \in books \ (withheld \cup regranted)
  /\ withheld' = withheld \cup {b}
  /\ UNCHANGED <<annotations, revision, books, regranted, now>>

Grant(b) ==
  /\ b \in withheld
  /\ withheld' = withheld \ {b}
  /\ regranted' = regranted \cup {b}
  /\ UNCHANGED <<annotations, revision, books, now>>

Tick ==
  /\ now < MaxNow
  /\ now' = now + 1
  /\ UNCHANGED <<annotations, revision, books, withheld, regranted>>

StoreInit ==
  /\ annotations = {} /\ revision = 0
  /\ books = Books /\ withheld = {} /\ regranted = {}
  /\ now = 0

StoreTypeOK ==
  /\ annotations \subseteq Row
  /\ revision \in Nat
  /\ books \cup withheld \cup regranted \subseteq Books
  /\ now \in Nat

\* The keys paging and the client's merge rely on: one row an annotation, one
\* annotation a revision, and no row ahead of the counter.
RevisionsOK ==
  /\ \A r, q \in annotations :
       (r.rev = q.rev \/ r.version.id = q.version.id) => r = q
  /\ \A r \in annotations : r.rev <= revision

\* "The server keeps whichever edit is newest": no order of arrival, retry or
\* clock replaces an annotation by an older version, tombstones included.
LastEditWins ==
  \A r \in annotations :
    IdBook[r.version.id] \in books' =>
      \E q \in annotations' :
        /\ q.version.id = r.version.id
        /\ q = r \/ q.version.at > r.version.at

=============================================================================
