------------------------- MODULE ReadingStoreProofs -------------------------
(***************************************************************************)
(* What holds of the progress store for every set of books, editions,      *)
(* changes, clients and clocks.  The inductive invariant says the same of  *)
(* the committed tables and of the private copy of an open transaction,    *)
(* and that the copy only adds to what is committed.                       *)
(***************************************************************************)
EXTENDS ReadingStoreRegister, TLAPS, WellFoundedInduction

(***************************************************************************)
(* The order of the upsert is a strict total order on log rows.            *)
(***************************************************************************)

\* Stored text orders instants strictly, and only an instant ties with itself
\* (the comparison of occurred_at in recordChange).
LEMMA TextLaterOrder ==
  ASSUME NEW a \in Instant, NEW b \in Instant, NEW c \in Instant
  PROVE  /\ ~TextLater(a, a)
         /\ TextLater(a, b) \/ TextLater(b, a) \/ a = b
         /\ TextLater(a, b) /\ TextLater(b, c) => TextLater(a, c)
BY DEF TextLater, TextFrac, Instant

\* Beats, on rows whose revisions differ, picks exactly one of two rows and is
\* transitive: the outcome of the upsert cannot depend on the arrival order.
LEMMA BeatsOrder ==
  ASSUME NEW a, NEW b, NEW c,
         a.change.at \in Instant, b.change.at \in Instant, c.change.at \in Instant,
         a.rev \in Nat, b.rev \in Nat, c.rev \in Nat
  PROVE  /\ a.rev /= b.rev => Beats(a, b) \/ Beats(b, a)
         /\ Beats(a, b) /\ Beats(b, c) => Beats(a, c)
<1> DEFINE x == a.change.at  y == b.change.at  z == c.change.at
<1>1. /\ TextLater(x, y) \/ TextLater(y, x) \/ x = y
      /\ TextLater(x, y) /\ TextLater(y, z) => TextLater(x, z)
  BY TextLaterOrder
<1>2. a.rev /= b.rev => Beats(a, b) \/ Beats(b, a)
  BY <1>1 DEF Beats
<1>3. Beats(a, b) /\ Beats(b, c) => Beats(a, c)
  <2> HIDE DEF x, y, z
  <2>1. Beats(a, b) <=> TextLater(x, y) \/ (x = y /\ a.rev > b.rev)
    BY DEF Beats, x, y
  <2>2. Beats(b, c) <=> TextLater(y, z) \/ (y = z /\ b.rev > c.rev)
    BY DEF Beats, y, z
  <2>3. Beats(a, c) <=> TextLater(x, z) \/ (x = z /\ a.rev > c.rev)
    BY DEF Beats, x, z
  <2> QED BY <1>1, <2>1, <2>2, <2>3
<1> QED BY <1>2, <1>3

-----------------------------------------------------------------------------
(* The inductive invariant. *)

\* Logged events name an edition of their book: what a removal takes from the
\* log belongs to a book that is no longer intact.
Catalogued(d) ==
  \A e \in d.events : EditionBook[e.change.edition] = e.change.book

Good(d) == Keys(d) /\ Catalogued(d) /\ Logged(d) /\ Latest(d) /\ Finished(d)

\* d holds every event of base, and per book a row at least as new.
Extends(d, base) ==
  /\ base.events \subseteq d.events
  /\ \A p \in base.progress : \E q \in d.progress :
       q.change.book = p.change.book /\ (q = p \/ Beats(q, p))

IInv ==
  /\ TypeOK
  /\ Good(db)
  /\ \A client \in Clients : \A a \in reply[client].acks : Acknowledged(a, db)
  /\ \A t \in tx : /\ Good(t.db)
                   /\ Extends(t.db, db)
                   /\ \A a \in t.acks : Acknowledged(a, t.db)

-----------------------------------------------------------------------------
(* One change. *)

LEMMA ChangeType ==
  ASSUME NEW c \in Changes
  PROVE  /\ c.id \in EventIds /\ c.book \in Books /\ c.edition \in Editions
         /\ c.at \in Instant /\ c.place \in Places
BY StoreAssumption DEF StoreAssumption, Change

\* The finish date of the new row is an instant, set exactly for a finished
\* place (the CASE of the upsert).
LEMMA FinishedAtType ==
  ASSUME NEW c \in Changes, NEW current \in SUBSET ProgressRow
  PROVE  /\ FinishedAt(c, current) \in SUBSET Instant
         /\ FinishedAt(c, current) = {} <=> c.place \notin FinishedPlaces
         /\ \A f \in FinishedAt(c, current) :
              f = c.at \/ \E p \in current : f \in p.finishedAt
BY ChangeType DEF FinishedAt, ProgressRow

\* Recording one fresh change keeps every promise of the store and only adds
\* to it: the heart of the argument (recordChange).
LEMMA RecordChangeKeeps ==
  ASSUME NEW d \in Database, NEW c \in Changes, Good(d),
         \A e \in d.events : e.change.id /= c.id,
         EditionBook[c.edition] = c.book
  PROVE  /\ RecordChange(d, c) \in Database
         /\ Good(RecordChange(d, c))
         /\ Extends(RecordChange(d, c), d)
<1> DEFINE n       == RecordChange(d, c)
           rev     == d.revision + 1
           entry   == [rev |-> rev, change |-> c]
           current == RowsOf(c.book, d.progress)
           wins    == \A p \in current : Beats(entry, p)
           disp    == IF wins THEN "applied" ELSE "superseded"
           new     == [rev |-> rev, change |-> c, disposition |-> disp]
           row     == [rev |-> rev, change |-> c,
                       finishedAt |-> FinishedAt(c, current)]
<1>1. /\ n.events = d.events \cup {new}
      /\ n.progress = IF wins THEN (d.progress \ current) \cup {row} ELSE d.progress
      /\ n.revision = rev
      /\ n = [events |-> n.events, progress |-> n.progress, revision |-> n.revision]
  BY DEF RecordChange
<1>2. /\ d.events \in SUBSET EventRow /\ d.progress \in SUBSET ProgressRow
      /\ d.revision \in Nat
  BY DEF Database
<1>3. current \in SUBSET ProgressRow /\ current = {p \in d.progress : p.change.book = c.book}
  BY <1>2 DEF RowsOf
<1>4. new \in EventRow /\ new.rev = rev /\ new.change = c /\ new.disposition = disp
  BY <1>2 DEF EventRow, Disposition
<1>5. row \in ProgressRow /\ row.rev = rev /\ row.change = c
      /\ row.finishedAt = FinishedAt(c, current)
  BY <1>2, <1>3, FinishedAtType DEF ProgressRow
<1>6. entry.rev = rev /\ entry.change = c
  OBVIOUS
<1>7. \A e \in d.events : /\ e.rev \in Nat /\ e.change \in Changes
                          /\ e.change.at \in Instant
  BY <1>2, ChangeType DEF EventRow
<1>8. \A p \in d.progress : /\ p.rev \in Nat /\ p.change \in Changes
                            /\ p.change.at \in Instant
  BY <1>2, ChangeType DEF ProgressRow
<1>9. c.at \in Instant /\ rev \in Nat
  BY <1>2, ChangeType
<1> HIDE DEF n, new, row, entry, current, wins, disp, rev
<1>10. n \in Database
  BY <1>1, <1>2, <1>4, <1>5, <1>9 DEF Database
<1>11. Keys(n)
  <2>1. \A e \in d.events : e.rev < rev
    BY <1>2, <1>7 DEF Good, Keys, rev
  <2>2. \A e, f \in n.events : (e.rev = f.rev \/ e.change.id = f.change.id) => e = f
    BY <2>1, <1>1, <1>4, <1>7, <1>9 DEF Good, Keys
  <2>3. \A e \in n.events : e.rev <= n.revision
    BY <2>1, <1>1, <1>4, <1>7, <1>9
  <2>4. \A p, q \in n.progress : p.change.book = q.change.book => p = q
    BY <1>1, <1>3, <1>5 DEF Good, Keys
  <2> QED BY <2>2, <2>3, <2>4 DEF Keys
<1>12. Logged(n)
  <2> SUFFICES ASSUME NEW p \in n.progress
               PROVE  \E e \in n.events : /\ e.rev = p.rev /\ e.change = p.change
                                          /\ e.disposition = "applied"
    BY DEF Logged
  <2>1. CASE p \in d.progress
    BY <2>1, <1>1 DEF Good, Logged
  <2>2. CASE p \notin d.progress
    <3>1. wins /\ p = row
      BY <2>2, <1>1
    <3> QED BY <3>1, <1>1, <1>4, <1>5 DEF disp
  <2> QED BY <2>1, <2>2
\* The row of a book after the change beats or is what it was before, and
\* beats or is the new entry.
<1>13. \A p \in d.progress : \E q \in n.progress :
         q.change.book = p.change.book /\ (q = p \/ Beats(q, p))
  <2> SUFFICES ASSUME NEW p \in d.progress, p \notin n.progress
               PROVE  \E q \in n.progress :
                        q.change.book = p.change.book /\ (q = p \/ Beats(q, p))
    OBVIOUS
  <2>1. wins /\ p \in current
    BY <1>1
  <2>2. row \in n.progress /\ Beats(entry, p)
    BY <2>1, <1>1 DEF wins
  <2>3. Beats(row, p) /\ row.change.book = p.change.book
    BY <2>1, <2>2, <1>3, <1>5, <1>6 DEF Beats
  <2> QED BY <2>2, <2>3
<1>14. \E q \in n.progress : q.change.book = c.book /\ (q.rev = new.rev \/ Beats(q, new))
  <2>1. CASE wins
    BY <2>1, <1>1, <1>4, <1>5
  <2>2. CASE ~wins
    <3>1. PICK p \in current : ~Beats(entry, p)
      BY <2>2 DEF wins
    <3>2. p \in d.progress /\ p \in n.progress /\ p.change.book = c.book
      BY <3>1, <2>2, <1>1, <1>3
    <3>3. PICK e \in d.events : e.rev = p.rev
      BY <3>2 DEF Good, Logged
    <3>4. p.rev < rev
      BY <3>2, <3>3, <1>2, <1>7 DEF Good, Keys, rev
    <3>5. Beats(p, new) \/ Beats(new, p)
      BY <3>2, <3>4, <1>4, <1>8, <1>9, BeatsOrder
    <3>6. Beats(new, p) <=> Beats(entry, p)
      BY <1>4, <1>6 DEF Beats
    <3> QED BY <3>1, <3>2, <3>5, <3>6
  <2> QED BY <2>1, <2>2
<1>15. Latest(n)
  <2> SUFFICES ASSUME NEW e \in n.events, Intact(e.change.book, editions)
               PROVE  \E q \in n.progress : /\ q.change.book = e.change.book
                                            /\ q.rev = e.rev \/ Beats(q, e)
    BY DEF Latest
  <2>1. CASE e = new
    BY <2>1, <1>4, <1>14
  <2>2. CASE e \in d.events
    <3>1. PICK p \in d.progress : /\ p.change.book = e.change.book
                                  /\ p.rev = e.rev \/ Beats(p, e)
      BY <2>2 DEF Good, Latest
    <3>2. PICK q \in n.progress : q.change.book = p.change.book /\ (q = p \/ Beats(q, p))
      BY <1>13
    <3>3. q.rev \in Nat /\ q.change.at \in Instant
      BY <3>2, <1>1, <1>5, <1>8, <1>9
    <3>4. CASE p.rev = e.rev
      <4>1. PICK f \in d.events : f.rev = p.rev /\ f.change = p.change
        BY DEF Good, Logged
      <4>2. p.change = e.change
        BY <4>1, <3>4, <2>2 DEF Good, Keys
      <4>3. Beats(q, p) <=> Beats(q, e)
        BY <4>2, <3>4 DEF Beats
      <4> QED BY <4>3, <3>1, <3>2, <3>4
    <3>5. CASE Beats(p, e)
      BY <3>1, <3>2, <3>3, <3>5, <2>2, <1>7, <1>8, BeatsOrder
    <3> QED BY <3>1, <3>4, <3>5
  <2> QED BY <2>1, <2>2, <1>1
<1>16. Finished(n)
  <2> SUFFICES ASSUME NEW p \in n.progress
               PROVE  /\ p.finishedAt = {} <=> p.change.place \notin FinishedPlaces
                      /\ Intact(p.change.book, editions) =>
                           \A f \in p.finishedAt : \E e \in n.events :
                             /\ e.change.book = p.change.book /\ e.change.at = f
                             /\ e.change.place \in FinishedPlaces
    BY DEF Finished
  <2>1. CASE p \in d.progress
    BY <2>1, <1>1 DEF Good, Finished
  <2>2. CASE p = row
    <3>1. p.finishedAt = {} <=> p.change.place \notin FinishedPlaces
      BY <2>2, <1>3, <1>5, FinishedAtType
    <3>2. ASSUME Intact(p.change.book, editions), NEW f \in p.finishedAt
          PROVE  \E e \in n.events : /\ e.change.book = p.change.book /\ e.change.at = f
                                     /\ e.change.place \in FinishedPlaces
      <4>1. f = c.at \/ \E q \in current : f \in q.finishedAt
        BY <3>2, <2>2, <1>3, <1>5, FinishedAtType
      <4>2. CASE f = c.at
        BY <4>2, <3>1, <3>2, <2>2, <1>1, <1>4, <1>5
      <4>3. CASE \E q \in current : f \in q.finishedAt
        <5>1. PICK q \in d.progress : q.change.book = c.book /\ f \in q.finishedAt
          BY <4>3, <1>3
        <5>2. PICK e \in d.events : /\ e.change.book = q.change.book /\ e.change.at = f
                                    /\ e.change.place \in FinishedPlaces
          BY <5>1, <3>2, <2>2, <1>5 DEF Good, Finished
        <5> QED BY <5>1, <5>2, <2>2, <1>1, <1>5
      <4> QED BY <4>1, <4>2, <4>3
    <3> QED BY <3>1, <3>2
  <2> QED BY <2>1, <2>2, <1>1
<1>17. Extends(n, d)
  BY <1>1, <1>13 DEF Extends
<1>18. Catalogued(n)
  BY <1>1, <1>4 DEF Good, Catalogued
<1> QED BY <1>10, <1>11, <1>12, <1>15, <1>16, <1>17, <1>18 DEF Good, n

-----------------------------------------------------------------------------
(* The answer to a request. *)

\* A set of revisions that none exceeds m has a greatest element.
LEMMA GreatestRevision ==
  ASSUME NEW m \in Nat, NEW S \in SUBSET Nat, S /= {}, \A r \in S : r <= m
  PROVE  \E r \in S : \A q \in S : q <= r
<1> DEFINE T    == {m - r : r \in S}
           Less == {pair \in Nat \X Nat : pair[1] < pair[2]}
<1>1. T \subseteq Nat /\ T /= {}
  <2>1. PICK r \in S : TRUE
    OBVIOUS
  <2>2. m - r \in T
    BY <2>1
  <2>3. \A q \in S : m - q \in Nat
    OBVIOUS
  <2> QED BY <2>2, <2>3
<1>2. IsWellFoundedOn(Less, Nat)
  BY NatLessThanWellFounded DEF OpToRel
<1>3. PICK x \in T : \A y \in T : <<y, x>> \notin Less
  <2> HIDE DEF T, Less
  <2> QED BY <1>1, <1>2, WFMin
<1>4. \A y \in T : ~(y < x)
  BY <1>1, <1>3
<1>5. PICK r \in S : x = m - r
  BY <1>3
<1>6. ASSUME NEW q \in S PROVE q <= r
  <2>1. m - q \in T
    OBVIOUS
  <2>2. ~(m - q < m - r)
    BY <1>4, <1>5, <2>1
  <2> QED BY <2>2
<1> QED BY <1>6

\* The cursor a response carries is a revision of its page, the last one, or
\* the cursor that was sent (changedBookIDs).
LEMMA NextCursorType ==
  ASSUME NEW d \in Database, Keys(d), NEW cursor \in Nat
  PROVE  /\ NextCursor(d, cursor) \in Nat
         /\ \A e \in Page(d, cursor) : e.rev <= NextCursor(d, cursor)
         /\ \/ NextCursor(d, cursor) = cursor
            \/ \E e \in Page(d, cursor) : e.rev = NextCursor(d, cursor)
<1> DEFINE page == Page(d, cursor)
           revs == {e.rev : e \in page}
<1>1. page \subseteq d.events
  BY DEF Page, Unseen
<1>2. revs \in SUBSET Nat /\ \A r \in revs : r <= d.revision
  BY <1>1 DEF Keys, Database, EventRow
<1>3. d.revision \in Nat
  BY DEF Database
<1>4. CASE page = {}
  BY <1>4 DEF NextCursor
<1>5. CASE page /= {}
  <2>1. revs /= {}
    BY <1>5
  <2>2. \E r \in revs : \A q \in revs : q <= r
    <3> HIDE DEF revs, page
    <3> QED BY <1>2, <1>3, <2>1, GreatestRevision
  <2>3. \E r \in revs : \A e \in page : e.rev <= r
    BY <2>2
  <2>4. NextCursor(d, cursor) = CHOOSE r \in revs : \A e \in page : e.rev <= r
    BY <1>5 DEF NextCursor
  <2> HIDE DEF revs, page
  <2>5. NextCursor(d, cursor) \in revs /\ \A e \in page : e.rev <= NextCursor(d, cursor)
    BY <2>3, <2>4
  <2>6. \E e \in page : e.rev = NextCursor(d, cursor)
    BY <2>5 DEF revs
  <2> QED BY <2>5, <2>6, <1>2 DEF page
<1> QED BY <1>4, <1>5

-----------------------------------------------------------------------------
(* Init and every step. *)

LEMMA AnswerType ==
  ASSUME NEW status \in Status
  PROVE  Answer(status) \in Reply /\ Answer(status).acks = {}
BY DEF Answer, Reply

LEMMA InitInvariant == StoreInit => IInv
<1> SUFFICES ASSUME StoreInit PROVE IInv
  OBVIOUS
<1>1. db.events = {} /\ db.progress = {} /\ db.revision = 0 /\ tx = {}
  BY DEF StoreInit
<1>2. db \in Database
  BY DEF StoreInit, Database
<1>3. \A client \in Clients : reply[client] \in Reply /\ reply[client].acks = {}
  BY AnswerType DEF StoreInit, NoReply, Status
<1>4. TypeOK
  BY <1>1, <1>2, <1>3 DEF StoreInit, TypeOK
<1>5. Good(db)
  BY <1>1 DEF Good, Keys, Catalogued, Logged, Latest, Finished
<1> QED BY <1>1, <1>3, <1>4, <1>5 DEF IInv

\* A rejected or failed request changes no table.
LEMMA RollbackKeeps ==
  ASSUME IInv, NEW t \in tx, NEW status \in Status, Rollback(t, status)
  PROVE  IInv'
<1>1. tx' = {} /\ db' = db /\ editions' = editions /\ visible' = visible /\ now' = now
  BY DEF Rollback
<1>2. t.by \in Clients
  BY DEF IInv, TypeOK, Transaction
<1>3. reply' \in [Clients -> Reply]
  BY AnswerType DEF Rollback, IInv, TypeOK
<1>4. \A client \in Clients : reply'[client].acks = {} \/ reply'[client] = reply[client]
  BY <1>2, AnswerType DEF Rollback, IInv, TypeOK
<1>5. TypeOK'
  BY <1>1, <1>3 DEF IInv, TypeOK
<1>6. Good(db)'
  BY <1>1 DEF IInv, Good, Keys, Catalogued, Logged, Latest, Finished
<1>7. \A client \in Clients : \A a \in reply'[client].acks : Acknowledged(a, db)'
  BY <1>1, <1>4 DEF IInv, Acknowledged
<1> QED BY <1>1, <1>5, <1>6, <1>7 DEF IInv

\* One more change of the batch is in the private copy.
LEMMA AdvanceKeeps ==
  ASSUME IInv, NEW t \in tx, t.todo /= <<>>,
         NEW d \in Database, Good(d), Extends(d, db), t.db.events \subseteq d.events,
         NEW ack \in Ack, Acknowledged(ack, d),
         Advance(t, d, ack)
  PROVE  IInv'
<1> DEFINE u == [by |-> t.by, cursor |-> t.cursor, todo |-> Tail(t.todo),
                 acks |-> t.acks \cup {ack}, db |-> d]
<1>1. tx' = {u} /\ UNCHANGED <<db, reply, editions, visible, now>>
  BY DEF Advance
<1>2. t \in Transaction
  BY DEF IInv, TypeOK
<1>3. Tail(t.todo) \in Seq(Changes)
  BY <1>2 DEF Transaction
<1>4. u \in Transaction /\ u.db = d /\ u.acks = t.acks \cup {ack}
  BY <1>2, <1>3 DEF Transaction
<1>5. TypeOK'
  BY <1>1, <1>4 DEF IInv, TypeOK
<1>6. \A a \in t.acks : Acknowledged(a, d)
  BY DEF IInv, Acknowledged
<1>7. Good(u.db)' /\ Extends(u.db, db)' /\ \A a \in u.acks : Acknowledged(a, u.db)'
  <2> HIDE DEF u
  <2> QED BY <1>1, <1>4, <1>6
           DEF Good, Keys, Catalogued, Logged, Latest, Finished, Extends, Acknowledged
<1>8. Good(db)' /\ \A client \in Clients : \A a \in reply'[client].acks : Acknowledged(a, db)'
  BY <1>1 DEF IInv, Good, Keys, Catalogued, Logged, Latest, Finished, Acknowledged
<1> QED BY <1>1, <1>5, <1>7, <1>8 DEF IInv

LEMMA ExtendsChain ==
  ASSUME NEW d \in Database, NEW e \in Database, NEW f \in Database,
         Extends(d, e), Extends(e, f)
  PROVE  Extends(d, f)
<1> SUFFICES ASSUME NEW p \in f.progress
             PROVE  \E q \in d.progress :
                      q.change.book = p.change.book /\ (q = p \/ Beats(q, p))
  BY DEF Extends
<1>1. PICK r \in e.progress : r.change.book = p.change.book /\ (r = p \/ Beats(r, p))
  BY DEF Extends
<1>2. PICK q \in d.progress : q.change.book = r.change.book /\ (q = r \/ Beats(q, r))
  BY DEF Extends
<1>3. \A x \in {p, q, r} : x.rev \in Nat /\ x.change.at \in Instant
  BY <1>1, <1>2, ChangeType DEF Database, ProgressRow
<1>4. Beats(q, r) /\ Beats(r, p) => Beats(q, p)
  BY <1>3, BeatsOrder
<1> QED BY <1>1, <1>2, <1>4

LEMMA RecordNewKeeps ==
  ASSUME IInv, NEW t \in tx, RecordNew(t)
  PROVE  IInv'
<1> DEFINE c   == Head(t.todo)
           d   == RecordChange(t.db, c)
           row == CHOOSE e \in d.events : e.rev = d.revision
           ack == [id |-> c.id, rev |-> d.revision,
                   disposition |-> row.disposition, duplicate |-> FALSE]
<1>1. /\ t.todo /= <<>> /\ \A e \in t.db.events : e.change.id /= c.id
      /\ EditionBook[c.edition] = c.book
      /\ Advance(t, d, ack)
  BY DEF RecordNew, KnownEdition
<1>2. t \in Transaction /\ t.todo \in Seq(Changes) /\ t.db \in Database /\ db \in Database
  BY DEF IInv, TypeOK, Transaction
<1>3. c \in Changes
  BY <1>1, <1>2
<1>4. Good(t.db) /\ Extends(t.db, db)
  BY DEF IInv
<1>5. d \in Database /\ Good(d) /\ Extends(d, t.db)
  BY <1>1, <1>2, <1>3, <1>4, RecordChangeKeeps
<1>6. \E e \in d.events : e.rev = d.revision /\ e.change = c
  <2> DEFINE disp == IF \A p \in RowsOf(c.book, t.db.progress) :
                           Beats([rev |-> t.db.revision + 1, change |-> c], p)
                     THEN "applied" ELSE "superseded"
             new  == [rev |-> t.db.revision + 1, change |-> c, disposition |-> disp]
  <2>1. new \in d.events /\ d.revision = t.db.revision + 1
    BY DEF RecordChange
  <2>2. new.rev = t.db.revision + 1 /\ new.change = c
    OBVIOUS
  <2> QED BY <2>1, <2>2
<1>7. row \in d.events /\ row.rev = d.revision
  BY <1>6
<1>8. row.change = c
  <2> HIDE DEF row, d, c
  <2> QED BY <1>5, <1>6, <1>7 DEF Good, Keys
<1>9. ack \in Ack
  <2>1. row \in EventRow /\ d.revision \in Nat
    <3> HIDE DEF row, d, c
    <3> QED BY <1>5, <1>7 DEF Database
  <2>2. c.id \in EventIds
    BY <1>3, ChangeType
  <2> HIDE DEF row, d, c
  <2> QED BY <2>1, <2>2 DEF Ack, EventRow
<1> HIDE DEF row, d, c
<1>10. Acknowledged(ack, d)
  BY <1>3, <1>7, <1>8 DEF Acknowledged
<1>11. Extends(d, db) /\ t.db.events \subseteq d.events
  BY <1>2, <1>4, <1>5, ExtendsChain DEF Extends
<1> QED BY <1>1, <1>5, <1>9, <1>10, <1>11, AdvanceKeeps

LEMMA RecordDuplicateKeeps ==
  ASSUME IInv, NEW t \in tx, RecordDuplicate(t)
  PROVE  IInv'
<1> DEFINE c == Head(t.todo)
<1>1. PICK e \in t.db.events :
        /\ e.change = c
        /\ Advance(t, t.db, [id |-> c.id, rev |-> e.rev,
                             disposition |-> e.disposition, duplicate |-> TRUE])
  BY DEF RecordDuplicate
<1> DEFINE ack == [id |-> c.id, rev |-> e.rev,
                   disposition |-> e.disposition, duplicate |-> TRUE]
<1>2. t.todo /= <<>> /\ t.db \in Database /\ e \in EventRow /\ Good(t.db) /\ Extends(t.db, db)
  BY DEF RecordDuplicate, IInv, TypeOK, Transaction, Database
<1>3. c \in Changes
  BY <1>1, <1>2 DEF EventRow
<1>4. ack \in Ack
  BY <1>2, <1>3, ChangeType DEF Ack, EventRow
<1>5. Acknowledged(ack, t.db)
  BY <1>1, <1>3 DEF Acknowledged
<1> QED BY <1>1, <1>2, <1>4, <1>5, AdvanceKeeps

LEMMA CommitKeeps ==
  ASSUME IInv, NEW t \in tx, CommitSync(t)
  PROVE  IInv'
<1> DEFINE changed == ChangedBooks(t.db, t.cursor)
           answer  == [status |-> "ok", cursor |-> NextCursor(t.db, t.cursor),
                       hasMore |-> Unseen(t.db, t.cursor) /= Page(t.db, t.cursor),
                       acks |-> t.acks,
                       progress |-> UNION {RowsOf(b, t.db.progress) : b \in changed}]
<1>1. /\ db' = t.db /\ tx' = {} /\ reply' = [reply EXCEPT ![t.by] = answer]
      /\ UNCHANGED <<editions, visible, now>>
  BY DEF CommitSync
<1>2. /\ t.by \in Clients /\ t.cursor \in Nat /\ t.acks \in SUBSET Ack
      /\ t.db \in Database /\ Good(t.db) /\ Extends(t.db, db)
      /\ \A a \in t.acks : Acknowledged(a, t.db)
  BY DEF IInv, TypeOK, Transaction
<1>3. NextCursor(t.db, t.cursor) \in Nat
  BY <1>2, NextCursorType DEF Good
<1>4. answer.progress \in SUBSET ProgressRow
  BY <1>2 DEF RowsOf, Database
<1>5. answer \in Reply /\ answer.acks = t.acks
  <2>1. answer.hasMore \in BOOLEAN
    OBVIOUS
  <2> QED BY <1>2, <1>3, <1>4, <2>1 DEF Reply, Status
<1> HIDE DEF answer
<1>6. TypeOK'
  BY <1>1, <1>2, <1>5 DEF IInv, TypeOK
<1>7. Good(db)'
  BY <1>1, <1>2 DEF Good, Keys, Catalogued, Logged, Latest, Finished
<1>8. \A client \in Clients : \A a \in reply'[client].acks : Acknowledged(a, db)'
  <2> SUFFICES ASSUME NEW client \in Clients, NEW a \in reply'[client].acks
               PROVE  Acknowledged(a, db)'
    OBVIOUS
  <2>1. CASE client = t.by
    BY <2>1, <1>1, <1>2, <1>5 DEF IInv, TypeOK, Acknowledged
  <2>2. CASE client /= t.by
    <3>1. Acknowledged(a, db)
      BY <2>2, <1>1, <1>2 DEF IInv, TypeOK
    <3> QED BY <3>1, <1>1, <1>2 DEF Acknowledged, Extends
  <2> QED BY <2>1, <2>2
<1> QED BY <1>1, <1>6, <1>7, <1>8 DEF IInv

LEMMA RemoveEditionsKeeps ==
  ASSUME IInv, NEW removed \in Removable, RemoveEditions(removed)
  PROVE  IInv'
<1>1. /\ tx = {} /\ tx' = {} /\ reply' = reply
      /\ editions' = editions \ removed /\ UNCHANGED <<visible, now>>
      /\ db'.events = {e \in db.events : e.change.edition \notin removed}
      /\ db'.progress = {p \in db.progress : p.change.edition \notin removed}
      /\ db'.revision = db.revision
      /\ db' = [events |-> db'.events, progress |-> db'.progress, revision |-> db'.revision]
  BY DEF RemoveEditions, IInv, TypeOK, Database
<1>2. db \in Database /\ Good(db)
  BY DEF IInv, TypeOK
<1>3. db' \in Database
  BY <1>1, <1>2 DEF Database
<1>4. \A e \in db.events : /\ e.change.edition \in Editions /\ e.change \in Changes
                           /\ e.change.book \in Books
  BY <1>2, ChangeType DEF Database, EventRow
<1>5. \A p \in db.progress : p.change.edition \in Editions /\ p.change.book \in Books
  BY <1>2, ChangeType DEF Database, ProgressRow
<1>6. TypeOK'
  BY <1>1, <1>3 DEF IInv, TypeOK
<1>7. Keys(db)'
  BY <1>1, <1>2 DEF Good, Keys
<1>8. Logged(db)'
  BY <1>1, <1>2 DEF Good, Logged
<1>9. ASSUME NEW b, Intact(b, editions')
      PROVE  /\ Intact(b, editions)
             /\ \A e \in db.events : e.change.book = b => e \in db'.events
             /\ \A p \in db.progress : p.change.book = b => p \in db'.progress
  <2>1. Intact(b, editions)
    BY <1>1, <1>9 DEF Intact
  <2>2. \A e \in db.events : e.change.book = b => e.change.edition \in editions'
    BY <1>2, <1>4, <1>9 DEF Good, Catalogued, Intact
  <2>3. \A p \in db.progress : p.change.book = b => p.change.edition \in editions'
    BY <1>2, <1>5, <1>9, <2>2 DEF Good, Logged
  <2> QED BY <1>1, <2>1, <2>2, <2>3
<1>10. Latest(db)'
  BY <1>1, <1>2, <1>9 DEF Good, Latest
<1>11. Finished(db)'
  <2> SUFFICES ASSUME NEW p \in db'.progress
               PROVE  /\ p.finishedAt = {} <=> p.change.place \notin FinishedPlaces
                      /\ Intact(p.change.book, editions') =>
                           \A f \in p.finishedAt : \E e \in db'.events :
                             /\ e.change.book = p.change.book /\ e.change.at = f
                             /\ e.change.place \in FinishedPlaces
    BY DEF Finished
  <2>1. p \in db.progress
    BY <1>1
  <2>2. p.finishedAt = {} <=> p.change.place \notin FinishedPlaces
    BY <1>2, <2>1 DEF Good, Finished
  <2>3. ASSUME Intact(p.change.book, editions'), NEW f \in p.finishedAt
        PROVE  \E e \in db'.events : /\ e.change.book = p.change.book /\ e.change.at = f
                                     /\ e.change.place \in FinishedPlaces
    <3>1. Intact(p.change.book, editions)
      BY <1>9, <2>3
    <3>2. PICK e \in db.events : /\ e.change.book = p.change.book /\ e.change.at = f
                                 /\ e.change.place \in FinishedPlaces
      BY <1>2, <2>1, <2>3, <3>1 DEF Good, Finished
    <3> QED BY <1>9, <2>3, <3>2
  <2> QED BY <2>2, <2>3
<1>12. Catalogued(db)'
  BY <1>1, <1>2 DEF Good, Catalogued
<1>13. ASSUME NEW client \in Clients, NEW a \in reply'[client].acks
       PROVE  Acknowledged(a, db)'
  <2>1. PICK c \in Changes :
          /\ c.id = a.id
          /\ c.edition \in editions =>
               \E e \in db.events : e.change = c /\ e.rev = a.rev /\ e.disposition = a.disposition
    BY <1>1, <1>13 DEF IInv, Acknowledged
  <2>2. c.edition \in editions' =>
          \E e \in db'.events : e.change = c /\ e.rev = a.rev /\ e.disposition = a.disposition
    BY <1>1, <2>1
  <2> QED BY <2>1, <2>2 DEF Acknowledged
<1> QED BY <1>1, <1>6, <1>7, <1>8, <1>10, <1>11, <1>12, <1>13 DEF IInv, Good

\* Steps that touch neither tables nor catalog: requests that open or refuse,
\* replies taken, access changed, the clock.
LEMMA OtherStepsKeep ==
  ASSUME IInv,
         \/ \E client \in Clients, cursor \in Nat, changes \in Seq(Changes) :
              Request(client, cursor, changes)
         \/ \E client \in Clients : RefuseVersion(client) \/ TakeReply(client)
         \/ \E books \in SUBSET Books : SetVisible(books)
         \/ Tick
         \/ UNCHANGED storeVars
  PROVE  IInv'
<1>1. db' = db /\ editions' = editions
  BY DEF Request, RefuseSync, RefuseVersion, BeginSync, TakeReply, SetVisible, Tick, storeVars
<1>2. Good(db)'
  BY <1>1 DEF IInv, Good, Keys, Catalogued, Logged, Latest, Finished
<1>3. \A a : Acknowledged(a, db)' <=> Acknowledged(a, db)
  BY <1>1 DEF Acknowledged
<1>4. \A t \in tx : Good(t.db)' /\ Extends(t.db, db)'
                    /\ \A a \in t.acks : Acknowledged(a, t.db)'
  BY <1>1 DEF IInv, Good, Keys, Catalogued, Logged, Latest, Finished, Extends, Acknowledged
<1>5. CASE \E client \in Clients, cursor \in Nat, changes \in Seq(Changes) :
             RefuseSync(client, changes)
  <2>1. PICK client \in Clients, changes \in Seq(Changes) : RefuseSync(client, changes)
    BY <1>5
  <2>2. /\ tx' = tx /\ UNCHANGED <<visible, now>>
        /\ reply' = [reply EXCEPT ![client] = Answer("invalid_change")]
    BY <2>1 DEF RefuseSync
  <2>3. TypeOK'
    BY <1>1, <2>2, AnswerType DEF IInv, TypeOK, Status
  <2>4. \A k \in Clients : reply'[k].acks \subseteq reply[k].acks
    BY <2>2, AnswerType DEF IInv, TypeOK, Status
  <2> QED BY <1>1, <1>2, <1>3, <1>4, <2>2, <2>3, <2>4 DEF IInv
<1>9. CASE \E client \in Clients : RefuseVersion(client)
  <2>1. PICK client \in Clients : RefuseVersion(client)
    BY <1>9
  <2>2. /\ tx' = tx /\ UNCHANGED <<visible, now>>
        /\ reply' = [reply EXCEPT ![client] = Answer("version_mismatch")]
    BY <2>1 DEF RefuseVersion
  <2>3. TypeOK'
    BY <1>1, <2>2, AnswerType DEF IInv, TypeOK, Status
  <2>4. \A k \in Clients : reply'[k].acks \subseteq reply[k].acks
    BY <2>2, AnswerType DEF IInv, TypeOK, Status
  <2> QED BY <1>1, <1>2, <1>3, <1>4, <2>2, <2>3, <2>4 DEF IInv
<1>6. CASE \E client \in Clients, cursor \in Nat, changes \in Seq(Changes) :
             BeginSync(client, cursor, changes)
  <2>1. PICK client \in Clients, cursor \in Nat, changes \in Seq(Changes) :
          BeginSync(client, cursor, changes)
    BY <1>6
  <2>2. reply' = reply /\ UNCHANGED <<visible, now>>
    BY <2>1 DEF BeginSync
  <2>3. PICK t \in Transaction : tx' = {t} /\ t.db = db /\ t.acks = {}
    <3> DEFINE u == [by |-> client, cursor |-> cursor, todo |-> changes,
                     acks |-> {}, db |-> db]
    <3>1. u \in Transaction
      BY DEF Transaction, IInv, TypeOK
    <3> QED BY <2>1, <3>1 DEF BeginSync
  <2>4. Good(t.db)'
    BY <1>1, <1>2, <2>3 DEF Good, Keys, Catalogued, Logged, Latest, Finished
  <2>5. Extends(t.db, db)'
    BY <1>1, <2>3 DEF Extends
  <2>6. TypeOK'
    BY <1>1, <2>2, <2>3 DEF IInv, TypeOK
  <2> QED BY <1>1, <1>2, <1>3, <2>2, <2>3, <2>4, <2>5, <2>6 DEF IInv
<1>7. CASE \E client \in Clients : TakeReply(client)
  <2>1. PICK client \in Clients : TakeReply(client)
    BY <1>7
  <2>2. tx' = tx /\ reply' = [reply EXCEPT ![client] = NoReply] /\ UNCHANGED <<visible, now>>
    BY <2>1 DEF TakeReply
  <2>3. NoReply \in Reply /\ NoReply.acks = {}
    BY AnswerType DEF NoReply, Status
  <2>4. TypeOK' /\ \A k \in Clients : reply'[k].acks \subseteq reply[k].acks
    BY <1>1, <2>2, <2>3 DEF IInv, TypeOK
  <2> QED BY <1>1, <1>2, <1>3, <1>4, <2>2, <2>4 DEF IInv
<1>8. CASE \/ \E books \in SUBSET Books : SetVisible(books)
           \/ Tick \/ UNCHANGED storeVars
  <2>1. tx' = tx /\ reply' = reply /\ TypeOK'
    BY <1>1, <1>8 DEF SetVisible, Tick, storeVars, IInv, TypeOK
  <2> QED BY <1>1, <1>2, <1>3, <1>4, <2>1 DEF IInv
<1> QED BY <1>5, <1>6, <1>7, <1>8, <1>9 DEF Request

LEMMA SyncStepKeeps == IInv /\ SyncStep => IInv'
<1> SUFFICES ASSUME IInv, NEW t \in tx,
                    \/ RecordNew(t) \/ RecordDuplicate(t) \/ RecordConflict(t)
                    \/ RecordUnknown(t) \/ RecordWrongFormat(t)
                    \/ CommitSync(t) \/ CommitWithoutRow(t) \/ Abort(t)
             PROVE  IInv'
  BY DEF SyncStep, Handle
<1>1. CASE RecordNew(t)
  BY <1>1, RecordNewKeeps
<1>2. CASE RecordDuplicate(t)
  BY <1>2, RecordDuplicateKeeps
<1>3. CASE CommitSync(t)
  BY <1>3, CommitKeeps
<1>4. ASSUME NEW status \in Status, Rollback(t, status)
      PROVE  IInv'
  BY <1>4, RollbackKeeps
<1>5. CASE \/ RecordConflict(t) \/ RecordUnknown(t) \/ RecordWrongFormat(t)
           \/ CommitWithoutRow(t) \/ Abort(t)
  BY <1>4, <1>5 DEF RecordConflict, RecordUnknown, RecordWrongFormat,
                    CommitWithoutRow, Abort, Status
<1> QED BY <1>1, <1>2, <1>3, <1>5

LEMMA StepInvariant == IInv /\ [StoreNext]_storeVars => IInv'
<1> SUFFICES ASSUME IInv, [StoreNext]_storeVars PROVE IInv'
  OBVIOUS
<1>1. CASE SyncStep
  BY <1>1, SyncStepKeeps
<1>2. CASE \E removed \in Removable : RemoveEditions(removed)
  BY <1>2, RemoveEditionsKeeps
<1>3. CASE \/ \E client \in Clients, cursor \in Cursors, changes \in Batches :
                Request(client, cursor, changes)
           \/ \E client \in Clients : RefuseVersion(client) \/ TakeReply(client)
           \/ \E books \in SUBSET Books : SetVisible(books)
           \/ Tick
           \/ UNCHANGED storeVars
  BY <1>3, OtherStepsKeep, StoreAssumption DEF StoreAssumption
<1> QED BY <1>1, <1>2, <1>3 DEF StoreNext

-----------------------------------------------------------------------------
(* The theorems. *)

\* The inductive invariant holds of every behaviour of the store.
THEOREM StoreInvariant == StoreSpec => []IInv
<1>1. StoreInit => IInv
  BY InitInvariant
<1>2. IInv /\ [StoreNext]_storeVars => IInv'
  BY StepInvariant
<1> QED BY <1>1, <1>2, PTL DEF StoreSpec

\* Every variable keeps its type, and at most one transaction is open.
THEOREM StoreTypeCorrect == StoreSpec => []TypeOK
<1>1. IInv => TypeOK
  BY DEF IInv
<1> QED BY <1>1, StoreInvariant, PTL

\* Client event IDs and revisions stay unique and bounded by the counter, a
\* book has one canonical row: retries never duplicate an event.
THEOREM StoreKeys == StoreSpec => []KeysOK
<1>1. IInv => KeysOK
  BY DEF IInv, Good, KeysOK
<1> QED BY <1>1, StoreInvariant, PTL

\* For a book whose editions were never removed, the canonical row is that of
\* the logged event no other event of the book beats in the upsert's order.
THEOREM StoreCanonicalIsLatest == StoreSpec => []CanonicalIsLatest
<1>1. IInv => CanonicalIsLatest
  BY DEF IInv, Good, CanonicalIsLatest
<1> QED BY <1>1, StoreInvariant, PTL

\* The canonical row was logged and acknowledged as applied.
THEOREM StoreCanonicalIsLogged == StoreSpec => []CanonicalIsLogged
<1>1. IInv => CanonicalIsLogged
  BY DEF IInv, Good, CanonicalIsLogged
<1> QED BY <1>1, StoreInvariant, PTL

\* finished_at is set exactly on finished canonical rows, from a logged event.
THEOREM StoreFinished == StoreSpec => []FinishedMatchesCanonical
<1>1. IInv => FinishedMatchesCanonical
  BY DEF IInv, Good, FinishedMatchesCanonical
<1> QED BY <1>1, StoreInvariant, PTL

\* Whatever a client reads as acknowledged is in the committed log under that
\* revision and disposition, unless its edition left the catalog.
THEOREM StoreAcksAreDurable == StoreSpec => []AcksAreDurable
<1>1. IInv => AcksAreDurable
  BY DEF IInv, AcksAreDurable
<1> QED BY <1>1, StoreInvariant, PTL

-----------------------------------------------------------------------------
(* What a step may never do. *)

\* A step leaves the tables alone, adds to them, or takes what belongs to
\* removed editions.
LEMMA StepEffect ==
  ASSUME IInv, [StoreNext]_storeVars
  PROVE  \/ db' = db /\ editions' = editions
         \/ Extends(db', db) /\ editions' = editions /\ db' \in Database /\ Good(db)'
         \/ \E removed \in Removable : RemoveEditions(removed)
<1>1. CASE SyncStep
  <2>1. PICK t \in tx : \/ RecordNew(t) \/ RecordDuplicate(t) \/ RecordConflict(t)
                        \/ RecordUnknown(t) \/ RecordWrongFormat(t)
                        \/ CommitSync(t) \/ CommitWithoutRow(t) \/ Abort(t)
    BY <1>1 DEF SyncStep, Handle
  <2>2. CASE CommitSync(t)
    <3>1. db' = t.db /\ editions' = editions
      BY <2>2 DEF CommitSync
    <3>2. t.db \in Database /\ Extends(t.db, db)
      BY DEF IInv, TypeOK, Transaction
    <3>3. Good(db)'
      BY <1>1, SyncStepKeeps DEF IInv
    <3> QED BY <3>1, <3>2, <3>3
  <2>3. CASE ~CommitSync(t)
    BY <2>1, <2>3 DEF RecordNew, RecordDuplicate, RecordConflict, RecordUnknown,
                      RecordWrongFormat, CommitWithoutRow, Abort, Rollback, Advance
  <2> QED BY <2>2, <2>3
<1>2. CASE \/ \E client \in Clients, cursor \in Cursors, changes \in Batches :
                Request(client, cursor, changes)
           \/ \E client \in Clients : RefuseVersion(client) \/ TakeReply(client)
           \/ \E books \in SUBSET Books : SetVisible(books)
           \/ Tick
           \/ UNCHANGED storeVars
  BY <1>2 DEF Request, RefuseSync, BeginSync, RefuseVersion, TakeReply, SetVisible, Tick, storeVars
<1> QED BY <1>1, <1>2 DEF StoreNext

\* Removing editions leaves the rows of every book that keeps all of its own.
LEMMA RemovalSpares ==
  ASSUME IInv, NEW removed \in Removable, RemoveEditions(removed),
         NEW b, Intact(b, editions')
  PROVE  /\ Intact(b, editions)
         /\ \A e \in db.events : e.change.book = b => e \in db'.events
         /\ \A p \in db.progress : p.change.book = b => p \in db'.progress
<1>1. /\ editions' = editions \ removed
      /\ db'.events = {e \in db.events : e.change.edition \notin removed}
      /\ db'.progress = {p \in db.progress : p.change.edition \notin removed}
  BY DEF RemoveEditions
<1>2. \A e \in db.events : e.change.edition \in Editions
  BY ChangeType DEF IInv, TypeOK, Database, EventRow
<1>3. Intact(b, editions)
  BY <1>1 DEF Intact
<1>4. \A e \in db.events : e.change.book = b => e.change.edition \in editions'
  BY <1>2 DEF IInv, Good, Catalogued, Intact
<1>5. \A p \in db.progress : p.change.book = b => p.change.edition \in editions'
  BY <1>4 DEF IInv, Good, Logged
<1> QED BY <1>1, <1>3, <1>4, <1>5

\* A delayed, retried or superseded event never moves the canonical position
\* of a book backwards.
THEOREM StoreCanonicalNeverRegresses == StoreSpec => CanonicalNeverRegresses
<1> DEFINE Forward == \A p \in db.progress : Intact(p.change.book, editions') =>
                        \E q \in db'.progress : /\ q.change.book = p.change.book
                                                /\ q = p \/ Beats(q, p)
<1>1. IInv /\ [StoreNext]_storeVars => Forward
  <2> SUFFICES ASSUME IInv, [StoreNext]_storeVars PROVE Forward
    OBVIOUS
  <2>1. CASE db' = db
    BY <2>1
  <2>2. CASE Extends(db', db)
    BY <2>2 DEF Extends
  <2>3. CASE \E removed \in Removable : RemoveEditions(removed)
    BY <2>3, RemovalSpares
  <2> QED BY <2>1, <2>2, <2>3, StepEffect
<1>2. IInv /\ [StoreNext]_storeVars => [Forward]_storeVars
  BY <1>1
<1>3. StoreSpec => [][Forward]_storeVars
  BY <1>2, StoreInvariant, PTL DEF StoreSpec
<1> QED BY <1>3 DEF CanonicalNeverRegresses

\* Nothing but the removal of its edition takes an event from the log, and
\* nothing rewrites one.
THEOREM StoreLogIsAppendOnly == StoreSpec => LogIsAppendOnly
<1> DEFINE Kept == \A e \in db.events : e.change.edition \in editions' => e \in db'.events
<1>1. IInv /\ [StoreNext]_storeVars => Kept
  <2> SUFFICES ASSUME IInv, [StoreNext]_storeVars PROVE Kept
    OBVIOUS
  <2>1. CASE db' = db
    BY <2>1
  <2>2. CASE Extends(db', db)
    BY <2>2 DEF Extends
  <2>3. CASE \E removed \in Removable : RemoveEditions(removed)
    BY <2>3 DEF RemoveEditions
  <2> QED BY <2>1, <2>2, <2>3, StepEffect
<1>2. IInv /\ [StoreNext]_storeVars => [Kept]_storeVars
  BY <1>1
<1>3. StoreSpec => [][Kept]_storeVars
  BY <1>2, StoreInvariant, PTL DEF StoreSpec
<1> QED BY <1>3 DEF LogIsAppendOnly

-----------------------------------------------------------------------------
(* The store implements the register. *)

LEMMA EntryOf ==
  ASSUME NEW r
  PROVE  /\ Entry(r).rev = r.rev /\ Entry(r).change = r.change
         /\ BookOfEntry(Entry(r)) = r.change.book
BY DEF Entry, BookOfEntry

\* Tables that keep the store's promises settle the register.
LEMMA LatestSettles ==
  ASSUME NEW d \in Database, Good(d),
         NEW K, \A b \in K : Intact(b, editions)
  PROVE  Register!Settled({Entry(e) : e \in d.events}, {Entry(p) : p \in d.progress}, K)
<1> DEFINE acc == {Entry(e) : e \in d.events}
           cur == {Entry(p) : p \in d.progress}
<1> SUFFICES ASSUME NEW x \in acc, BookOfEntry(x) \in K
             PROVE  \E c \in cur \cap acc : BookOfEntry(c) = BookOfEntry(x)
                                            /\ (c = x \/ Beats(c, x))
  BY DEF Register!Settled
<1>1. PICK e \in d.events : x = Entry(e)
  OBVIOUS
<1>2. x.rev = e.rev /\ x.change = e.change /\ BookOfEntry(x) = e.change.book
  BY <1>1, EntryOf
<1>3. PICK p \in d.progress : p.change.book = e.change.book /\ (p.rev = e.rev \/ Beats(p, e))
  BY <1>2 DEF Good, Latest
<1>4. PICK f \in d.events : f.rev = p.rev /\ f.change = p.change
  BY DEF Good, Logged
<1>5. Entry(p) = Entry(f)
  BY <1>4 DEF Entry
<1>6. Entry(p) \in cur \cap acc
  BY <1>5
<1>7. BookOfEntry(Entry(p)) = BookOfEntry(x)
  BY <1>2, <1>3, EntryOf
<1>8. CASE p.rev = e.rev
  <2>1. f = e
    BY <1>4, <1>8 DEF Good, Keys
  <2> QED BY <1>1, <1>5, <1>6, <1>7, <2>1
<1>9. CASE Beats(p, e)
  <2>1. Beats(Entry(p), x)
    BY <1>2, <1>9, EntryOf DEF Beats
  <2> QED BY <1>6, <1>7, <2>1
<1> QED BY <1>3, <1>6, <1>7, <1>8, <1>9

\* The committed log and canonical rows are a last-writer-wins register per
\* book, whatever the batches, retries, rollbacks and removals.
THEOREM StoreImplementsRegister == StoreSpec => ImplementsRegister
<1> DEFINE acc  == {Entry(e) : e \in db.events}
           cur  == {Entry(p) : p \in db.progress}
           kept == {b \in Books : Intact(b, editions)}
<1>1. StoreInit => Register!Init
  BY DEF StoreInit, Register!Init, Intact
<1>2. IInv /\ [StoreNext]_storeVars => [Register!Next]_(Register!vars)
  <2> SUFFICES ASSUME IInv, [StoreNext]_storeVars
               PROVE  Register!Next \/ UNCHANGED Register!vars
    OBVIOUS
  <2>1. CASE db' = db /\ editions' = editions
    BY <2>1 DEF Register!vars, Intact
  <2>2. CASE Extends(db', db) /\ editions' = editions /\ db' \in Database /\ Good(db)'
    <3>1. acc \subseteq acc' /\ kept' = kept
      BY <2>2 DEF Extends, Intact
    <3>2. acc' \subseteq [rev : Nat, change : Changes]
      BY <2>2 DEF Database, EventRow, Entry
    <3>3. Register!Settled(acc', cur', kept)
      BY <2>2, LatestSettles DEF Good, Keys, Catalogued, Logged, Latest, Finished
    <3>4. Register!Accept
      BY <3>1, <3>2, <3>3 DEF Register!Accept
    <3> QED BY <3>4 DEF Register!Next
  <2>3. CASE \E removed \in Removable : RemoveEditions(removed)
    <3>1. PICK removed \in Removable : RemoveEditions(removed)
      BY <2>3
    <3>2. /\ editions' = editions \ removed
          /\ db'.events \subseteq db.events /\ db'.progress \subseteq db.progress
      BY <3>1 DEF RemoveEditions
    <3>3. acc' \subseteq acc /\ cur' \subseteq cur
      BY <3>2
    <3>4. kept' \subseteq kept
      BY <3>2 DEF Intact
    <3>5. \A x \in acc : BookOfEntry(x) \in kept' => x \in acc'
      BY <3>1, RemovalSpares, EntryOf
    <3>6. \A x \in cur : BookOfEntry(x) \in kept' => x \in cur'
      BY <3>1, RemovalSpares, EntryOf
    <3>7. Register!Forget
      BY <3>3, <3>4, <3>5, <3>6 DEF Register!Forget
    <3> QED BY <3>7 DEF Register!Next
  <2> QED BY <2>1, <2>2, <2>3, StepEffect
<1> QED BY <1>1, <1>2, StoreInvariant, PTL DEF StoreSpec, ImplementsRegister, Register!Spec

=============================================================================
