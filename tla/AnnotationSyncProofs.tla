------------------------ MODULE AnnotationSyncProofs ------------------------
(***************************************************************************)
(* Proofs about AnnotationSync for any number of devices, engines, books,  *)
(* annotations, failures and sign-outs: types, the store's keys, that the  *)
(* newest edit is kept, that no edit a device stored is lost, and that     *)
(* what a device's cursor is past the device shows.                        *)
(***************************************************************************)
EXTENDS AnnotationSync, FiniteSetTheorems, WellFoundedInduction, TLAPS

-----------------------------------------------------------------------------
(* The inductive invariant. *)

\* One version an annotation.
OneEach(versions) == \A v, w \in versions : v.id = w.id => v = w

\* sync_id is unique in the device's table.
OneRowEach ==
  \A d \in Devices : \A r, q \in rows[d] : r.version.id = q.version.id => r = q

\* Edits are numbered, and no device edits an annotation twice in an instant.
EditsNumbered ==
  /\ IsFiniteSet(edits) /\ IsFiniteSet(ignored)
  /\ \A e \in edits : e.version.text <= Cardinality(edits) + Cardinality(ignored)
  /\ \A e, f \in edits :
       e.by = f.by /\ e.version.id = f.version.id /\ e.version.at = f.version.at => e = f

\* A dirty row, and what an engine has read to send, is an edit of the device.
MarkedAreEdits ==
  /\ \A d \in Devices : \A r \in rows[d] :
       r.dirty => [by |-> d, version |-> r.version] \in edits
  /\ \A e \in Engines :
       /\ OneEach(engine[e].batch)
       /\ \A v \in engine[e].batch : [by |-> EngineDevice[e], version |-> v] \in edits

\* A request somebody waits for carries that engine's batch, and is its only one.
Awaited(m, e) ==
  /\ engine[e].pc = "wait" /\ ~engine[e].answer.ok
  /\ m.changes = engine[e].batch

CallsMatch ==
  /\ \A m \in requests : OneEach(m.changes)
  /\ \A m \in requests : \A e \in m.by : Awaited(m, e)
  /\ \A m, n \in requests : m.by \cap n.by /= {} => m = n
  /\ \A e \in Engines : engine[e].pc /= "wait" => ~engine[e].answer.ok

\* There is nothing left to do for the edit.
Resolved(e) ==
  \/ Settled(e)
  \/ e.version.text \in Overlong
  \/ IdBook[e.version.id] \notin books \ (withheld \cup regranted)

\* What an answer accepts or rejects of a batch is resolved.
AnswerVouches(e) ==
  LET answer == engine[e].answer IN
  answer.ok =>
    /\ OneEach(answer.annotations)
    /\ \A v \in engine[e].batch :
         v.id \in answer.accepted \cup answer.rejected =>
           Resolved([by |-> EngineDevice[e], version |-> v])

AnswersVouch == \A e \in Engines : AnswerVouches(e)

\* NoEditLost, by the edit that speaks for another.
Kept(f) == Resolved(f) \/ [version |-> f.version, dirty |-> TRUE] \in rows[f.by]

Supersedes(f, e) ==
  f.by = e.by /\ f.version.id = e.version.id /\ f.version.text >= e.version.text

EditsKept == \A e \in edits \ discarded : \E f \in edits : Supersedes(f, e) /\ Kept(f)

AInv ==
  /\ AnnotationTypeOK /\ RevisionsOK
  /\ OneRowEach /\ EditsNumbered /\ MarkedAreEdits
  /\ CallsMatch /\ AnswersVouch /\ EditsKept

LEMMA KeptIsNoEditLost == EditsKept <=> NoEditLost
BY DEF EditsKept, NoEditLost, Supersedes, Kept, Resolved

-----------------------------------------------------------------------------
(* Numbers. *)

\* A set of revisions that none exceeds m has a greatest element.
LEMMA GreatestOf ==
  ASSUME NEW m \in Nat, NEW S \in SUBSET Nat, S /= {}, \A r \in S : r <= m
  PROVE  \E r \in S : \A q \in S : q <= r
<1> DEFINE T    == {m - r : r \in S}
           Less == {pair \in Nat \X Nat : pair[1] < pair[2]}
<1>1. T \subseteq Nat /\ T /= {}
  <2>1. PICK r \in S : TRUE
    OBVIOUS
  <2>2. m - r \in T
    BY <2>1
  <2>3. \A q \in S : m - q \in Nat
    OBVIOUS
  <2> QED BY <2>2, <2>3
<1>2. IsWellFoundedOn(Less, Nat)
  BY NatLessThanWellFounded DEF OpToRel
<1>3. PICK x \in T : \A y \in T : <<y, x>> \notin Less
  <2> HIDE DEF T, Less
  <2> QED BY <1>1, <1>2, WFMin
<1>4. \A y \in T : ~(y < x)
  BY <1>1, <1>3
<1>5. PICK r \in S : x = m - r
  BY <1>3
<1>6. ASSUME NEW q \in S PROVE q <= r
  <2>1. m - q \in T
    OBVIOUS
  <2>2. ~(m - q < m - r)
    BY <1>4, <1>5, <2>1
  <2> QED BY <2>2
<1> QED BY <1>6

\* IDs are finitely many, so are versions with different IDs.
LEMMA OneEachFinite ==
  ASSUME NEW S \in SUBSET Version, OneEach(S)
  PROVE  IsFiniteSet(S) /\ Cardinality(S) \in Nat
<1> DEFINE f == [v \in S |-> v.id]
<1>1. f \in Injection(S, Ids)
  BY DEF OneEach, Version, Injection, IsInjective
<1>2. IsFiniteSet(Ids)
  BY StoreAssumption DEF StoreAssumption
<1>3. IsFiniteSet(S)
  BY <1>1, <1>2, FS_Injection
<1> QED BY <1>3, FS_CardinalityType

-----------------------------------------------------------------------------
(* The server's part of an exchange. *)

\* Clamping changes the time of an edit and nothing else.
LEMMA ClampedType ==
  ASSUME StoreTypeOK, NEW v \in Version
  PROVE  /\ Clamped(v) \in Version /\ Clamped(v).id = v.id
         /\ Clamped(v).at >= v.at \/ v.at > MaxFutureSkew
BY StoreAssumption DEF StoreAssumption, StoreTypeOK, Clamped, Version

\* The winners of a request are different annotations, finitely many.
LEMMA WinnersType ==
  ASSUME StoreTypeOK, NEW changes \in SUBSET Version, OneEach(changes)
  PROVE  /\ Winners(changes) \in SUBSET Version /\ OneEach(Winners(changes))
         /\ Cardinality(Winners(changes)) \in Nat
         /\ \A v \in Winners(changes) :
              Newest(v) /\ \E w \in changes : v = Clamped(w) /\ v.id = w.id
<1>1. \A v \in Winners(changes) :
        Newest(v) /\ \E w \in changes : v = Clamped(w) /\ v.id = w.id
  <2> SUFFICES ASSUME NEW v \in Winners(changes)
               PROVE  Newest(v) /\ \E w \in changes : v = Clamped(w) /\ v.id = w.id
    OBVIOUS
  <2>1. PICK w \in changes : v = Clamped(w) /\ Newest(v)
    BY DEF Winners
  <2> QED BY <2>1, ClampedType
<1>2. Winners(changes) \in SUBSET Version
  BY ClampedType DEF Winners
<1>3. OneEach(Winners(changes))
  BY <1>1 DEF OneEach
<1> QED BY <1>1, <1>2, <1>3, OneEachFinite

\* Every row survives an exchange or gives way to a newer version.
LEMMA SyncKeeps ==
  ASSUME StoreTypeOK, NEW changes \in SUBSET Version, NEW order, Sync(changes, order)
  PROVE  \A r \in annotations : \E q \in annotations' :
           q.version.id = r.version.id /\ (q = r \/ q.version.at > r.version.at)
<1> SUFFICES ASSUME NEW r \in annotations
             PROVE  \E q \in annotations' :
                      q.version.id = r.version.id /\ (q = r \/ q.version.at > r.version.at)
  OBVIOUS
<1>1. CASE \A v \in Winners(changes) : v.id /= r.version.id
  BY <1>1 DEF Sync, Stored
<1>2. CASE \E v \in Winners(changes) : v.id = r.version.id
  <2>1. PICK v \in Winners(changes) : v.id = r.version.id
    BY <1>2
  <2>2. v.at > r.version.at
    BY <2>1 DEF Winners, Newest
  <2>3. [version |-> v, rev |-> revision + order[v]] \in annotations'
    BY <2>1 DEF Sync, Stored
  <2> QED BY <2>1, <2>2, <2>3
<1> QED BY <1>1, <1>2

\* What an exchange stores is typed and keyed.
LEMMA StoredKeys ==
  ASSUME StoreTypeOK, RevisionsOK, NEW changes \in SUBSET Version, OneEach(changes),
         NEW order \in Orders(Winners(changes))
  PROVE  /\ Stored(changes, order) \subseteq Row
         /\ revision + Cardinality(Winners(changes)) \in Nat
         /\ \A r, q \in Stored(changes, order) :
              (r.rev = q.rev \/ r.version.id = q.version.id) => r = q
         /\ \A r \in Stored(changes, order) :
              r.rev <= revision + Cardinality(Winners(changes))
<1> DEFINE W == Winners(changes)
           n == Cardinality(W)
           new(v) == [version |-> v, rev |-> revision + order[v]]
<1>1. W \in SUBSET Version /\ OneEach(W) /\ n \in Nat
  BY WinnersType
<1>2. \A v \in W : order[v] \in 1 .. n
  BY DEF Orders
<1>3. \A v, w \in W : order[v] = order[w] => v = w
  BY DEF Orders
<1>4. revision \in Nat /\ annotations \subseteq Row
  BY DEF StoreTypeOK
<1>5. Stored(changes, order) =
        {r \in annotations : \A v \in W : v.id /= r.version.id} \cup {new(v) : v \in W}
  BY DEF Stored
<1> HIDE DEF W, n
<1>6. \A v \in W : new(v) \in Row /\ new(v).rev > revision /\ new(v).rev <= revision + n
  BY <1>1, <1>2, <1>4 DEF Row
<1>7. \A r \in annotations : r \in Row /\ r.rev <= revision
  BY <1>4 DEF RevisionsOK
<1>8. ASSUME NEW r \in Stored(changes, order), NEW q \in Stored(changes, order),
             r.rev = q.rev \/ r.version.id = q.version.id
      PROVE  r = q
  <2>1. CASE r \in annotations /\ q \in annotations
    BY <1>8, <2>1 DEF RevisionsOK
  <2>2. CASE \E v \in W : r = new(v) /\ q \in annotations /\ v.id /= q.version.id
    BY <1>8, <2>2, <1>6, <1>7, <1>4 DEF Row
  <2>3. CASE \E v \in W : q = new(v) /\ r \in annotations /\ v.id /= r.version.id
    BY <1>8, <2>3, <1>6, <1>7, <1>4 DEF Row
  <2>4. CASE \E v, w \in W : r = new(v) /\ q = new(w)
    <3>1. PICK v \in W, w \in W : r = new(v) /\ q = new(w)
      BY <2>4
    <3>2. order[v] = order[w] \/ v.id = w.id
      BY <1>8, <3>1, <1>2, <1>4
    <3> QED BY <3>1, <3>2, <1>1, <1>3 DEF OneEach
  <2> QED BY <1>5, <2>1, <2>2, <2>3, <2>4
<1>9. \A r \in Stored(changes, order) : r \in Row /\ r.rev <= revision + n
  BY <1>5, <1>6, <1>7, <1>1, <1>4 DEF Row
<1> QED BY <1>1, <1>4, <1>8, <1>9 DEF n, W

\* The cursor of an answer is a revision of its page or the one that was sent.
LEMMA NextCursorType ==
  ASSUME NEW table \in SUBSET Row, NEW bound \in Nat, \A r \in table : r.rev <= bound,
         NEW at \in Nat
  PROVE  /\ NextCursor(table, at) \in Nat
         /\ \/ NextCursor(table, at) = at
            \/ \E p \in Page(table, at) : p.rev = NextCursor(table, at)
<1> DEFINE page == Page(table, at)
           revs == {r.rev : r \in page}
<1>1. page \subseteq table
  BY DEF Page, Unseen
<1>2. revs \in SUBSET Nat /\ \A n \in revs : n <= bound
  BY <1>1 DEF Row
<1>3. CASE page = {}
  BY <1>3 DEF NextCursor
<1>4. CASE page /= {}
  <2>1. revs /= {}
    BY <1>4
  <2>2. \E n \in revs : \A q \in revs : q <= n
    <3> HIDE DEF revs, page
    <3> QED BY <1>2, <2>1, GreatestOf
  <2>3. \E n \in revs : \A r \in page : r.rev <= n
    BY <2>2
  <2>4. NextCursor(table, at) = CHOOSE n \in revs : \A r \in page : r.rev <= n
    BY <1>4 DEF NextCursor
  <2> HIDE DEF revs, page
  <2>5. NextCursor(table, at) \in revs
    BY <2>3, <2>4
  <2>6. \E p \in page : p.rev = NextCursor(table, at)
    BY <2>5 DEF revs
  <2> QED BY <2>5, <2>6, <1>2 DEF page
<1> QED BY <1>3, <1>4

\* An answer is typed and holds one version an annotation.
LEMMA AnswerType ==
  ASSUME StoreTypeOK, NEW table \in SUBSET Row, NEW bound \in Nat,
         \A r \in table : r.rev <= bound,
         \A r, q \in table : r.version.id = q.version.id => r = q,
         NEW at \in Nat, NEW changes \in SUBSET Version
  PROVE  /\ AnswerTo(table, at, changes) \in Answer
         /\ OneEach(AnswerTo(table, at, changes).annotations)
<1>1. NextCursor(table, at) \in Nat
  BY NextCursorType
<1>2. Pulled(table, at, changes) \subseteq {r.version : r \in table}
  BY DEF Pulled, Page, Unseen
<1>3. Pulled(table, at, changes) \subseteq Version /\ OneEach(Pulled(table, at, changes))
  BY <1>2 DEF Row, OneEach
<1>4. Accepted(changes) \subseteq Ids /\ Rejected(changes) \subseteq Ids
  BY DEF Accepted, Rejected, Version
<1> QED BY <1>1, <1>3, <1>4 DEF AnswerTo, Answer

\* What an exchange accepts or rejects is resolved afterwards.
LEMMA ExchangeResolves ==
  ASSUME StoreTypeOK, NEW changes \in SUBSET Version, OneEach(changes),
         NEW order, Sync(changes, order), annotations' \subseteq Row,
         NEW d, NEW v \in changes, v.id \in Accepted(changes) \cup Rejected(changes)
  PROVE  Resolved([by |-> d, version |-> v])'
<1>1. \A w \in changes : w.id = v.id => w = v
  BY DEF OneEach
<1>2. UNCHANGED <<books, withheld, regranted>>
  BY DEF Sync
<1>3. CASE ~Admissible(v)
  BY <1>2, <1>3 DEF Resolved, Admissible, Readable
<1>4. CASE Admissible(v)
  <2> DEFINE c == Clamped(v)
  <2>1. c \in Version /\ c.id = v.id /\ (c.at >= v.at \/ v.at > MaxFutureSkew)
    BY ClampedType
  <2>2. \E q \in annotations' : q.version.id = v.id /\ q.version.at >= c.at
    <3>1. CASE Newest(c)
      <4>1. c \in Winners(changes)
        BY <1>4, <3>1 DEF Winners
      <4>2. [version |-> c, rev |-> revision + order[c]] \in annotations'
        BY <4>1 DEF Sync, Stored
      <4> QED BY <4>2, <2>1 DEF Version
    <3>2. CASE ~Newest(c)
      <4>1. PICK r \in annotations : r.version.id = c.id /\ ~(c.at > r.version.at)
        BY <3>2 DEF Newest
      <4>2. \A w \in Winners(changes) : w.id /= v.id
        BY <1>1, <3>2, WinnersType
      <4>3. r \in annotations'
        BY <4>1, <4>2, <2>1 DEF Sync, Stored
      <4>4. r.version.at >= c.at
        BY <4>1, <2>1 DEF StoreTypeOK, Row, Version
      <4> QED BY <4>1, <4>3, <4>4, <2>1
    <3> QED BY <3>1, <3>2
  <2>3. PICK q \in annotations' : q.version.id = v.id /\ q.version.at >= c.at
    BY <2>2
  <2>4. q.version.at >= v.at \/ v.at > MaxFutureSkew
    BY <2>1, <2>3 DEF Row, Version
  <2> QED BY <2>3, <2>4 DEF Resolved, Settled
<1> QED BY <1>3, <1>4

-----------------------------------------------------------------------------
(* Steps of the devices. *)

\* While the store's tables and the books stand still, so does what is resolved.
LEMMA ResolvedStays ==
  ASSUME UNCHANGED storeVars, NEW f, Resolved(f)
  PROVE  Resolved(f)'
BY DEF storeVars, Resolved, Settled

\* An engine moves on without touching its device's tables.
LEMMA EngineMoves ==
  ASSUME AInv, UNCHANGED <<storeVars, deviceVars, edits, ignored, discarded>>,
         NEW e \in Engines, NEW next \in Engine, Goto(e, next),
         OneEach(next.batch), ~next.answer.ok,
         \A v \in next.batch : [by |-> EngineDevice[e], version |-> v] \in edits,
         requests' \subseteq Message,
         \A m \in requests' : OneEach(m.changes),
         \A m, n \in requests' : m.by \cap n.by /= {} => m = n,
         \A m \in requests' : \A x \in m.by :
           IF x = e THEN next.pc = "wait" /\ m.changes = next.batch ELSE m \in requests
  PROVE  AInv'
<1> USE DEF AInv
<1>1. /\ engine' = [engine EXCEPT ![e] = next] /\ engine \in [Engines -> Engine]
      /\ engine'[e] = next /\ \A x \in Engines : x /= e => engine'[x] = engine[x]
  BY DEF Goto, AnnotationTypeOK
<1>2. AnnotationTypeOK'
  BY <1>1 DEF AnnotationTypeOK, StoreTypeOK, storeVars, deviceVars
<1>3. RevisionsOK' /\ OneRowEach' /\ EditsNumbered'
  BY DEF RevisionsOK, OneRowEach, EditsNumbered, storeVars, deviceVars
<1>4. MarkedAreEdits'
  BY <1>1 DEF MarkedAreEdits, deviceVars
<1>5. CallsMatch'
  <2>1. ASSUME NEW m \in requests', NEW x \in m.by PROVE Awaited(m, x)'
    <3>1. x \in Engines
      BY DEF Message
    <3>2. CASE x = e
      BY <1>1, <3>2 DEF Awaited
    <3>3. CASE x /= e
      <4>1. engine'[x] = engine[x] /\ m \in requests
        BY <1>1, <3>1, <3>3
      <4>2. Awaited(m, x)
        BY <4>1 DEF CallsMatch
      <4> QED BY <4>1, <4>2 DEF Awaited
    <3> QED BY <3>2, <3>3
  <2>2. \A x \in Engines : engine'[x].pc /= "wait" => ~engine'[x].answer.ok
    BY <1>1 DEF CallsMatch
  <2> QED BY <2>1, <2>2 DEF CallsMatch
<1>6. AnswersVouch'
  <2> SUFFICES ASSUME NEW x \in Engines PROVE AnswerVouches(x)'
    BY DEF AnswersVouch
  <2>1. CASE x = e
    BY <1>1, <2>1 DEF AnswerVouches
  <2>2. CASE x /= e
    <3>1. AnswerVouches(x) /\ engine'[x] = engine[x]
      BY <1>1, <2>2 DEF AnswersVouch
    <3> QED BY <3>1, ResolvedStays DEF AnswerVouches
  <2> QED BY <2>1, <2>2
<1>7. EditsKept'
  BY ResolvedStays DEF EditsKept, Kept, Supersedes, deviceVars
<1> QED BY <1>2, <1>3, <1>4, <1>5, <1>6, <1>7

\* No request is under way for an engine that does not wait.
LEMMA NotAwaited ==
  ASSUME AInv, NEW e \in Engines, engine[e].pc /= "wait"
  PROVE  /\ \A m \in requests : e \notin m.by
         /\ ~engine[e].answer.ok
BY DEF AInv, CallsMatch, Awaited

LEMMA AtType ==
  ASSUME AInv, NEW e \in Engines, NEW pc \in {"idle", "page", "send", "wait", "check"}
  PROVE  /\ Idle \in Engine /\ Idle.batch = {} /\ ~Idle.answer.ok
         /\ At(e, pc) \in Engine /\ At(e, pc).batch = {} /\ ~At(e, pc).answer.ok
         /\ At(e, pc).pages = engine[e].pages /\ At(e, pc).pc = pc
         /\ At(e, pc).answer = NoAnswer
<1>1. engine[e].pages \in 0 .. MaxPages /\ NoAnswer \in Answer /\ MaxPages \in Nat
  BY SyncAssumption DEF AInv, AnnotationTypeOK, Engine, NoAnswer, Answer, SyncAssumption
<1>2. ~NoAnswer.ok
  BY DEF NoAnswer
<1>3. Idle = [pc |-> "idle", pages |-> 0, batch |-> {}, answer |-> NoAnswer]
  BY DEF Idle
<1>4. At(e, pc) = [[Idle EXCEPT !.pc = pc] EXCEPT !.pages = engine[e].pages]
  BY <1>3 DEF At
<1>5. [Idle EXCEPT !.pc = pc] = [pc |-> pc, pages |-> 0, batch |-> {}, answer |-> NoAnswer]
  BY <1>3
<1>6. At(e, pc) = [pc |-> pc, pages |-> engine[e].pages, batch |-> {}, answer |-> NoAnswer]
  BY <1>4, <1>5
<1> QED BY <1>1, <1>2, <1>3, <1>6 DEF Engine

LEMMA QuietStepsKeep ==
  ASSUME AInv, NEW e \in Engines,
         StartRun(e) \/ OutOfPages(e) \/ SendSignedOut(e) \/ Check(e)
  PROVE  AInv'
<1>1. /\ engine[e].pc /= "wait" /\ UNCHANGED <<storeVars, deviceVars, requests, historyVars>>
      /\ \E next \in {Idle, At(e, "page")} : Goto(e, next)
  BY DEF StartRun, OutOfPages, SendSignedOut, Check
<1>2. PICK next \in {Idle, At(e, "page")} : Goto(e, next)
  BY <1>1
<1>3. next \in Engine /\ next.batch = {} /\ ~next.answer.ok
  BY AtType
<1>4. \A m \in requests : e \notin m.by
  BY <1>1, NotAwaited
<1>5. requests \subseteq Message /\ CallsMatch
  BY DEF AInv, AnnotationTypeOK
<1> QED BY <1>1, <1>2, <1>3, <1>4, <1>5, EngineMoves DEF OneEach, CallsMatch, historyVars

LEMMA ReadDirtyKeeps ==
  ASSUME AInv, NEW e \in Engines, ReadDirty(e)
  PROVE  AInv'
<1> DEFINE d == EngineDevice[e]
<1>1. PICK some \in SUBSET Dirty(d) :
        Goto(e, [At(e, "send") EXCEPT !.pages = @ + 1, !.batch = {r.version : r \in some}])
  BY DEF ReadDirty
<1> DEFINE next == [At(e, "send") EXCEPT !.pages = @ + 1, !.batch = {r.version : r \in some}]
<1>2. d \in Devices /\ some \subseteq rows[d] /\ rows[d] \subseteq LocalRow
  BY SyncAssumption DEF Dirty, AInv, AnnotationTypeOK, SyncAssumption
<1>3. /\ engine[e].pc = "page" /\ engine[e].pages < MaxPages /\ engine[e].pages \in 0 .. MaxPages
      /\ UNCHANGED <<storeVars, deviceVars, requests, historyVars>>
  BY DEF ReadDirty, AInv, AnnotationTypeOK, Engine
<1>4. /\ next \in Engine /\ ~next.answer.ok
      /\ next.batch = {r.version : r \in some}
  <2>1. At(e, "send") \in Engine /\ At(e, "send").pages = engine[e].pages /\ ~At(e, "send").answer.ok
    BY AtType
  <2>2. engine[e].pages + 1 \in 0 .. MaxPages
    BY <1>3, SyncAssumption DEF SyncAssumption
  <2>3. {r.version : r \in some} \subseteq Version
    BY <1>2 DEF LocalRow
  <2> QED BY <2>1, <2>2, <2>3 DEF Engine
<1>5. OneEach(next.batch) /\ \A v \in next.batch : [by |-> d, version |-> v] \in edits
  <2>1. OneEach({r.version : r \in some})
    BY <1>2 DEF OneEach, AInv, OneRowEach
  <2>2. \A r \in some : [by |-> d, version |-> r.version] \in edits
    BY <1>2 DEF Dirty, AInv, MarkedAreEdits
  <2> QED BY <1>4, <2>1, <2>2
<1>6. \A m \in requests : e \notin m.by
  BY <1>3, NotAwaited
<1>7. requests \subseteq Message /\ CallsMatch
  BY DEF AInv, AnnotationTypeOK
<1>8. Goto(e, next)
  BY <1>1
<1>9. /\ next \in Engine /\ OneEach(next.batch) /\ ~next.answer.ok
      /\ \A v \in next.batch : [by |-> EngineDevice[e], version |-> v] \in edits
  BY <1>4, <1>5
<1> HIDE DEF next
<1>10. /\ UNCHANGED <<storeVars, deviceVars, edits, ignored, discarded>>
       /\ requests' = requests
  BY <1>3 DEF historyVars
<1>11. /\ requests' \subseteq Message /\ \A m \in requests' : OneEach(m.changes)
       /\ \A m, n \in requests' : m.by \cap n.by /= {} => m = n
       /\ \A m \in requests' : \A x \in m.by : x /= e /\ m \in requests
  BY <1>6, <1>7, <1>10 DEF CallsMatch
<1> QED BY <1>8, <1>9, <1>10, <1>11, EngineMoves

LEMMA SendKeeps ==
  ASSUME AInv, NEW e \in Engines, Send(e)
  PROVE  AInv'
<1> DEFINE next == [engine[e] EXCEPT !.pc = "wait"]
           mine == [by |-> {e}, cursor |-> cursor[EngineDevice[e]], changes |-> engine[e].batch]
<1>1. /\ engine[e].pc = "send" /\ Goto(e, next) /\ requests' = requests \cup {mine}
      /\ UNCHANGED <<storeVars, deviceVars, historyVars>>
  BY DEF Send
<1>2. engine[e] \in Engine /\ requests \subseteq Message /\ cursor[EngineDevice[e]] \in Nat
  BY SyncAssumption DEF AInv, AnnotationTypeOK, SyncAssumption
<1>3. /\ next \in Engine /\ next.batch = engine[e].batch /\ next.answer = engine[e].answer
      /\ next.pc = "wait"
  BY <1>2 DEF Engine
<1>4. mine \in Message
  BY <1>2 DEF Message, Engine
<1>5. /\ \A m \in requests : e \notin m.by
      /\ ~engine[e].answer.ok
  BY <1>1, NotAwaited
<1>6. OneEach(engine[e].batch) /\ \A v \in engine[e].batch : [by |-> EngineDevice[e], version |-> v] \in edits
  BY DEF AInv, MarkedAreEdits
<1>7. CallsMatch
  BY DEF AInv
<1>8. \A m, n \in requests' : m.by \cap n.by /= {} => m = n
  <2> SUFFICES ASSUME NEW m \in requests', NEW n \in requests', m.by \cap n.by /= {}
               PROVE  m = n
    OBVIOUS
  <2>1. mine.by = {e}
    OBVIOUS
  <2>2. CASE m \in requests /\ n \in requests
    BY <2>2, <1>7 DEF CallsMatch
  <2>3. CASE m = mine
    BY <2>1, <2>3, <1>1, <1>5
  <2>4. CASE n = mine
    BY <2>1, <2>4, <1>1, <1>5
  <2> QED BY <1>1, <2>2, <2>3, <2>4
<1> HIDE DEF next
<1> QED BY <1>1, <1>2, <1>3, <1>4, <1>5, <1>6, <1>7, <1>8, EngineMoves DEF CallsMatch, historyVars

LEMMA FailKeeps ==
  ASSUME AInv, NEW e \in Engines, NEW late \in BOOLEAN, Fail(e, late)
  PROVE  AInv'
<1> DEFINE mine == {m \in requests : e \in m.by}
           left == {[m EXCEPT !.by = {}] : m \in IF late THEN mine ELSE {}}
<1>1. /\ Goto(e, Idle) /\ requests' = (requests \ mine) \cup left
      /\ UNCHANGED <<storeVars, deviceVars, edits, ignored, discarded>>
  BY DEF Fail
<1>2. requests \subseteq Message /\ CallsMatch
  BY DEF AInv, AnnotationTypeOK
<1>3. \A m \in left : m \in Message /\ m.by = {} /\ \E n \in requests : m.changes = n.changes
  BY <1>2 DEF Message
<1>4. requests' \subseteq Message /\ \A m \in requests' : OneEach(m.changes)
  BY <1>1, <1>2, <1>3 DEF CallsMatch
<1>5. \A m \in requests' : m.by = {} \/ (m \in requests /\ e \notin m.by)
  BY <1>1, <1>3
<1> HIDE DEF left, mine
<1>6. /\ \A m \in requests' : \A x \in m.by : x /= e /\ m \in requests
      /\ \A m, n \in requests' : m.by \cap n.by /= {} => m = n
  BY <1>2, <1>5 DEF CallsMatch
<1>7. Idle \in Engine /\ Idle.batch = {} /\ ~Idle.answer.ok
  BY AtType
<1> QED BY <1>1, <1>4, <1>6, <1>7, EngineMoves DEF OneEach

-----------------------------------------------------------------------------
(* The reader's steps. *)

\* An edit is stored under a new number and at an instant of its own.
LEMMA StoreKeepsEdits ==
  ASSUME AInv, NEW d \in Devices, NEW v \in Version, v.text = NextText, Store(d, v),
         \A e \in edits : e.by = d /\ e.version.id = v.id => e.version.at /= v.at,
         listed' \in [Devices -> SUBSET Ids],
         UNCHANGED <<storeVars, cursor, orphaned, signedIn, engine, requests,
                     ignored, discarded>>
  PROVE  AInv'
<1> DEFINE new == [by |-> d, version |-> v]
           row == [version |-> v, dirty |-> TRUE]
           old == {r \in rows[d] : r.version.id /= v.id}
<1> USE DEF AInv
<1>1. /\ rows \in [Devices -> SUBSET LocalRow] /\ row \in LocalRow /\ new \in Edit
      /\ edits \subseteq Edit /\ edits' = edits \cup {new}
      /\ rows' = [rows EXCEPT ![d] = old \cup {row}]
      /\ ignored' = ignored
  BY DEF AnnotationTypeOK, Store, LocalRow, Edit
<1>2. /\ rows'[d] = old \cup {row}
      /\ \A x \in Devices : x /= d => rows'[x] = rows[x]
  BY <1>1
<1>3. /\ IsFiniteSet(edits) /\ IsFiniteSet(ignored)
      /\ Cardinality(edits) \in Nat /\ Cardinality(ignored) \in Nat
      /\ v.text = Cardinality(edits) + Cardinality(ignored) + 1
  BY FS_CardinalityType DEF EditsNumbered, NextText
<1>4. \A e \in edits : e.version.text \in Nat /\ e.version.text < v.text
  <2>1. \A e \in edits : e.version.text \in Nat
    BY <1>1, SyncAssumption DEF Edit, Version, SyncAssumption
  <2> QED BY <1>3, <2>1 DEF EditsNumbered
<1>5. new \notin edits
  BY <1>3, <1>4
<1>6. IsFiniteSet(edits') /\ Cardinality(edits') = Cardinality(edits) + 1
  BY <1>1, <1>3, <1>5, FS_AddElement
<1>7. AnnotationTypeOK'
  <2>1. rows' \in [Devices -> SUBSET LocalRow]
    BY <1>1
  <2>2. edits' \subseteq Edit
    BY <1>1
  <2> HIDE DEF AInv
  <2>3. AnnotationTypeOK
    BY DEF AInv
  <2> QED BY <2>1, <2>2, <2>3 DEF AnnotationTypeOK, StoreTypeOK, storeVars
<1>8. RevisionsOK'
  BY DEF RevisionsOK, storeVars
<1>9. OneRowEach'
  <2> SUFFICES ASSUME NEW x \in Devices, NEW r \in rows'[x], NEW q \in rows'[x],
                      r.version.id = q.version.id
               PROVE  r = q
    BY DEF OneRowEach
  <2>1. CASE x /= d
    BY <1>2, <2>1 DEF OneRowEach
  <2>2. CASE x = d
    <3>1. row.version.id = v.id
      OBVIOUS
    <3>2. CASE r \in old /\ q \in old
      BY <2>2, <3>2 DEF OneRowEach
    <3> QED BY <1>2, <2>2, <3>1, <3>2
  <2> QED BY <2>1, <2>2
<1>10. EditsNumbered'
  <2>1. \A e \in edits' : e.version.text <= Cardinality(edits') + Cardinality(ignored')
    <3>1. new.version.text = v.text
      OBVIOUS
    <3> QED BY <1>1, <1>3, <1>4, <1>6, <3>1 DEF EditsNumbered
  <2>2. ASSUME NEW e \in edits', NEW f \in edits', e.by = f.by,
               e.version.id = f.version.id, e.version.at = f.version.at
        PROVE  e = f
    <3>1. new.by = d /\ new.version = v
      OBVIOUS
    <3>2. CASE e \in edits /\ f \in edits
      BY <2>2, <3>2 DEF EditsNumbered
    <3> QED BY <1>1, <2>2, <3>1, <3>2
  <2> QED BY <1>1, <1>3, <1>6, <2>1, <2>2 DEF EditsNumbered
<1>11. MarkedAreEdits'
  <2>1. ASSUME NEW x \in Devices, NEW r \in rows'[x], r.dirty
        PROVE  [by |-> x, version |-> r.version] \in edits'
    <3>1. CASE r \in rows[x]
      BY <1>1, <2>1, <3>1 DEF MarkedAreEdits
    <3>2. CASE r \notin rows[x]
      BY <1>1, <1>2, <3>2
    <3> QED BY <3>1, <3>2
  <2> QED BY <1>1, <2>1 DEF MarkedAreEdits
<1>12. CallsMatch'
  BY DEF CallsMatch, Awaited
<1>13. AnswersVouch'
  BY ResolvedStays DEF AnswersVouch, AnswerVouches
<1>14. EditsKept'
  <2> SUFFICES ASSUME NEW e \in edits' \ discarded
               PROVE  \E f \in edits' : Supersedes(f, e) /\ Kept(f)'
    BY DEF EditsKept, Supersedes
  <2>1. Kept(new)'
    BY <1>2 DEF Kept
  <2>2. CASE e = new
    <3>1. v.text \in Nat
      BY <1>3
    <3>2. Supersedes(new, new)
      BY <3>1 DEF Supersedes
    <3> QED BY <1>1, <2>1, <2>2, <3>2
  <2>3. CASE e \in edits
    <3>1. PICK f \in edits : Supersedes(f, e) /\ Kept(f)
      BY <2>3 DEF EditsKept
    <3>2. CASE Resolved(f) \/ [version |-> f.version, dirty |-> TRUE] \in rows'[f.by]
      BY <1>1, <3>1, <3>2, ResolvedStays DEF Kept
    <3>3. CASE ~(Resolved(f) \/ [version |-> f.version, dirty |-> TRUE] \in rows'[f.by])
      <4>1. /\ [version |-> f.version, dirty |-> TRUE] \in rows[f.by] /\ f.by \in Devices
        BY <1>1, <3>1, <3>3 DEF Kept, Edit
      <4>2. f.by = d /\ f.version.id = v.id
        BY <1>2, <3>3, <4>1
      <4>3. Supersedes(new, e)
        BY <1>4, <1>3, <2>3, <3>1, <4>2 DEF Supersedes
      <4> QED BY <1>1, <2>1, <4>3
    <3> QED BY <3>2, <3>3
  <2> QED BY <1>1, <2>2, <2>3
<1> QED BY <1>7, <1>8, <1>9, <1>10, <1>11, <1>12, <1>13, <1>14

LEMMA EditsKeep ==
  ASSUME AInv, NEW d \in Devices, NEW id \in Ids, NEW at \in Times,
         Add(d, id, at) \/ SetNote(d, id, at) \/ Delete(d, id, at)
  PROVE  AInv'
<1>1. /\ at \in Nat /\ listed \in [Devices -> SUBSET Ids]
      /\ rows[d] \subseteq LocalRow
  BY SyncAssumption DEF SyncAssumption, AInv, AnnotationTypeOK
<1>2. CASE Add(d, id, at)
  <2> DEFINE v == [id |-> id, at |-> at, text |-> NextText, deleted |-> FALSE]
  <2>1. v \in Version /\ Store(d, v)
    BY <1>1, <1>2 DEF Add, Version
  <2>2. \A e \in edits : e.version.id /= v.id
    BY <1>2 DEF Add
  <2>3. listed' \in [Devices -> SUBSET Ids]
    BY <1>1, <1>2 DEF Add
  <2> QED BY <1>2, <2>1, <2>2, <2>3, StoreKeepsEdits DEF Add
<1>3. CASE SetNote(d, id, at)
  <2>1. PICK r \in rows[d] :
          r.version.id = id /\ Store(d, [r.version EXCEPT !.at = at, !.text = NextText])
    BY <1>3 DEF SetNote
  <2> DEFINE v == [r.version EXCEPT !.at = at, !.text = NextText]
  <2>2. v \in Version /\ v.id = id /\ v.at = at /\ v.text = NextText
    BY <1>1, <1>3, <2>1 DEF SetNote, LocalRow, Version
  <2>3. \A e \in edits : e.by = d /\ e.version.id = v.id => e.version.at /= v.at
    BY <1>3, <2>2 DEF SetNote, Stamp
  <2>4. Store(d, v)
    BY <2>1
  <2> HIDE DEF v
  <2> QED BY <1>1, <1>3, <2>2, <2>3, <2>4, StoreKeepsEdits DEF SetNote
<1>4. CASE Delete(d, id, at)
  <2>1. PICK r \in rows[d] :
          /\ r.version.id = id
          /\ Store(d, [r.version EXCEPT !.at = at, !.text = NextText, !.deleted = TRUE])
    BY <1>4 DEF Delete
  <2> DEFINE v == [r.version EXCEPT !.at = at, !.text = NextText, !.deleted = TRUE]
  <2>2. v \in Version /\ v.id = id /\ v.at = at /\ v.text = NextText
    BY <1>1, <1>4, <2>1 DEF Delete, LocalRow, Version
  <2>3. \A e \in edits : e.by = d /\ e.version.id = v.id => e.version.at /= v.at
    BY <1>4, <2>2 DEF Delete, Stamp
  <2>4. Store(d, v) /\ listed' \in [Devices -> SUBSET Ids]
    BY <1>1, <1>4, <2>1 DEF Delete
  <2> HIDE DEF v
  <2> QED BY <1>4, <2>2, <2>3, <2>4, StoreKeepsEdits DEF Delete
<1> QED BY <1>2, <1>3, <1>4

\* Steps that store no edit and touch no row.
LEMMA OtherReaderStepsKeep ==
  ASSUME AInv, NEW d \in Devices,
         \/ \E b \in Books : OpenBook(d, b)
         \/ \E id \in Ids, at \in Times : SetNoteOnNothing(d, id, at)
         \/ SignIn(d)
  PROVE  AInv'
<1> USE DEF AInv
<1>1. /\ UNCHANGED <<storeVars, rows, cursor, engine, requests, edits, discarded>>
  BY DEF OpenBook, SetNoteOnNothing, SignIn, deviceVars, historyVars
<1>2. RevisionsOK' /\ OneRowEach' /\ MarkedAreEdits' /\ CallsMatch'
  BY <1>1 DEF RevisionsOK, OneRowEach, MarkedAreEdits, CallsMatch, Awaited, storeVars
<1>3. AnswersVouch' /\ EditsKept'
  BY <1>1, ResolvedStays DEF AnswersVouch, AnswerVouches, EditsKept, Supersedes, Kept
<1>4. CASE \E b \in Books : OpenBook(d, b)
  <2>1. PICK b \in Books : OpenBook(d, b)
    BY <1>4
  <2>2. /\ listed' \in [Devices -> SUBSET Ids] /\ orphaned' \in [Devices -> SUBSET Ids]
        /\ UNCHANGED <<signedIn, ignored>>
    BY <2>1 DEF OpenBook, AnnotationTypeOK, LocalRow, Version, historyVars
  <2>3. AnnotationTypeOK' /\ EditsNumbered'
    BY <1>1, <2>2 DEF AnnotationTypeOK, StoreTypeOK, EditsNumbered, storeVars
  <2> QED BY <1>2, <1>3, <2>3
<1>5. CASE SignIn(d)
  <2>1. AnnotationTypeOK'
    BY <1>1, <1>5 DEF SignIn, AnnotationTypeOK, StoreTypeOK, storeVars, historyVars
  <2>2. EditsNumbered'
    BY <1>1, <1>5 DEF SignIn, EditsNumbered, historyVars
  <2> QED BY <1>2, <1>3, <2>1, <2>2
<1>6. CASE \E id \in Ids, at \in Times : SetNoteOnNothing(d, id, at)
  <2>1. PICK id \in Ids, at \in Times : SetNoteOnNothing(d, id, at)
    BY <1>6
  <2> DEFINE new == [by |-> d, version |->
                      [id |-> id, at |-> at, text |-> NextText, deleted |-> FALSE]]
  <2>2. ignored' = ignored \cup {new} /\ new \in Edit
    BY <2>1, SyncAssumption DEF SyncAssumption, SetNoteOnNothing, Edit, Version
  <2>3. AnnotationTypeOK'
    BY <1>1, <2>1, <2>2
       DEF SetNoteOnNothing, AnnotationTypeOK, StoreTypeOK, storeVars, deviceVars
  <2> HIDE DEF new
  <2>4. /\ IsFiniteSet(ignored') /\ Cardinality(ignored) \in Nat
        /\ Cardinality(ignored') \in Nat /\ Cardinality(ignored') >= Cardinality(ignored)
    <3>1. IsFiniteSet(ignored)
      BY DEF EditsNumbered
    <3>2. /\ IsFiniteSet(ignored')
          /\ Cardinality(ignored') =
               IF new \in ignored THEN Cardinality(ignored) ELSE Cardinality(ignored) + 1
      BY <2>2, <3>1, FS_AddElement
    <3>3. Cardinality(ignored) \in Nat
      BY <3>1, FS_CardinalityType
    <3> QED BY <3>2, <3>3
  <2>5. EditsNumbered'
    <3>1. Cardinality(edits) \in Nat /\ \A e \in edits : e.version.text \in Nat
      BY FS_CardinalityType, SyncAssumption
         DEF SyncAssumption, EditsNumbered, AnnotationTypeOK, Edit, Version
    <3> QED BY <1>1, <2>4, <3>1 DEF EditsNumbered
  <2> QED BY <1>2, <1>3, <2>3, <2>5
<1> QED BY <1>4, <1>5, <1>6

-----------------------------------------------------------------------------
(* An answer is applied. *)

\* The rows applySync leaves.
Left(d, batch, settled, incoming) ==
  Swept(Merged(Cleaned(d, batch, settled), incoming))

\* They are typed, one an annotation, every dirty one as it was; and a dirty row stays unless the very edit was sent and settled.
LEMMA AppliedRows ==
  ASSUME NEW d, rows[d] \in SUBSET LocalRow,
         \A r, q \in rows[d] : r.version.id = q.version.id => r = q,
         NEW batch \in SUBSET Version, NEW settled,
         NEW incoming \in SUBSET Version, OneEach(incoming)
  PROVE  /\ Left(d, batch, settled, incoming) \subseteq LocalRow
         /\ \A r, q \in Left(d, batch, settled, incoming) :
              r.version.id = q.version.id => r = q
         /\ \A r \in Left(d, batch, settled, incoming) : r.dirty => r \in rows[d]
         /\ \A r \in rows[d] :
              r.dirty /\ (\A v \in batch : ~(v.id = r.version.id /\ v.at = r.version.at
                                              /\ v.id \in settled))
                => r \in Left(d, batch, settled, incoming)
<1> DEFINE local == rows[d]
           sent(r) == \E v \in batch : v.id = r.version.id /\ v.at = r.version.at /\ v.id \in settled
           clean(r) == IF sent(r) THEN [r EXCEPT !.dirty = FALSE] ELSE r
           cleaned == Cleaned(d, batch, settled)
           known == {r.version.id : r \in cleaned}
           kept  == {r.version.id : r \in {q \in cleaned : q.dirty}}
           taken == {v \in incoming : v.id \notin kept /\ (v.id \in known \/ ~v.deleted)}
           fresh(v) == [version |-> v, dirty |-> FALSE]
           left == Left(d, batch, settled, incoming)
<1>1. cleaned = {clean(r) : r \in local}
  BY DEF Cleaned
<1>2. \A r \in local : /\ clean(r) \in LocalRow /\ clean(r).version = r.version
                       /\ clean(r).dirty => clean(r) = r
                       /\ ~sent(r) => clean(r) = r
  <2> HIDE DEF sent
  <2> QED BY DEF LocalRow
<1>3. left = {r \in {q \in cleaned : \A v \in taken : v.id /= q.version.id}
                      \cup {fresh(v) : v \in taken} : r.dirty \/ ~r.version.deleted}
  BY DEF Left, Merged, Swept
<1> HIDE DEF cleaned, clean, left
<1>4. \A q \in cleaned : /\ q \in LocalRow
                         /\ q.dirty => q \in local
                         /\ \E r \in local : q = clean(r) /\ q.version = r.version
  BY <1>1, <1>2
<1>5. \A q, r \in cleaned : q.version.id = r.version.id => q = r
  BY <1>4
<1>6. \A r \in left : \/ r \in cleaned /\ \A v \in taken : v.id /= r.version.id
                      \/ \E v \in taken : r = fresh(v)
  BY <1>3
<1>7. \A v \in taken : /\ fresh(v) \in LocalRow /\ ~fresh(v).dirty
                       /\ fresh(v).version = v /\ v \in incoming
  BY DEF LocalRow
<1>8. \A r \in local : r.dirty /\ ~sent(r) => r \in left
  <2> SUFFICES ASSUME NEW r \in local, r.dirty, ~sent(r) PROVE r \in left
    OBVIOUS
  <2>1. r \in cleaned
    BY <1>1, <1>2
  <2>2. r.version.id \in kept
    BY <2>1
  <2>3. \A v \in taken : v.id /= r.version.id
    BY <2>2
  <2> QED BY <1>3, <2>1, <2>3
<1>9. ASSUME NEW r \in left PROVE r \in LocalRow /\ (r.dirty => r \in local)
  <2>1. CASE r \in cleaned
    BY <1>4, <2>1
  <2>2. CASE \E v \in taken : r = fresh(v)
    <3>1. PICK v \in taken : r = fresh(v)
      BY <2>2
    <3> QED BY <1>7, <3>1
  <2> QED BY <1>6, <2>1, <2>2
<1>10. ASSUME NEW r \in left, NEW q \in left, r.version.id = q.version.id
       PROVE  r = q
  <2>1. CASE \E v, w \in taken : r = fresh(v) /\ q = fresh(w)
    <3>1. PICK v \in taken, w \in taken : r = fresh(v) /\ q = fresh(w)
      BY <2>1
    <3>2. v.id = w.id /\ v \in incoming /\ w \in incoming
      BY <1>7, <1>10, <3>1
    <3>3. v = w
      BY <3>2 DEF OneEach
    <3> QED BY <3>1, <3>3
  <2> HIDE DEF taken, fresh
  <2>2. CASE r \in cleaned /\ q \in cleaned
    BY <1>5, <1>10, <2>2
  <2> QED BY <1>6, <1>7, <1>10, <2>1, <2>2
<1> HIDE DEF sent
<1>11. \A r \in local :
         r.dirty /\ (\A v \in batch : ~(v.id = r.version.id /\ v.at = r.version.at
                                         /\ v.id \in settled)) => r \in left
  BY <1>8 DEF sent
<1> QED BY <1>9, <1>10, <1>11 DEF left, cleaned

LEMMA AppliedKeeps ==
  ASSUME AInv, NEW e \in Engines, Applied(e)
  PROVE  AInv'
<1> DEFINE d == EngineDevice[e]
           answer == engine[e].answer
           batch == engine[e].batch
           settled == answer.accepted \cup answer.rejected
           left == Left(d, batch, settled, answer.annotations)
           next == IF answer.hasMore THEN At(e, "page")
                   ELSE IF settled = {} THEN Idle ELSE At(e, "check")
<1> USE DEF AInv
<1>1. /\ engine[e].pc = "wait" /\ answer.ok /\ Goto(e, next)
      /\ ApplySync(d, batch, answer)
      /\ UNCHANGED <<storeVars, signedIn, requests, edits, ignored, discarded>>
  BY DEF Applied, historyVars
<1>2. /\ d \in Devices /\ rows \in [Devices -> SUBSET LocalRow]
      /\ engine \in [Engines -> Engine]
      /\ batch \in SUBSET Version /\ answer \in Answer
      /\ answer.annotations \in SUBSET Version /\ answer.cursor \in Nat
  BY SyncAssumption DEF SyncAssumption, AnnotationTypeOK, Engine, Answer
<1>3. OneEach(answer.annotations)
  BY <1>1 DEF AnswersVouch, AnswerVouches
<1>4. \A r, q \in rows[d] : r.version.id = q.version.id => r = q
  BY <1>2 DEF OneRowEach
<1> HIDE DEF batch, settled, d, answer
<1>5. /\ left \subseteq LocalRow
      /\ \A r, q \in left : r.version.id = q.version.id => r = q
      /\ \A r \in left : r.dirty => r \in rows[d]
      /\ \A r \in rows[d] :
           r.dirty /\ (\A v \in batch : ~(v.id = r.version.id /\ v.at = r.version.at
                                           /\ v.id \in settled)) => r \in left
  BY <1>2, <1>3, <1>4, AppliedRows
<1>6. /\ rows' = [rows EXCEPT ![d] = left]
      /\ cursor' = [cursor EXCEPT ![d] = answer.cursor]
      /\ listed' = [listed EXCEPT ![d] = @ \cap {r.version.id : r \in left}]
      /\ orphaned' = [orphaned EXCEPT ![d] =
           @ \cup (listed[d] \ {r.version.id : r \in left})]
  BY <1>1 DEF ApplySync, Left, settled
<1>7. next \in Engine /\ next.batch = {} /\ ~next.answer.ok
  BY AtType
<1> USE DEF batch, settled, d, answer
<1> HIDE DEF left, next
<1>8. /\ rows'[d] = left /\ \A x \in Devices : x /= d => rows'[x] = rows[x]
      /\ engine'[e] = next /\ \A x \in Engines : x /= e => engine'[x] = engine[x]
      /\ engine' \in [Engines -> Engine]
  BY <1>1, <1>2, <1>6, <1>7 DEF Goto
<1>9. AnnotationTypeOK'
  <2>1. rows' \in [Devices -> SUBSET LocalRow] /\ cursor' \in [Devices -> Nat]
    BY <1>2, <1>5, <1>6 DEF AnnotationTypeOK
  <2>2. listed' \in [Devices -> SUBSET Ids] /\ orphaned' \in [Devices -> SUBSET Ids]
    BY <1>2, <1>6 DEF AnnotationTypeOK
  <2> QED BY <1>1, <1>8, <2>1, <2>2 DEF AnnotationTypeOK, StoreTypeOK, storeVars
<1>10. RevisionsOK' /\ EditsNumbered'
  BY <1>1 DEF RevisionsOK, EditsNumbered, storeVars
<1>11. OneRowEach'
  BY <1>5, <1>8 DEF OneRowEach
<1>12. MarkedAreEdits'
  <2>1. ASSUME NEW x \in Devices, NEW r \in rows'[x], r.dirty PROVE r \in rows[x]
    BY <1>5, <1>8, <2>1
  <2>2. ASSUME NEW x \in Engines
        PROVE  engine'[x].batch = {} \/ engine'[x].batch = engine[x].batch
    BY <1>7, <1>8
  <2> QED BY <1>1, <2>1, <2>2 DEF MarkedAreEdits, OneEach
<1>13. \A m \in requests : e \notin m.by
  BY <1>1 DEF CallsMatch, Awaited
<1>14. CallsMatch'
  <2>1. ASSUME NEW m \in requests, NEW x \in m.by PROVE Awaited(m, x)'
    <3>1. x \in Engines /\ x /= e
      BY <1>13 DEF AnnotationTypeOK, Message
    <3>2. Awaited(m, x)
      BY DEF CallsMatch
    <3> QED BY <1>8, <3>1, <3>2 DEF Awaited
  <2>2. \A x \in Engines : engine'[x].pc /= "wait" => ~engine'[x].answer.ok
    BY <1>7, <1>8 DEF CallsMatch
  <2>3. requests' = requests
    BY <1>1
  <2> QED BY <2>1, <2>2, <2>3 DEF CallsMatch
<1>15. AnswersVouch'
  <2> SUFFICES ASSUME NEW x \in Engines PROVE AnswerVouches(x)'
    BY DEF AnswersVouch
  <2>1. CASE x = e
    BY <1>7, <1>8, <2>1 DEF AnswerVouches
  <2>2. CASE x /= e
    <3>1. AnswerVouches(x) /\ engine'[x] = engine[x]
      BY <1>8, <2>2 DEF AnswersVouch
    <3> QED BY <1>1, <3>1, ResolvedStays DEF AnswerVouches
  <2> QED BY <2>1, <2>2
<1>16. EditsKept'
  <2> SUFFICES ASSUME NEW x \in edits \ discarded
               PROVE  \E f \in edits : Supersedes(f, x) /\ Kept(f)'
    BY <1>1 DEF EditsKept, Supersedes
  <2>1. PICK f \in edits : Supersedes(f, x) /\ Kept(f)
    BY DEF EditsKept
  <2> DEFINE row == [version |-> f.version, dirty |-> TRUE]
  <2>2. CASE Resolved(f)
    BY <1>1, <2>1, <2>2, ResolvedStays DEF Kept
  <2>3. CASE row \in rows[f.by] /\ f.by /= d
    <3>1. f \in Edit /\ f.by \in Devices
      BY DEF AnnotationTypeOK, Edit
    <3> QED BY <1>8, <2>1, <2>3, <3>1 DEF Kept
  <2>4. CASE row \in rows[f.by] /\ f.by = d
    <3>1. CASE row \in left
      BY <1>8, <2>1, <2>4, <3>1 DEF Kept
    <3>2. CASE row \notin left
      <4>1. PICK v \in batch : v.id = f.version.id /\ v.at = f.version.at /\ v.id \in settled
        BY <1>5, <2>4, <3>2
      <4>2. [by |-> d, version |-> v] \in edits
        BY DEF MarkedAreEdits
      <4>3. [by |-> d, version |-> v] = f
        BY <2>4, <4>1, <4>2 DEF EditsNumbered
      <4>4. Resolved(f)
        BY <1>1, <4>1, <4>3 DEF AnswersVouch, AnswerVouches
      <4> QED BY <2>2, <4>4
    <3> QED BY <3>1, <3>2
  <2> QED BY <2>1, <2>2, <2>3, <2>4 DEF Kept
<1> QED BY <1>9, <1>10, <1>11, <1>12, <1>14, <1>15, <1>16

\* A sign-out discards what is dirty, and every edit such a row spoke for.
LEMMA SignOutKeeps ==
  ASSUME AInv, NEW d \in Devices, SignOut(d)
  PROVE  AInv'
<1> USE DEF AInv
<1>1. /\ rows' = [rows EXCEPT ![d] = {}] /\ rows \in [Devices -> SUBSET LocalRow]
      /\ UNCHANGED <<storeVars, engine, requests, edits, ignored>>
      /\ discarded' = discarded \cup
           {e \in edits : e.by = d /\ \E r \in Dirty(d) : r.version.id = e.version.id}
  BY DEF SignOut, AnnotationTypeOK
<1>2. rows'[d] = {} /\ \A x \in Devices : x /= d => rows'[x] = rows[x]
  BY <1>1
<1>3. AnnotationTypeOK'
  <2>1. discarded' \subseteq Edit
    BY <1>1 DEF AnnotationTypeOK
  <2> HIDE DEF AInv
  <2>2. AnnotationTypeOK
    BY DEF AInv
  <2> QED BY <1>1, <2>1, <2>2 DEF SignOut, AnnotationTypeOK, StoreTypeOK, storeVars
<1>4. RevisionsOK' /\ EditsNumbered' /\ CallsMatch'
  BY <1>1 DEF RevisionsOK, EditsNumbered, CallsMatch, Awaited, storeVars
<1>5. OneRowEach' /\ MarkedAreEdits'
  BY <1>1, <1>2 DEF OneRowEach, MarkedAreEdits
<1>6. AnswersVouch'
  BY <1>1, ResolvedStays DEF AnswersVouch, AnswerVouches
<1>7. EditsKept'
  <2> SUFFICES ASSUME NEW e \in edits \ discarded'
               PROVE  \E f \in edits : Supersedes(f, e) /\ Kept(f)'
    BY <1>1 DEF EditsKept, Supersedes
  <2>1. PICK f \in edits : Supersedes(f, e) /\ Kept(f)
    BY <1>1 DEF EditsKept
  <2>2. CASE Resolved(f)
    BY <1>1, <2>1, <2>2, ResolvedStays DEF Kept
  <2>3. CASE [version |-> f.version, dirty |-> TRUE] \in rows[f.by]
    <3>1. f.by \in Devices
      BY DEF AnnotationTypeOK, Edit
    <3>2. f.by /= d
      <4> SUFFICES ASSUME f.by = d PROVE FALSE
        OBVIOUS
      <4>1. [version |-> f.version, dirty |-> TRUE] \in Dirty(d)
        BY <2>3 DEF Dirty
      <4>2. e.by = d /\ f.version.id = e.version.id
        BY <2>1 DEF Supersedes
      <4> QED BY <1>1, <4>1, <4>2
    <3> QED BY <1>2, <2>1, <2>3, <3>1, <3>2 DEF Kept
  <2> QED BY <2>1, <2>2, <2>3 DEF Kept
<1> QED BY <1>3, <1>4, <1>5, <1>6, <1>7

-----------------------------------------------------------------------------
(* Steps of the server and of its administrators. *)

\* An exchange leaves resolved what was resolved before.
LEMMA SyncKeepsResolved ==
  ASSUME StoreTypeOK, NEW changes \in SUBSET Version, NEW order, Sync(changes, order),
         annotations' \subseteq Row, NEW f \in Edit, Resolved(f)
  PROVE  Resolved(f)'
<1>1. UNCHANGED <<books, withheld, regranted>>
  BY DEF Sync
<1>2. CASE Settled(f)
  <2>1. PICK r \in annotations :
          /\ r.version.id = f.version.id
          /\ r.version.at >= f.version.at \/ f.version.at > MaxFutureSkew
    BY <1>2 DEF Settled
  <2>2. PICK q \in annotations' :
          q.version.id = r.version.id /\ (q = r \/ q.version.at > r.version.at)
    BY SyncKeeps
  <2>3. q.version.at \in Nat /\ r.version.at \in Nat /\ f.version.at \in Nat
    BY DEF StoreTypeOK, Row, Version, Edit
  <2>4. q.version.at >= f.version.at \/ f.version.at > MaxFutureSkew
    BY <2>1, <2>2, <2>3
  <2> QED BY <2>1, <2>2, <2>4 DEF Resolved, Settled
<1>3. CASE ~Settled(f)
  BY <1>1, <1>3 DEF Resolved
<1> QED BY <1>2, <1>3

LEMMA ServeKeeps ==
  ASSUME AInv, NEW m \in requests, Serve(m)
  PROVE  AInv'
<1> USE DEF AInv
<1>1. m \in Message /\ OneEach(m.changes) /\ StoreTypeOK
  BY DEF AnnotationTypeOK, CallsMatch
<1>2. PICK order \in Orders(Winners(m.changes)) :
        /\ Sync(m.changes, order)
        /\ requests' = requests \ {m}
        /\ engine' = [e \in Engines |->
             IF e \in m.by
             THEN [engine[e] EXCEPT !.answer =
                     AnswerTo(Stored(m.changes, order), m.cursor, m.changes)]
             ELSE engine[e]]
        /\ UNCHANGED <<deviceVars, historyVars>>
  BY DEF Serve
<1> DEFINE table == Stored(m.changes, order)
           answer == AnswerTo(table, m.cursor, m.changes)
           bound == revision + Cardinality(Winners(m.changes))
<1>3. m.changes \in SUBSET Version /\ m.cursor \in Nat /\ m.by \subseteq Engines
  BY <1>1 DEF Message
<1>4. /\ table \in SUBSET Row /\ bound \in Nat
      /\ \A r, q \in table : (r.rev = q.rev \/ r.version.id = q.version.id) => r = q
      /\ \A r \in table : r.rev <= bound
  BY <1>1, <1>3, StoredKeys
<1>5. answer \in Answer /\ OneEach(answer.annotations)
  <2> HIDE DEF table, bound
  <2> QED BY <1>1, <1>3, <1>4, AnswerType
<1>6. answer.accepted = Accepted(m.changes) /\ answer.rejected = Rejected(m.changes)
  BY DEF AnswerTo
<1>7. /\ annotations' = table /\ revision' = bound
      /\ UNCHANGED <<books, withheld, regranted, now>>
  BY <1>2 DEF Sync
<1> HIDE DEF table, bound, answer
<1>8. /\ \A x \in m.by : engine'[x] = [engine[x] EXCEPT !.answer = answer]
      /\ \A x \in Engines \ m.by : engine'[x] = engine[x]
  BY <1>2, <1>3 DEF answer, table
<1>9. ASSUME NEW x \in m.by
      PROVE  /\ engine'[x] \in Engine /\ engine'[x].answer = answer
             /\ engine'[x].pc = "wait" /\ engine'[x].batch = engine[x].batch
             /\ engine[x].batch = m.changes
  <2>1. engine[x] \in Engine /\ engine[x].pc = "wait" /\ m.changes = engine[x].batch
    BY <1>3 DEF AnnotationTypeOK, CallsMatch, Awaited
  <2> QED BY <1>5, <1>8, <2>1 DEF Engine
<1>10. AnnotationTypeOK'
  <2>1. engine' \in [Engines -> Engine]
    <3>1. \A x \in Engines : engine'[x] \in Engine
      BY <1>8, <1>9 DEF AnnotationTypeOK
    <3> QED BY <1>2, <3>1
  <2>2. StoreTypeOK'
    BY <1>4, <1>7 DEF AnnotationTypeOK, StoreTypeOK
  <2> QED BY <1>2, <2>1, <2>2 DEF AnnotationTypeOK, deviceVars, historyVars
<1>11. RevisionsOK'
  BY <1>4, <1>7 DEF RevisionsOK
<1>12. OneRowEach' /\ EditsNumbered'
  BY <1>2 DEF OneRowEach, EditsNumbered, deviceVars, historyVars
<1>13. MarkedAreEdits'
  <2>1. \A x \in Engines : engine'[x].batch = engine[x].batch
    BY <1>8, <1>9
  <2> QED BY <1>2, <2>1 DEF MarkedAreEdits, deviceVars, historyVars
<1>14. CallsMatch'
  <2>1. ASSUME NEW n \in requests', NEW x \in n.by PROVE Awaited(n, x)'
    <3>1. n \in requests /\ n /= m /\ x \in Engines
      BY <1>2 DEF AnnotationTypeOK, Message
    <3>2. x \notin m.by
      BY <3>1 DEF CallsMatch
    <3>3. Awaited(n, x)
      BY <3>1 DEF CallsMatch
    <3> QED BY <1>8, <3>1, <3>2, <3>3 DEF Awaited
  <2>2. \A x \in Engines : engine'[x].pc /= "wait" => ~engine'[x].answer.ok
    BY <1>8, <1>9 DEF CallsMatch
  <2> QED BY <1>2, <2>1, <2>2 DEF CallsMatch
<1>15. AnswersVouch'
  <2> SUFFICES ASSUME NEW x \in Engines PROVE AnswerVouches(x)'
    BY DEF AnswersVouch
  <2>1. CASE x \in m.by
    <3>1. ASSUME NEW v \in m.changes,
                 v.id \in Accepted(m.changes) \cup Rejected(m.changes)
          PROVE  Resolved([by |-> EngineDevice[x], version |-> v])'
      BY <1>1, <1>2, <1>3, <1>4, <1>7, <3>1, ExchangeResolves
    <3> QED BY <1>5, <1>6, <1>9, <2>1, <3>1 DEF AnswerVouches
  <2>2. CASE x \notin m.by
    <3>1. AnswerVouches(x) /\ engine'[x] = engine[x] /\ engine[x] \in Engine
      BY <1>8, <2>2 DEF AnswersVouch, AnnotationTypeOK
    <3>2. \A v \in engine[x].batch : [by |-> EngineDevice[x], version |-> v] \in Edit
      BY <3>1, SyncAssumption DEF SyncAssumption, Engine, Edit
    <3>3. \A f \in Edit : Resolved(f) => Resolved(f)'
      BY <1>1, <1>2, <1>3, <1>4, <1>7, SyncKeepsResolved
    <3> QED BY <3>1, <3>2, <3>3 DEF AnswerVouches
  <2> QED BY <2>1, <2>2
<1>16. EditsKept'
  <2>1. \A f \in edits : Resolved(f) => Resolved(f)'
    BY <1>1, <1>2, <1>3, <1>4, <1>7, SyncKeepsResolved DEF AnnotationTypeOK
  <2>2. UNCHANGED <<rows, edits, discarded>>
    BY <1>2 DEF deviceVars, historyVars
  <2> QED BY <2>1, <2>2 DEF EditsKept, Supersedes, Kept
<1> QED BY <1>10, <1>11, <1>12, <1>13, <1>14, <1>15, <1>16

\* A book that goes takes its annotations along, and no other.
LEMMA AdministerKeeps ==
  ASSUME AInv, Administer
  PROVE  AInv'
<1> USE DEF AInv
<1>1. /\ UNCHANGED <<deviceVars, engine, requests, historyVars>>
      /\ (\E b \in Volatile : RemoveBook(b) \/ Withhold(b) \/ Grant(b)) \/ Tick
  BY DEF Administer
<1>2. /\ annotations' \subseteq annotations /\ revision' = revision
      /\ books' \cup withheld' \cup regranted' \subseteq Books
      /\ now' \in Nat
      /\ books' \ (withheld' \cup regranted') \subseteq books \ (withheld \cup regranted)
      /\ \A r \in annotations : IdBook[r.version.id] \in books' => r \in annotations'
  <2>1. /\ StoreTypeOK
        /\ \A r \in annotations : IdBook[r.version.id] \in books \/ IdBook[r.version.id] \notin books
    BY DEF AnnotationTypeOK
  <2>2. CASE \E b \in Volatile : RemoveBook(b)
    BY <2>1, <2>2 DEF RemoveBook, StoreTypeOK
  <2>3. CASE \E b \in Volatile : Withhold(b)
    BY <2>1, <2>3 DEF Withhold, StoreTypeOK
  <2>4. CASE \E b \in Volatile : Grant(b)
    BY <2>1, <2>4 DEF Grant, StoreTypeOK
  <2>5. CASE Tick
    BY <2>1, <2>5 DEF Tick, StoreTypeOK
  <2> QED BY <1>1, <2>2, <2>3, <2>4, <2>5
<1>3. AnnotationTypeOK'
  BY <1>1, <1>2 DEF AnnotationTypeOK, StoreTypeOK, deviceVars, historyVars
<1>4. RevisionsOK'
  BY <1>2 DEF RevisionsOK
<1>5. OneRowEach' /\ EditsNumbered' /\ MarkedAreEdits' /\ CallsMatch'
  BY <1>1 DEF OneRowEach, EditsNumbered, MarkedAreEdits, CallsMatch, Awaited, deviceVars, historyVars
<1>6. \A f : Resolved(f) => Resolved(f)'
  <2> SUFFICES ASSUME NEW f, Resolved(f) PROVE Resolved(f)'
    OBVIOUS
  <2>1. CASE IdBook[f.version.id] \notin books \ (withheld \cup regranted)
    BY <1>2, <2>1 DEF Resolved
  <2>2. CASE f.version.text \in Overlong
    BY <2>2 DEF Resolved
  <2>3. CASE Settled(f)
    <3>1. PICK r \in annotations :
            /\ r.version.id = f.version.id
            /\ r.version.at >= f.version.at \/ f.version.at > MaxFutureSkew
      BY <2>3 DEF Settled
    <3>2. CASE IdBook[f.version.id] \in books'
      BY <1>2, <3>1, <3>2 DEF Resolved, Settled
    <3>3. CASE IdBook[f.version.id] \notin books'
      BY <3>3 DEF Resolved
    <3> QED BY <3>2, <3>3
  <2> QED BY <2>1, <2>2, <2>3 DEF Resolved
<1>7. AnswersVouch' /\ EditsKept'
  BY <1>1, <1>6
     DEF AnswersVouch, AnswerVouches, EditsKept, Supersedes, Kept, deviceVars, historyVars
<1> QED BY <1>3, <1>4, <1>5, <1>7

-----------------------------------------------------------------------------
(* Init, every step, and the theorems. *)

LEMMA InitInvariant == SyncInit => AInv
<1> SUFFICES ASSUME SyncInit PROVE AInv
  OBVIOUS
<1>1. Idle \in Engine /\ Idle.batch = {} /\ ~Idle.answer.ok
  <2>1. NoAnswer \in Answer /\ ~NoAnswer.ok
    BY DEF NoAnswer, Answer
  <2>2. 0 \in 0 .. MaxPages
    BY SyncAssumption DEF SyncAssumption
  <2> QED BY <2>1, <2>2 DEF Idle, Engine
<1>2. AnnotationTypeOK
  BY <1>1 DEF SyncInit, StoreInit, AnnotationTypeOK, StoreTypeOK
<1>3. RevisionsOK /\ OneRowEach /\ MarkedAreEdits
  BY <1>1 DEF SyncInit, StoreInit, RevisionsOK, OneRowEach, MarkedAreEdits, OneEach
<1>4. EditsNumbered
  BY FS_EmptySet DEF SyncInit, EditsNumbered
<1>5. CallsMatch /\ AnswersVouch
  BY <1>1 DEF SyncInit, CallsMatch, AnswersVouch, AnswerVouches
<1>6. EditsKept
  BY DEF SyncInit, EditsKept
<1> QED BY <1>2, <1>3, <1>4, <1>5, <1>6 DEF AInv

LEMMA StutterKeeps ==
  ASSUME AInv, UNCHANGED syncVars
  PROVE  AInv'
<1> USE DEF AInv, syncVars, deviceVars, historyVars
<1>1. AnnotationTypeOK' /\ RevisionsOK'
  BY DEF AnnotationTypeOK, StoreTypeOK, RevisionsOK, storeVars
<1>2. OneRowEach' /\ EditsNumbered' /\ MarkedAreEdits' /\ CallsMatch'
  BY DEF OneRowEach, EditsNumbered, MarkedAreEdits, CallsMatch, Awaited
<1>3. AnswersVouch' /\ EditsKept'
  BY ResolvedStays DEF AnswersVouch, AnswerVouches, EditsKept, Supersedes, Kept
<1> QED BY <1>1, <1>2, <1>3

LEMMA StepInvariant == AInv /\ [SyncNext]_syncVars => AInv'
<1> SUFFICES ASSUME AInv, [SyncNext]_syncVars PROVE AInv'
  OBVIOUS
<1>1. CASE \E d \in Devices : Reader(d)
  BY <1>1, EditsKeep, OtherReaderStepsKeep DEF Reader
<1>2. CASE \E d \in Devices : SignOut(d)
  BY <1>2, SignOutKeeps
<1>3. CASE \E d \in Devices : SignIn(d)
  BY <1>3, OtherReaderStepsKeep
<1>4. CASE \E e \in Engines : StartRun(e) \/ EngineStep(e)
  BY <1>4, QuietStepsKeep, ReadDirtyKeeps, SendKeeps, AppliedKeeps DEF EngineStep
<1>5. CASE \E e \in Engines, late \in BOOLEAN : Fail(e, late)
  BY <1>5, FailKeeps
<1>6. CASE \E m \in requests : Serve(m)
  BY <1>6, ServeKeeps
<1>7. CASE Administer
  BY <1>7, AdministerKeeps
<1>8. CASE UNCHANGED syncVars
  BY <1>8, StutterKeeps
<1> QED BY <1>1, <1>2, <1>3, <1>4, <1>5, <1>6, <1>7, <1>8 DEF SyncNext

\* The inductive invariant holds of every behaviour.
THEOREM AnnotationInvariant == SyncSpec => []AInv
<1>1. SyncInit => AInv
  BY InitInvariant
<1>2. AInv /\ [SyncNext]_syncVars => AInv'
  BY StepInvariant
<1> QED BY <1>1, <1>2, PTL DEF SyncSpec

\* Every variable of devices, engines, network and store keeps its type.
THEOREM AnnotationTypeCorrect == SyncSpec => []AnnotationTypeOK
<1>1. AInv => AnnotationTypeOK
  BY DEF AInv
<1> QED BY <1>1, AnnotationInvariant, PTL

\* The server has one row an annotation and one annotation a revision, whatever
\* order devices write in: paging by revision skips nothing.
THEOREM AnnotationRevisions == SyncSpec => []RevisionsOK
<1>1. AInv => RevisionsOK
  BY DEF AInv
<1> QED BY <1>1, AnnotationInvariant, PTL

\* No edit a device stored is lost, with any number of engines, whatever calls
\* are lost, delayed or repeated, and however far clocks disagree.
THEOREM AnnotationNoEditLost == SyncSpec => []NoEditLost
<1>1. AInv => NoEditLost
  BY KeptIsNoEditLost DEF AInv
<1> QED BY <1>1, AnnotationInvariant, PTL

\* No step replaces an annotation by an older version of it.
THEOREM AnnotationNewestKept == SyncSpec => NewestKept
<1>1. AInv /\ [SyncNext]_syncVars => [LastEditWins]_syncVars
  <2> SUFFICES ASSUME AInv, SyncNext PROVE LastEditWins
    BY DEF LastEditWins
  <2>1. CASE UNCHANGED <<annotations, books>>
    BY <2>1 DEF LastEditWins
  <2>2. CASE \E m \in requests : Serve(m)
    <3>1. PICK m \in requests : Serve(m)
      BY <2>2
    <3>2. PICK order : Sync(m.changes, order)
      BY <3>1 DEF Serve
    <3>3. StoreTypeOK /\ m.changes \in SUBSET Version
      BY DEF AInv, AnnotationTypeOK, Message
    <3> QED BY <3>2, <3>3, SyncKeeps DEF LastEditWins
  <2>3. CASE \E b \in Volatile : RemoveBook(b)
    BY <2>3 DEF RemoveBook, LastEditWins
  <2>4. ASSUME ~(\E m \in requests : Serve(m)), ~(\E b \in Volatile : RemoveBook(b))
        PROVE  UNCHANGED <<annotations, books>>
    <3>1. CASE \E d \in Devices : Reader(d) \/ SignOut(d) \/ SignIn(d)
      <4>1. PICK d \in Devices : Reader(d) \/ SignOut(d) \/ SignIn(d)
        BY <3>1
      <4>2. CASE Reader(d)
        BY <4>2 DEF Reader, OpenBook, Add, SetNote, SetNoteOnNothing, Delete, storeVars
      <4>3. CASE SignOut(d) \/ SignIn(d)
        BY <4>3 DEF SignOut, SignIn, storeVars
      <4> QED BY <4>1, <4>2, <4>3
    <3>2. CASE \E e \in Engines : StartRun(e) \/ EngineStep(e)
      BY <3>2 DEF StartRun, EngineStep, ReadDirty, OutOfPages, Send, SendSignedOut,
                  Applied, Check, storeVars
    <3>3. CASE \E e \in Engines, late \in BOOLEAN : Fail(e, late)
      BY <3>3 DEF Fail, storeVars
    <3>4. CASE Administer
      <4>1. (\E b \in Volatile : Withhold(b) \/ Grant(b)) \/ Tick
        BY <2>4, <3>4 DEF Administer
      <4> QED BY <4>1 DEF Withhold, Grant, Tick
    <3> QED BY <2>4, <3>1, <3>2, <3>3, <3>4 DEF SyncNext
  <2> QED BY <2>1, <2>2, <2>3, <2>4
<1> QED BY <1>1, AnnotationInvariant, PTL DEF SyncSpec, NewestKept

-----------------------------------------------------------------------------
(* What a device shows. *)

\* The book is there, the reader's to see, and always was.
Fine(b) == b \in books \ (withheld \cup regranted)

\* No device, request or answer is ahead of the server's counter.
CursorsKnown ==
  /\ signOuts \in Nat
  /\ \A d \in Devices : cursor[d] <= revision
  /\ \A m \in requests : m.cursor <= revision
  /\ \A e \in Engines : engine[e].answer.ok => engine[e].answer.cursor <= revision

\* An engine that shares its device with no other asks from the cursor the
\* device has.
AskedFromHere ==
  \A e \in Engines : signOuts = 0 /\ Alone(EngineDevice[e]) =>
    \A m \in requests : e \in m.by => m.cursor = cursor[EngineDevice[e]]

\* The answer an engine holds tells its device of the row: if the answer takes
\* the cursor past it, if the answer holds any version of it, and if the device,
\* past it already, sent an edit of its own that lost.
Tells(e, r) ==
  /\ r.rev <= engine[e].answer.cursor /\ r.rev > cursor[EngineDevice[e]] =>
       r.version \in engine[e].answer.annotations
  /\ r.rev <= engine[e].answer.cursor =>
       \A w \in engine[e].answer.annotations : w.id = r.version.id => w = r.version
  /\ r.rev <= cursor[EngineDevice[e]] /\ r.version.id \in engine[e].answer.accepted =>
       r.version \in engine[e].answer.annotations

\* Every answer not applied yet does, for the rows the device may read.
AnswersTell ==
  \A e \in Engines : signOuts = 0 /\ Alone(EngineDevice[e]) /\ engine[e].answer.ok =>
    \A r \in annotations : Fine(IdBook[r.version.id]) => Tells(e, r)

\* Only edits nobody could take are rejected.
RejectsFine ==
  \A e \in Engines : engine[e].answer.ok =>
    \A v \in engine[e].batch :
      v.id \in engine[e].answer.rejected => v.text \in Overlong \/ ~Fine(IdBook[v.id])

\* What ShowsWinner asks of a device and a row before it promises anything.
Owed(d, r) ==
  /\ Alone(d) /\ signOuts = 0 /\ r.rev <= cursor[d] /\ Fine(IdBook[r.version.id])
  /\ \A e \in edits : e.by = d /\ e.version.id = r.version.id => e.version.text \notin Overlong

\* The rows of a device show the version, or an unsent edit instead.
Shown(local, v) ==
  \/ \E l \in local : l.version.id = v.id /\ (l.dirty \/ l.version = v)
  \/ v.deleted /\ \A l \in local : l.version.id /= v.id

WinnersShown ==
  \A d \in Devices, r \in annotations : Owed(d, r) => Shown(rows[d], r.version)

\* What the cursors of devices stand for, inductive beside AInv.
WInv ==
  /\ CursorsKnown /\ AskedFromHere /\ AnswersTell /\ RejectsFine /\ WinnersShown

\* ShowsWinner, by its parts.
LEMMA ShownIsShowsWinner == WinnersShown <=> ShowsWinner
BY DEF WinnersShown, Owed, Shown, ShowsWinner, Fine, Readable

\* IDs are finitely many, so are the rows of a table.
LEMMA TableFinite ==
  ASSUME NEW table \in SUBSET Row, \A r, q \in table : r.version.id = q.version.id => r = q
  PROVE  IsFiniteSet(table)
<1> DEFINE f == [r \in table |-> r.version.id]
<1>1. f \in Injection(table, Ids)
  BY DEF Row, Version, Injection, IsInjective
<1>2. IsFiniteSet(Ids)
  BY StoreAssumption DEF StoreAssumption
<1> QED BY <1>1, <1>2, FS_Injection

\* A page holds every unseen row up to the cursor it returns: the rows below
\* one of the page are fewer than those below that one.
LEMMA PageComplete ==
  ASSUME NEW table \in SUBSET Row, NEW bound \in Nat, \A r \in table : r.rev <= bound,
         \A r, q \in table : r.version.id = q.version.id => r = q,
         NEW at \in Nat, NEW r \in Unseen(table, at), r.rev <= NextCursor(table, at)
  PROVE  r \in Page(table, at)
<1> DEFINE unseen == Unseen(table, at)
           before(p) == {q \in unseen : q.rev < p.rev}
<1>1. r \in table /\ r.rev > at /\ r.rev \in Nat /\ unseen \subseteq table
  BY DEF Unseen, Row
<1>2. PICK p \in Page(table, at) : p.rev = NextCursor(table, at)
  BY <1>1, NextCursorType
<1>3. /\ p \in unseen /\ p.rev \in Nat /\ Cardinality(before(p)) < PullPageSize
      /\ \A q \in unseen : q.rev \in Nat
  BY <1>1, <1>2 DEF Page, Row
<1>4. IsFiniteSet(before(p))
  <2>1. before(p) \subseteq table
    BY <1>1
  <2> QED BY <2>1, TableFinite, FS_Subset
<1>5. before(r) \subseteq before(p)
  BY <1>1, <1>2, <1>3
<1> HIDE DEF before
<1>6. IsFiniteSet(before(r)) /\ Cardinality(before(r)) <= Cardinality(before(p))
  BY <1>4, <1>5, FS_Subset
<1>7. Cardinality(before(r)) \in Nat /\ Cardinality(before(p)) \in Nat
  BY <1>4, <1>6, FS_CardinalityType
<1>8. Cardinality(before(r)) < PullPageSize
  BY <1>3, <1>6, <1>7, StoreAssumption DEF StoreAssumption
<1> QED BY <1>8 DEF before, Page

\* Steps that leave tables and cursors of the devices alone, and hand out no
\* answer, keep what cursors stand for, though the server may lose rows.
LEMMA WinnersStay ==
  ASSUME AInv, WInv, annotations' \subseteq annotations, revision' = revision,
         UNCHANGED <<rows, cursor, edits, signOuts>>,
         \A b : Fine(b)' => Fine(b),
         \A e \in Engines : engine'[e] = engine[e] \/ ~engine'[e].answer.ok,
         \A m \in requests' : m.cursor <= revision,
         \A m \in requests' : \A e \in m.by :
           m \in requests \/ m.cursor = cursor[EngineDevice[e]]
  PROVE  WInv'
<1> USE DEF WInv
<1>1. CursorsKnown'
  BY DEF CursorsKnown
<1>2. AskedFromHere'
  BY DEF AskedFromHere, Alone
<1>3. AnswersTell'
  <2> SUFFICES ASSUME NEW e \in Engines, signOuts = 0, Alone(EngineDevice[e]),
                      engine'[e].answer.ok, NEW r \in annotations',
                      Fine(IdBook[r.version.id])'
               PROVE  Tells(e, r)'
    BY DEF AnswersTell, Alone
  <2>1. engine'[e] = engine[e] /\ Fine(IdBook[r.version.id])
    OBVIOUS
  <2>2. Tells(e, r)
    BY <2>1 DEF AnswersTell
  <2> QED BY <2>1, <2>2 DEF Tells
<1>4. RejectsFine'
  <2> SUFFICES ASSUME NEW e \in Engines, engine'[e].answer.ok, NEW v \in engine'[e].batch,
                      v.id \in engine'[e].answer.rejected
               PROVE  v.text \in Overlong \/ ~Fine(IdBook[v.id])'
    BY DEF RejectsFine
  <2>1. engine'[e] = engine[e]
    OBVIOUS
  <2> QED BY <2>1 DEF RejectsFine
<1>5. WinnersShown'
  <2> SUFFICES ASSUME NEW d \in Devices, NEW r \in annotations', Owed(d, r)'
               PROVE  Shown(rows[d], r.version)
    BY DEF WinnersShown
  <2>1. r \in annotations /\ Owed(d, r)
    BY DEF Owed, Alone
  <2> QED BY <2>1 DEF WinnersShown
<1> QED BY <1>1, <1>2, <1>3, <1>4, <1>5

\* applySync shows what is incoming; and what nothing incoming replaces it
\* shows as before, unless it cleans a dirty row of it.
LEMMA LeftShows ==
  ASSUME NEW d, rows[d] \in SUBSET LocalRow,
         \A r, q \in rows[d] : r.version.id = q.version.id => r = q,
         NEW batch \in SUBSET Version, NEW settled,
         NEW incoming \in SUBSET Version, OneEach(incoming),
         NEW v \in Version,
         \/ v \in incoming
         \/ /\ \A w \in incoming : w.id /= v.id
            /\ Shown(rows[d], v)
            /\ \A r \in rows[d] : r.dirty /\ r.version.id = v.id =>
                 \A b \in batch : ~(b.id = v.id /\ b.at = r.version.at /\ b.id \in settled)
  PROVE  Shown(Left(d, batch, settled, incoming), v)
<1> DEFINE local == rows[d]
           sent(r) == \E b \in batch : b.id = r.version.id /\ b.at = r.version.at /\ b.id \in settled
           clean(r) == IF sent(r) THEN [r EXCEPT !.dirty = FALSE] ELSE r
           cleaned == Cleaned(d, batch, settled)
           known == {r.version.id : r \in cleaned}
           kept  == {r.version.id : r \in {q \in cleaned : q.dirty}}
           taken == {w \in incoming : w.id \notin kept /\ (w.id \in known \/ ~w.deleted)}
           fresh(w) == [version |-> w, dirty |-> FALSE]
           merged == {q \in cleaned : \A w \in taken : w.id /= q.version.id}
                       \cup {fresh(w) : w \in taken}
           left == Left(d, batch, settled, incoming)
<1>1. cleaned = {clean(r) : r \in local}
  BY DEF Cleaned
<1>2. \A r \in local : /\ clean(r).version = r.version
                       /\ clean(r).dirty => clean(r) = r
                       /\ ~sent(r) => clean(r) = r
  <2> HIDE DEF sent
  <2> QED BY DEF LocalRow
<1>3. left = {r \in merged : r.dirty \/ ~r.version.deleted}
  BY DEF Left, Merged, Swept
<1> HIDE DEF cleaned, clean, left, sent
<1>4. \A q \in cleaned : \E r \in local : q = clean(r) /\ q.version = r.version
  BY <1>1, <1>2
<1>5. \A w \in taken : w \in incoming /\ fresh(w).version = w /\ ~fresh(w).dirty
  OBVIOUS
<1>6. \A q \in cleaned : q.dirty => q \in left
  <2> SUFFICES ASSUME NEW q \in cleaned, q.dirty PROVE q \in left
    OBVIOUS
  <2>1. q.version.id \in kept
    OBVIOUS
  <2>2. \A w \in taken : w.id /= q.version.id
    BY <2>1
  <2> QED BY <1>3, <2>2
<1>7. \A l \in left : /\ l.dirty \/ ~l.version.deleted
                      /\ \/ l \in cleaned /\ \A w \in taken : w.id /= l.version.id
                         \/ \E w \in taken : l = fresh(w)
  BY <1>3
<1>8. CASE \E q \in cleaned : q.dirty /\ q.version.id = v.id
  BY <1>6, <1>8 DEF Shown, left
<1>9. CASE v \in incoming /\ \A q \in cleaned : ~(q.dirty /\ q.version.id = v.id)
  <2>1. v.id \notin kept
    BY <1>9
  <2>2. CASE ~v.deleted
    <3>1. v \in taken
      BY <1>9, <2>1, <2>2
    <3>2. fresh(v) \in left /\ fresh(v).version = v
      BY <1>3, <1>5, <2>2, <3>1
    <3> HIDE DEF fresh
    <3> QED BY <3>2 DEF Shown, left
  <2>3. CASE v.deleted
    <3>1. ASSUME NEW l \in left, l.version.id = v.id PROVE FALSE
      <4>1. CASE l \in cleaned /\ \A w \in taken : w.id /= l.version.id
        <5>1. v.id \in known
          BY <3>1, <4>1
        <5>2. v \in taken
          BY <1>9, <2>1, <5>1
        <5> QED BY <3>1, <4>1, <5>2
      <4>2. CASE \E w \in taken : l = fresh(w)
        <5>1. PICK w \in taken : l = fresh(w)
          BY <4>2
        <5>2. w \in incoming /\ w.id = v.id /\ ~l.dirty /\ l.version = w
          BY <1>5, <3>1, <5>1
        <5>3. w = v
          BY <1>9, <5>2 DEF OneEach
        <5> QED BY <1>7, <2>3, <5>2, <5>3
      <4> QED BY <1>7, <4>1, <4>2
    <3> QED BY <2>3, <3>1 DEF Shown, left
  <2> QED BY <2>2, <2>3
<1>10. CASE /\ \A w \in incoming : w.id /= v.id
            /\ Shown(rows[d], v)
            /\ \A r \in rows[d] : r.dirty /\ r.version.id = v.id =>
                 \A b \in batch : ~(b.id = v.id /\ b.at = r.version.at /\ b.id \in settled)
            /\ \A q \in cleaned : ~(q.dirty /\ q.version.id = v.id)
  <2>1. \A w \in taken : w.id /= v.id
    BY <1>10
  <2>2. ASSUME NEW l \in left, l.version.id = v.id
        PROVE  l \in cleaned
    <3>1. ASSUME NEW w \in taken, l = fresh(w) PROVE FALSE
      BY <1>5, <2>1, <2>2, <3>1
    <3> QED BY <1>7, <3>1
  <2>3. \A r \in local : r.version.id = v.id => ~r.dirty
    <3> SUFFICES ASSUME NEW r \in local, r.version.id = v.id, r.dirty PROVE FALSE
      OBVIOUS
    <3>1. ~sent(r)
      BY <1>10 DEF sent
    <3>2. r \in cleaned
      BY <1>1, <1>2, <3>1
    <3> QED BY <1>10, <3>2
  <2>4. CASE \E l \in local : l.version = v
    <3>1. PICK l \in local : l.version = v
      BY <2>4
    <3>2. clean(l) \in cleaned /\ clean(l).version = v
      BY <1>1, <1>2, <3>1
    <3>3. CASE ~v.deleted
      <4>1. clean(l) \in left
        BY <1>3, <2>1, <3>2, <3>3
      <4> QED BY <3>2, <4>1 DEF Shown, left
    <3>4. CASE v.deleted
      <4>1. ASSUME NEW x \in left, x.version.id = v.id PROVE FALSE
        <5>1. x \in cleaned /\ (x.dirty \/ ~x.version.deleted) /\ ~x.dirty
          BY <1>7, <1>10, <2>2, <4>1
        <5>2. PICK r \in local : x = clean(r) /\ x.version = r.version
          BY <1>4, <5>1
        <5>3. r = l
          BY <3>1, <4>1, <5>2
        <5> QED BY <3>1, <3>4, <5>1, <5>2, <5>3
      <4> QED BY <3>4, <4>1 DEF Shown, left
    <3> QED BY <3>3, <3>4
  <2>5. CASE v.deleted /\ \A l \in local : l.version.id /= v.id
    <3>1. ASSUME NEW x \in left, x.version.id = v.id PROVE FALSE
      <4>1. PICK r \in local : x = clean(r) /\ x.version = r.version
        BY <1>4, <2>2, <3>1
      <4> QED BY <2>5, <3>1, <4>1
    <3> QED BY <2>5, <3>1 DEF Shown, left
  <2> QED BY <1>10, <2>3, <2>4, <2>5 DEF Shown
<1> QED BY <1>8, <1>9, <1>10

\* Applying an answer shows what the answer's cursor stands for.  A dirty row
\* it cleans was accepted, and then the winner came along, or was rejected, and
\* then the row is owed to nobody.
LEMMA AppliedWinners ==
  ASSUME AInv, WInv, NEW e \in Engines, Applied(e)
  PROVE  WInv'
<1> DEFINE d == EngineDevice[e]
           answer == engine[e].answer
           batch == engine[e].batch
           settled == answer.accepted \cup answer.rejected
           left == Left(d, batch, settled, answer.annotations)
           next == IF answer.hasMore THEN At(e, "page")
                   ELSE IF settled = {} THEN Idle ELSE At(e, "check")
<1> USE DEF AInv, WInv
<1>1. /\ engine[e].pc = "wait" /\ answer.ok /\ Goto(e, next)
      /\ ApplySync(d, batch, answer)
      /\ UNCHANGED <<annotations, revision, books, withheld, regranted, requests, edits, signOuts>>
  BY DEF Applied, historyVars, storeVars
<1>2. /\ d \in Devices /\ rows \in [Devices -> SUBSET LocalRow]
      /\ cursor \in [Devices -> Nat] /\ engine \in [Engines -> Engine]
      /\ batch \in SUBSET Version /\ answer \in Answer /\ annotations \subseteq Row
      /\ answer.annotations \in SUBSET Version /\ answer.cursor \in Nat
  BY SyncAssumption DEF SyncAssumption, AnnotationTypeOK, StoreTypeOK, Engine, Answer
<1>3. OneEach(answer.annotations)
  BY <1>1 DEF AnswersVouch, AnswerVouches
<1>4. \A r, q \in rows[d] : r.version.id = q.version.id => r = q
  BY <1>2 DEF OneRowEach
<1>5. next \in Engine /\ ~next.answer.ok
  BY AtType
<1>6. /\ rows' = [rows EXCEPT ![d] = left]
      /\ cursor' = [cursor EXCEPT ![d] = answer.cursor]
  BY <1>1 DEF ApplySync, Left
<1> HIDE DEF next, left
<1>7. /\ rows'[d] = left /\ \A x \in Devices : x /= d => rows'[x] = rows[x]
      /\ cursor'[d] = answer.cursor /\ \A x \in Devices : x /= d => cursor'[x] = cursor[x]
      /\ engine'[e] = next /\ \A x \in Engines : x /= e => engine'[x] = engine[x]
  BY <1>1, <1>2, <1>6 DEF Goto
<1>8. \A m \in requests : e \notin m.by
  BY <1>1 DEF CallsMatch, Awaited
<1>9. \A b : Fine(b)' <=> Fine(b)
  BY <1>1 DEF Fine
<1>10. CursorsKnown'
  BY <1>1, <1>5, <1>7 DEF CursorsKnown
<1>11. ASSUME NEW x \in Engines, x /= e, Alone(EngineDevice[x])
       PROVE  EngineDevice[x] \in Devices /\ EngineDevice[x] /= d
  BY <1>11, SyncAssumption DEF SyncAssumption, Alone
<1>12. AskedFromHere'
  <2> SUFFICES ASSUME NEW x \in Engines, signOuts = 0, Alone(EngineDevice[x]),
                      NEW m \in requests, x \in m.by
               PROVE  m.cursor = cursor'[EngineDevice[x]]
    BY <1>1 DEF AskedFromHere, Alone
  <2>1. x /= e
    BY <1>8
  <2> QED BY <1>7, <1>11, <2>1 DEF AskedFromHere
<1>13. AnswersTell'
  <2> SUFFICES ASSUME NEW x \in Engines, signOuts = 0, Alone(EngineDevice[x]),
                      engine'[x].answer.ok, NEW r \in annotations,
                      Fine(IdBook[r.version.id])'
               PROVE  Tells(x, r)'
    BY <1>1 DEF AnswersTell, Alone
  <2>1. x /= e
    BY <1>5, <1>7
  <2>2. engine'[x] = engine[x] /\ cursor'[EngineDevice[x]] = cursor[EngineDevice[x]]
    BY <1>7, <1>11, <2>1
  <2>3. Tells(x, r)
    BY <1>9, <2>2 DEF AnswersTell
  <2> QED BY <2>2, <2>3 DEF Tells
<1>14. RejectsFine'
  <2> SUFFICES ASSUME NEW x \in Engines, engine'[x].answer.ok, NEW v \in engine'[x].batch,
                      v.id \in engine'[x].answer.rejected
               PROVE  v.text \in Overlong \/ ~Fine(IdBook[v.id])'
    BY DEF RejectsFine
  <2>1. engine'[x] = engine[x]
    BY <1>5, <1>7
  <2> QED BY <1>9, <2>1 DEF RejectsFine
<1>15. WinnersShown'
  <2> SUFFICES ASSUME NEW x \in Devices, NEW r \in annotations, Owed(x, r)'
               PROVE  Shown(rows'[x], r.version)
    BY <1>1 DEF WinnersShown
  <2>1. /\ Alone(x) /\ signOuts = 0 /\ r.rev <= cursor'[x] /\ Fine(IdBook[r.version.id])
        /\ \A f \in edits : f.by = x /\ f.version.id = r.version.id =>
             f.version.text \notin Overlong
    BY <1>1, <1>9 DEF Owed, Alone
  <2>2. CASE x /= d
    <3>1. Owed(x, r)
      BY <1>7, <2>1, <2>2 DEF Owed
    <3> QED BY <1>7, <2>2, <3>1 DEF WinnersShown
  <2>3. CASE x = d
    <3>1. Tells(e, r) /\ r.rev <= answer.cursor
      BY <1>1, <1>7, <2>1, <2>3 DEF AnswersTell
    <3>2. r.version \in Version /\ r.rev \in Nat /\ cursor[d] \in Nat
      BY <1>2 DEF Row
    <3>3. CASE r.version \in answer.annotations
      <4> HIDE DEF d, batch, settled, answer
      <4>1. Shown(left, r.version)
        BY <1>2, <1>3, <1>4, <3>2, <3>3, LeftShows DEF left
      <4> QED BY <1>7, <2>3, <4>1
    <3>4. CASE r.version \notin answer.annotations
      <4>1. r.rev <= cursor[d] /\ r.version.id \notin answer.accepted
        BY <3>1, <3>2, <3>4 DEF Tells
      <4>2. \A w \in answer.annotations : w.id /= r.version.id
        BY <3>1, <3>4 DEF Tells
      <4>3. Shown(rows[d], r.version)
        <5>1. Owed(d, r)
          BY <2>1, <2>3, <4>1 DEF Owed
        <5> QED BY <1>2, <5>1 DEF WinnersShown
      <4>4. ASSUME NEW b \in batch, b.id = r.version.id, b.id \in settled PROVE FALSE
        <5>1. b.id \in answer.rejected
          BY <4>1, <4>4
        <5>2. b.text \in Overlong
          BY <1>1, <2>1, <4>4, <5>1 DEF RejectsFine
        <5>3. [by |-> d, version |-> b] \in edits
          BY DEF MarkedAreEdits
        <5> QED BY <2>1, <2>3, <4>4, <5>2, <5>3
      <4>5. \A q \in rows[d] : q.dirty /\ q.version.id = r.version.id =>
              \A b \in batch : ~(b.id = r.version.id /\ b.at = q.version.at /\ b.id \in settled)
        BY <4>4
      <4> HIDE DEF d, batch, settled, answer
      <4>6. Shown(left, r.version)
        BY <1>2, <1>3, <1>4, <3>2, <4>2, <4>3, <4>5, LeftShows DEF left
      <4> QED BY <1>7, <2>3, <4>6
    <3> QED BY <3>3, <3>4
  <2> QED BY <2>2, <2>3
<1> QED BY <1>10, <1>12, <1>13, <1>14, <1>15

\* The other steps of an engine, and its end.
LEMMA EngineStepWinners ==
  ASSUME AInv, WInv, NEW e \in Engines,
         \/ StartRun(e) \/ ReadDirty(e) \/ OutOfPages(e) \/ Send(e) \/ SendSignedOut(e) \/ Check(e)
         \/ \E late \in BOOLEAN : Fail(e, late)
  PROVE  WInv'
<1> DEFINE mine == [by |-> {e}, cursor |-> cursor[EngineDevice[e]], changes |-> engine[e].batch]
<1>1. /\ UNCHANGED <<storeVars, rows, cursor, edits, signOuts>>
      /\ \E next : Goto(e, next) /\ ~next.answer.ok
  <2>1. \A pc \in {"idle", "page", "send", "wait", "check"} :
          ~Idle.answer.ok /\ At(e, pc) \in Engine /\ ~At(e, pc).answer.ok
    BY AtType DEF AInv
  <2>2. CASE ReadDirty(e)
    <3>1. PICK some : Goto(e, [At(e, "send") EXCEPT !.pages = @ + 1,
                                                    !.batch = {r.version : r \in some}])
      BY <2>2 DEF ReadDirty
    <3>2. ~[At(e, "send") EXCEPT !.pages = @ + 1,
                                 !.batch = {r.version : r \in some}].answer.ok
      BY <2>1 DEF Engine
    <3> QED BY <2>2, <3>1, <3>2 DEF ReadDirty, deviceVars, historyVars
  <2>3. CASE Send(e)
    <3>1. engine[e] \in Engine /\ ~engine[e].answer.ok
      BY <2>3, NotAwaited DEF Send, AInv, AnnotationTypeOK
    <3>2. ~[engine[e] EXCEPT !.pc = "wait"].answer.ok
      BY <3>1 DEF Engine
    <3> QED BY <2>3, <3>2 DEF Send, deviceVars, historyVars
  <2>4. CASE StartRun(e) \/ OutOfPages(e) \/ SendSignedOut(e) \/ Check(e)
    BY <2>1, <2>4 DEF StartRun, OutOfPages, SendSignedOut, Check, deviceVars, historyVars
  <2>5. CASE \E late \in BOOLEAN : Fail(e, late)
    BY <2>1, <2>5 DEF Fail, deviceVars, historyVars
  <2> QED BY <2>2, <2>3, <2>4, <2>5
<1>2. \A m \in requests' :
        \/ m \in requests
        \/ m = mine
        \/ m.by = {} /\ \E n \in requests : m.cursor = n.cursor
  <2>1. CASE \E late \in BOOLEAN : Fail(e, late)
    <3>1. PICK late \in BOOLEAN : Fail(e, late)
      BY <2>1
    <3>2. requests \subseteq Message
      BY DEF AInv, AnnotationTypeOK
    <3> QED BY <3>1, <3>2 DEF Fail, Message
  <2>2. CASE Send(e)
    BY <2>2 DEF Send
  <2>3. CASE StartRun(e) \/ ReadDirty(e) \/ OutOfPages(e) \/ SendSignedOut(e) \/ Check(e)
    BY <2>3 DEF StartRun, ReadDirty, OutOfPages, SendSignedOut, Check
  <2> QED BY <2>1, <2>2, <2>3
<1>3. \A x \in Engines : engine'[x] = engine[x] \/ ~engine'[x].answer.ok
  <2>1. PICK next : Goto(e, next) /\ ~next.answer.ok
    BY <1>1
  <2>2. engine' = [engine EXCEPT ![e] = next] /\ engine \in [Engines -> Engine]
    BY <2>1 DEF Goto, AInv, AnnotationTypeOK
  <2> QED BY <2>1, <2>2
<1>4. EngineDevice[e] \in Devices /\ mine.cursor = cursor[EngineDevice[e]] /\ mine.by = {e}
  BY SyncAssumption DEF SyncAssumption
<1>5. /\ \A m \in requests' : m.cursor <= revision
      /\ \A m \in requests' : \A x \in m.by : m \in requests \/ m.cursor = cursor[EngineDevice[x]]
  BY <1>2, <1>4 DEF WInv, CursorsKnown
<1>6. \A b : Fine(b)' => Fine(b)
  BY <1>1 DEF Fine, storeVars
<1> QED BY <1>1, <1>3, <1>5, <1>6, WinnersStay DEF storeVars

\* Steps that touch no row, and the server's administrators.
LEMMA QuietWinners ==
  ASSUME AInv, WInv,
         \/ /\ UNCHANGED storeVars
            /\ UNCHANGED <<rows, cursor, edits, signOuts, engine, requests>>
         \/ Administer
  PROVE  WInv'
<1>1. UNCHANGED <<rows, cursor, edits, signOuts, engine, requests>>
  BY DEF Administer, deviceVars, historyVars
<1>2. /\ annotations' \subseteq annotations /\ revision' = revision
      /\ \A b : Fine(b)' => Fine(b)
  <2>1. CASE UNCHANGED storeVars
    BY <2>1 DEF storeVars, Fine
  <2>2. CASE \E b \in Volatile : RemoveBook(b)
    BY <2>2 DEF RemoveBook, Fine
  <2>3. CASE \E b \in Volatile : Withhold(b)
    BY <2>3 DEF Withhold, Fine
  <2>4. CASE \E b \in Volatile : Grant(b)
    BY <2>4 DEF Grant, Fine
  <2>5. CASE Tick
    BY <2>5 DEF Tick, Fine
  <2> QED BY <2>1, <2>2, <2>3, <2>4, <2>5 DEF Administer
<1>3. /\ \A m \in requests' : m.cursor <= revision
      /\ \A m \in requests' : \A e \in m.by :
           m \in requests \/ m.cursor = cursor[EngineDevice[e]]
      /\ \A e \in Engines : engine'[e] = engine[e] \/ ~engine'[e].answer.ok
  BY <1>1 DEF WInv, CursorsKnown
<1> QED BY <1>1, <1>2, <1>3, WinnersStay

\* An edit leaves a dirty row, which speaks for itself.
LEMMA StoreWinners ==
  ASSUME AInv, WInv, NEW d \in Devices, NEW v \in Version, Store(d, v),
         UNCHANGED <<storeVars, cursor, engine, requests, signOuts>>
  PROVE  WInv'
<1> USE DEF WInv
<1>1. \A b : Fine(b)' <=> Fine(b)
  BY DEF Fine, storeVars
<1>2. CursorsKnown' /\ AskedFromHere'
  BY DEF CursorsKnown, AskedFromHere, Alone, storeVars
<1>3. AnswersTell' /\ RejectsFine'
  BY <1>1 DEF AnswersTell, RejectsFine, Tells, Alone, storeVars
<1>4. WinnersShown'
  <2> SUFFICES ASSUME NEW x \in Devices, NEW r \in annotations, Owed(x, r)'
               PROVE  Shown(rows'[x], r.version)
    BY DEF WinnersShown, storeVars
  <2> DEFINE row == [version |-> v, dirty |-> TRUE]
  <2>1. /\ edits \subseteq edits' /\ rows \in [Devices -> SUBSET LocalRow]
        /\ rows' = [rows EXCEPT ![d] = {q \in @ : q.version.id /= v.id} \cup {row}]
    BY DEF Store, AInv, AnnotationTypeOK
  <2>2. Owed(x, r)
    BY <1>1, <2>1 DEF Owed, Alone
  <2>3. Shown(rows[x], r.version)
    BY <2>2 DEF WinnersShown
  <2>4. CASE x /= d
    BY <2>1, <2>3, <2>4
  <2>5. CASE x = d
    <3>1. rows'[d] = {q \in rows[d] : q.version.id /= v.id} \cup {row}
      BY <2>1
    <3>2. row.version = v /\ row.dirty
      OBVIOUS
    <3> HIDE DEF row
    <3>3. CASE r.version.id = v.id
      BY <2>5, <3>1, <3>2, <3>3 DEF Shown
    <3>4. CASE r.version.id /= v.id
      BY <2>3, <2>5, <3>1, <3>2, <3>4 DEF Shown
    <3> QED BY <3>3, <3>4
  <2> QED BY <2>4, <2>5
<1> QED BY <1>2, <1>3, <1>4

\* The reader's steps.
LEMMA ReaderWinners ==
  ASSUME AInv, WInv, NEW d \in Devices, Reader(d)
  PROVE  WInv'
<1>1. CASE \E b \in Books : OpenBook(d, b)
  BY <1>1, QuietWinners DEF OpenBook, historyVars
<1>2. CASE \E id \in Ids, at \in Times : SetNoteOnNothing(d, id, at)
  BY <1>2, QuietWinners DEF SetNoteOnNothing, deviceVars
<1>3. CASE \E id \in Ids, at \in Times : Add(d, id, at) \/ SetNote(d, id, at) \/ Delete(d, id, at)
  <2>1. PICK id \in Ids, at \in Times : Add(d, id, at) \/ SetNote(d, id, at) \/ Delete(d, id, at)
    BY <1>3
  <2>2. at \in Nat /\ rows[d] \subseteq LocalRow /\ NextText \in Texts
    BY <2>1, SyncAssumption DEF SyncAssumption, AInv, AnnotationTypeOK, Add, SetNote, Delete
  <2>3. \E v \in Version : Store(d, v)
    <3>1. CASE Add(d, id, at)
      BY <2>2, <3>1 DEF Add, Version
    <3>2. CASE SetNote(d, id, at)
      <4>1. PICK r \in rows[d] : Store(d, [r.version EXCEPT !.at = at, !.text = NextText])
        BY <3>2 DEF SetNote
      <4>2. [r.version EXCEPT !.at = at, !.text = NextText] \in Version
        BY <2>2 DEF LocalRow, Version
      <4> QED BY <4>1, <4>2
    <3>3. CASE Delete(d, id, at)
      <4>1. PICK r \in rows[d] :
              Store(d, [r.version EXCEPT !.at = at, !.text = NextText, !.deleted = TRUE])
        BY <3>3 DEF Delete
      <4>2. [r.version EXCEPT !.at = at, !.text = NextText, !.deleted = TRUE] \in Version
        BY <2>2 DEF LocalRow, Version
      <4> QED BY <4>1, <4>2
    <3> QED BY <2>1, <3>1, <3>2, <3>3
  <2>4. UNCHANGED <<storeVars, cursor, engine, requests, signOuts>>
    BY <2>1 DEF Add, SetNote, Delete
  <2> QED BY <2>3, <2>4, StoreWinners
<1> QED BY <1>1, <1>2, <1>3 DEF Reader

\* After a sign-out nothing is promised.
LEMMA SignOutWinners ==
  ASSUME AInv, WInv, NEW d \in Devices, SignOut(d)
  PROVE  WInv'
<1> USE DEF WInv
<1>1. /\ UNCHANGED <<storeVars, engine, requests>> /\ signOuts' = signOuts + 1
      /\ cursor' = [cursor EXCEPT ![d] = 0] /\ cursor \in [Devices -> Nat]
      /\ signOuts \in Nat /\ revision \in Nat
  BY DEF SignOut, AInv, AnnotationTypeOK, StoreTypeOK, CursorsKnown
<1>2. signOuts' /= 0 /\ signOuts' \in Nat
  BY <1>1
<1>3. CursorsKnown'
  <2>1. \A x \in Devices : cursor'[x] = cursor[x] \/ cursor'[x] = 0
    BY <1>1
  <2>2. \A x \in Devices : cursor'[x] <= revision
    BY <1>1, <2>1 DEF CursorsKnown
  <2> QED BY <1>1, <1>2, <2>2 DEF CursorsKnown, storeVars
<1>4. AskedFromHere' /\ AnswersTell' /\ WinnersShown'
  BY <1>2 DEF AskedFromHere, AnswersTell, WinnersShown, Owed
<1>5. RejectsFine'
  BY <1>1 DEF RejectsFine, Fine, storeVars
<1> QED BY <1>3, <1>4, <1>5

\* What Sync answers tells of every row stored: by its page the rows past the
\* cursor that was sent, by the winners it adds those before it.
LEMMA AnswerTells ==
  ASSUME StoreTypeOK, RevisionsOK, NEW changes \in SUBSET Version, OneEach(changes),
         NEW order \in Orders(Winners(changes)), NEW at \in Nat, at <= revision,
         NEW r \in Stored(changes, order), Fine(IdBook[r.version.id])
  PROVE  LET answer == AnswerTo(Stored(changes, order), at, changes)
         IN  /\ r.rev <= answer.cursor /\ r.rev > at => r.version \in answer.annotations
             /\ r.rev <= answer.cursor =>
                  \A w \in answer.annotations : w.id = r.version.id => w = r.version
             /\ r.rev <= at /\ r.version.id \in answer.accepted => r.version \in answer.annotations
<1> DEFINE table == Stored(changes, order)
           bound == revision + Cardinality(Winners(changes))
           losers == Accepted(changes) \ {v.id : v \in Winners(changes)}
           pulled == {q.version : q \in Page(table, at) \cup
                        {p \in table : p.version.id \in losers /\ Readable(p.version.id)}}
<1>1. /\ table \in SUBSET Row /\ bound \in Nat
      /\ \A q, p \in table : (q.rev = p.rev \/ q.version.id = p.version.id) => q = p
      /\ \A q \in table : q.rev <= bound
  BY StoredKeys
<1>2. Readable(r.version.id)
  BY DEF Fine, Readable
<1>3. Pulled(table, at, changes) = pulled /\ Page(table, at) \subseteq table
  BY DEF Pulled, Page, Unseen
<1>4. ASSUME r.rev <= NextCursor(table, at), r.rev > at PROVE r.version \in pulled
  <2>1. r \in table /\ r \in Unseen(table, at)
    BY <1>2, <1>4 DEF Unseen
  <2> HIDE DEF table, bound, losers
  <2>2. r \in Page(table, at)
    BY <1>1, <1>4, <2>1, PageComplete
  <2> QED BY <2>2
<1>5. ASSUME NEW w \in pulled, w.id = r.version.id PROVE w = r.version
  <2>1. PICK q \in table : w = q.version
    BY <1>3
  <2>2. q = r
    BY <1>1, <1>5, <2>1
  <2> QED BY <2>1, <2>2
<1>6. ASSUME r.rev <= at, r.version.id \in Accepted(changes) PROVE r.version \in pulled
  <2>1. \A v \in Winners(changes) : v.id /= r.version.id
    <3> SUFFICES ASSUME NEW v \in Winners(changes), v.id = r.version.id PROVE FALSE
      OBVIOUS
    <3> DEFINE new == [version |-> v, rev |-> revision + order[v]]
    <3>1. new \in table /\ new.version.id = r.version.id
      BY DEF Stored
    <3>2. new = r
      BY <1>1, <3>1
    <3>3. order[v] \in Nat /\ order[v] >= 1
      BY WinnersType DEF Orders
    <3>4. revision \in Nat /\ r.rev = revision + order[v]
      BY <3>2 DEF StoreTypeOK
    <3>5. r.rev > revision
      BY <3>3, <3>4
    <3>6. r.rev \in Nat
      BY <1>1 DEF Row
    <3> QED BY <1>6, <3>4, <3>5, <3>6
  <2>2. r.version.id \in losers
    BY <1>6, <2>1
  <2> QED BY <1>2, <2>2
<1>7. /\ AnswerTo(table, at, changes).cursor = NextCursor(table, at)
      /\ AnswerTo(table, at, changes).annotations = pulled
      /\ AnswerTo(table, at, changes).accepted = Accepted(changes)
  BY <1>3 DEF AnswerTo
<1> HIDE DEF pulled, losers
<1> QED BY <1>4, <1>5, <1>6, <1>7

\* An exchange stores its rows past every cursor there is, and its answer tells
\* of the others.
LEMMA ServeWinners ==
  ASSUME AInv, WInv, NEW m \in requests, Serve(m)
  PROVE  WInv'
<1> USE DEF AInv, WInv
<1>1. PICK order \in Orders(Winners(m.changes)) :
        /\ Sync(m.changes, order)
        /\ requests' = requests \ {m}
        /\ engine' = [e \in Engines |->
             IF e \in m.by
             THEN [engine[e] EXCEPT !.answer =
                     AnswerTo(Stored(m.changes, order), m.cursor, m.changes)]
             ELSE engine[e]]
        /\ UNCHANGED <<deviceVars, historyVars>>
  BY DEF Serve
<1> DEFINE table == Stored(m.changes, order)
           answer == AnswerTo(table, m.cursor, m.changes)
           bound == revision + Cardinality(Winners(m.changes))
<1>2. /\ m \in Message /\ OneEach(m.changes) /\ StoreTypeOK /\ RevisionsOK
      /\ m.changes \in SUBSET Version /\ m.cursor \in Nat /\ m.by \subseteq Engines
      /\ m.cursor <= revision
  BY DEF AnnotationTypeOK, CallsMatch, Message, CursorsKnown
<1>3. /\ table \in SUBSET Row /\ bound \in Nat /\ revision \in Nat /\ bound >= revision
      /\ \A r, q \in table : (r.rev = q.rev \/ r.version.id = q.version.id) => r = q
      /\ \A r \in table : r.rev <= bound
  <2>1. Cardinality(Winners(m.changes)) \in Nat
    BY <1>2, WinnersType
  <2>2. revision \in Nat
    BY <1>2 DEF StoreTypeOK
  <2>3. bound >= revision
    BY <2>1, <2>2
  <2> HIDE DEF bound, table
  <2> QED BY <1>2, <2>2, <2>3, StoredKeys DEF bound, table
<1>4. /\ annotations' = table /\ revision' = bound
      /\ UNCHANGED <<books, withheld, regranted, rows, cursor, edits, signOuts>>
  BY <1>1 DEF Sync, deviceVars, historyVars
<1>5. /\ answer.ok /\ answer.cursor = NextCursor(table, m.cursor)
      /\ answer.rejected = Rejected(m.changes)
  BY DEF AnswerTo
<1>6. \A r \in table : r \in annotations \/ r.rev > revision
  <2>1. \A v \in Winners(m.changes) : order[v] \in Nat /\ order[v] >= 1
    BY <1>2, WinnersType DEF Orders
  <2>2. \A v \in Winners(m.changes) : revision + order[v] > revision
    BY <1>3, <2>1
  <2> QED BY <2>2 DEF Stored
<1>7. answer.cursor \in Nat /\ answer.cursor <= bound
  <2> HIDE DEF table, bound
  <2>1. /\ NextCursor(table, m.cursor) \in Nat
        /\ \/ NextCursor(table, m.cursor) = m.cursor
           \/ \E p \in Page(table, m.cursor) : p.rev = NextCursor(table, m.cursor)
    BY <1>2, <1>3, NextCursorType
  <2>2. Page(table, m.cursor) \subseteq table
    BY DEF Page, Unseen
  <2>3. NextCursor(table, m.cursor) <= bound
    BY <1>2, <1>3, <2>1, <2>2
  <2> QED BY <1>5, <2>1, <2>3
<1>8. \A r \in table : r \in Row
  BY <1>3
<1>9. ASSUME NEW r \in table, Fine(IdBook[r.version.id])
      PROVE  /\ r.rev <= answer.cursor /\ r.rev > m.cursor => r.version \in answer.annotations
             /\ r.rev <= answer.cursor =>
                  \A w \in answer.annotations : w.id = r.version.id => w = r.version
             /\ r.rev <= m.cursor /\ r.version.id \in answer.accepted =>
                  r.version \in answer.annotations
  BY <1>2, <1>9, AnswerTells
<1> HIDE DEF table, bound, answer
<1>10. /\ \A x \in m.by : engine'[x] = [engine[x] EXCEPT !.answer = answer]
       /\ \A x \in Engines \ m.by : engine'[x] = engine[x]
  BY <1>1, <1>2 DEF answer, table
<1>11. ASSUME NEW x \in m.by
       PROVE  engine'[x].answer = answer /\ engine'[x].batch = m.changes
  <2>1. engine[x] \in Engine /\ m.changes = engine[x].batch
    BY <1>2 DEF AnnotationTypeOK, CallsMatch, Awaited
  <2> QED BY <1>10, <2>1 DEF Engine
<1>12. \A b : Fine(b)' <=> Fine(b)
  BY <1>4 DEF Fine
<1>13. \A x \in Engines : EngineDevice[x] \in Devices
  BY SyncAssumption DEF SyncAssumption
<1>14. \A x \in Devices : cursor[x] \in Nat /\ cursor[x] <= revision
  BY DEF AnnotationTypeOK, CursorsKnown
<1>15. CursorsKnown'
  <2>1. \A x \in Devices : cursor[x] <= bound
    BY <1>3, <1>14
  <2>2. \A n \in requests : n.cursor <= bound
    <3>1. \A n \in requests : n.cursor \in Nat /\ n.cursor <= revision
      BY DEF AnnotationTypeOK, Message, CursorsKnown
    <3> QED BY <1>3, <3>1
  <2>3. ASSUME NEW x \in Engines, engine'[x].answer.ok
        PROVE  engine'[x].answer.cursor <= bound
    <3>1. CASE x \in m.by
      BY <1>7, <1>11, <3>1
    <3>2. CASE x \notin m.by
      <4>1. engine'[x] = engine[x] /\ engine[x] \in Engine
        BY <1>10, <3>2 DEF AnnotationTypeOK
      <4>2. engine[x].answer.cursor \in Nat /\ engine[x].answer.cursor <= revision
        BY <2>3, <4>1 DEF Engine, Answer, CursorsKnown
      <4> QED BY <1>3, <4>1, <4>2
    <3> QED BY <3>1, <3>2
  <2> QED BY <1>1, <1>4, <2>1, <2>2, <2>3 DEF CursorsKnown
<1>16. AskedFromHere'
  BY <1>1, <1>4 DEF AskedFromHere, Alone
<1>17. AnswersTell'
  <2> SUFFICES ASSUME NEW x \in Engines, signOuts = 0, Alone(EngineDevice[x]),
                      engine'[x].answer.ok, NEW r \in table, Fine(IdBook[r.version.id])
               PROVE  Tells(x, r)'
    BY <1>4, <1>12 DEF AnswersTell, Alone
  <2>1. CASE x \in m.by
    <3>1. m.cursor = cursor[EngineDevice[x]]
      BY <2>1 DEF AskedFromHere
    <3> QED BY <1>4, <1>9, <1>11, <2>1, <3>1 DEF Tells
  <2>2. CASE x \notin m.by
    <3>1. engine'[x] = engine[x] /\ engine[x] \in Engine
      BY <1>10, <2>2 DEF AnnotationTypeOK
    <3>2. CASE r \in annotations
      <4>1. Tells(x, r)
        BY <3>1, <3>2 DEF AnswersTell
      <4> QED BY <1>4, <3>1, <4>1 DEF Tells
    <3>3. CASE r.rev > revision
      <4>1. /\ engine[x].answer.cursor \in Nat /\ engine[x].answer.cursor <= revision
            /\ cursor[EngineDevice[x]] \in Nat /\ cursor[EngineDevice[x]] <= revision
            /\ r.rev \in Nat
        BY <1>8, <1>13, <1>14, <3>1 DEF Engine, Answer, CursorsKnown, Row
      <4>2. ~(r.rev <= engine[x].answer.cursor) /\ ~(r.rev <= cursor[EngineDevice[x]])
        BY <1>3, <3>3, <4>1
      <4> QED BY <1>4, <3>1, <4>2 DEF Tells
    <3> QED BY <1>6, <3>2, <3>3
  <2> QED BY <2>1, <2>2
<1>18. RejectsFine'
  <2> SUFFICES ASSUME NEW x \in Engines, engine'[x].answer.ok, NEW v \in engine'[x].batch,
                      v.id \in engine'[x].answer.rejected
               PROVE  v.text \in Overlong \/ ~Fine(IdBook[v.id])
    BY <1>12 DEF RejectsFine
  <2>1. CASE x \in m.by
    <3>1. v \in m.changes /\ v.id \in Rejected(m.changes)
      BY <1>5, <1>11, <2>1
    <3>2. ~Admissible(v)
      BY <1>2, <3>1 DEF Rejected, OneEach
    <3> QED BY <3>2 DEF Admissible, Readable, Fine
  <2>2. CASE x \notin m.by
    BY <1>10, <2>2 DEF RejectsFine
  <2> QED BY <2>1, <2>2
<1>19. WinnersShown'
  <2> SUFFICES ASSUME NEW d \in Devices, NEW r \in table, Owed(d, r)'
               PROVE  Shown(rows[d], r.version)
    BY <1>4 DEF WinnersShown
  <2>1. Owed(d, r)
    BY <1>4, <1>12 DEF Owed, Alone
  <2>2. r \in annotations
    <3>1. r.rev \in Nat /\ r.rev <= cursor[d]
      BY <1>8, <2>1 DEF Row, Owed
    <3>2. ~(r.rev > revision)
      BY <1>3, <1>14, <3>1
    <3> QED BY <1>6, <3>2
  <2> QED BY <2>1, <2>2 DEF WinnersShown
<1> QED BY <1>15, <1>16, <1>17, <1>18, <1>19

\* Init and every step.
LEMMA WinnersInit == SyncInit => WInv
<1> SUFFICES ASSUME SyncInit PROVE WInv
  OBVIOUS
<1>1. ~Idle.answer.ok
  BY DEF Idle, NoAnswer
<1>2. CursorsKnown /\ RejectsFine
  BY <1>1 DEF SyncInit, StoreInit, CursorsKnown, RejectsFine
<1>3. AskedFromHere /\ AnswersTell /\ WinnersShown
  BY <1>1 DEF SyncInit, StoreInit, AskedFromHere, AnswersTell, WinnersShown
<1> QED BY <1>2, <1>3 DEF WInv

LEMMA WinnersStep == AInv /\ WInv /\ [SyncNext]_syncVars => WInv'
<1> SUFFICES ASSUME AInv, WInv, [SyncNext]_syncVars PROVE WInv'
  OBVIOUS
<1>1. CASE \E d \in Devices : Reader(d)
  BY <1>1, ReaderWinners
<1>2. CASE \E d \in Devices : SignOut(d)
  BY <1>2, SignOutWinners
<1>3. CASE \E d \in Devices : SignIn(d)
  BY <1>3, QuietWinners DEF SignIn, historyVars
<1>4. CASE \E e \in Engines : StartRun(e) \/ EngineStep(e)
  BY <1>4, EngineStepWinners, AppliedWinners DEF EngineStep
<1>5. CASE \E e \in Engines, late \in BOOLEAN : Fail(e, late)
  BY <1>5, EngineStepWinners
<1>6. CASE \E m \in requests : Serve(m)
  BY <1>6, ServeWinners
<1>7. CASE Administer
  BY <1>7, QuietWinners
<1>8. CASE UNCHANGED syncVars
  BY <1>8, QuietWinners DEF syncVars, deviceVars, historyVars
<1> QED BY <1>1, <1>2, <1>3, <1>4, <1>5, <1>6, <1>7, <1>8 DEF SyncNext

\* What a device's cursor is past it shows, or an unsent edit of its own,
\* tombstones and lost edits included: for a device with one engine, as long as
\* nobody signed out, whatever other devices, failures and administrators do.
THEOREM AnnotationShowsWinner == SyncSpec => []ShowsWinner
<1>1. SyncInit => WInv
  BY WinnersInit
<1>2. AInv /\ WInv /\ [SyncNext]_syncVars => WInv'
  BY WinnersStep
<1>3. WInv => ShowsWinner
  BY ShownIsShowsWinner DEF WInv
<1> QED BY <1>1, <1>2, <1>3, AnnotationInvariant, PTL DEF SyncSpec

=============================================================================
