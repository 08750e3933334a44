----------------------- MODULE ConsoleRequestsProofs -----------------------
(***************************************************************************)
(* Proofs about ConsoleRequests, for any requests, books, releases, pages  *)
(* and workers: types and the links to books, that a decision stands, that *)
(* done requests have content, and that what was reported as done is done  *)
(* and leaves the list.                                                    *)
(***************************************************************************)
EXTENDS ConsoleRequests, FiniteSetTheorems, TLAPS

\* A set of requests has a first one: else each would have at least one and
\* at most all others before it, and no two as many.
LEMMA FirstOf ==
  ASSUME NEW S \in SUBSET Requests, S /= {}
  PROVE  Min(S) \in S
<1>. DEFINE Below(b) == {c \in S : c < b}
            n == Cardinality(S)
<1>1. IsFiniteSet(S) /\ S \subseteq Nat /\ n \in Nat /\ n /= 0
  <2>1. IsFiniteSet(S) /\ S \subseteq Nat
    BY RequestAssumption, FS_Subset
  <2>. QED  BY <2>1, FS_CardinalityType, FS_EmptySet
<1>2. ASSUME NEW b \in S
      PROVE  IsFiniteSet(Below(b)) /\ Cardinality(Below(b)) \in 0 .. n - 1
  <2>1. IsFiniteSet(S \ {b}) /\ Cardinality(S \ {b}) = n - 1
    BY <1>1, FS_RemoveElement
  <2>2. Below(b) \in SUBSET (S \ {b})
    BY <1>1
  <2>3. IsFiniteSet(Below(b)) /\ Cardinality(Below(b)) <= n - 1
    BY <2>1, <2>2, FS_Subset
  <2>4. Cardinality(Below(b)) \in Nat
    BY <2>3, FS_CardinalityType
  <2>. QED  BY <1>1, <2>3, <2>4
<1>3. ASSUME NEW x \in S, NEW y \in S, x < y
      PROVE  Cardinality(Below(x)) /= Cardinality(Below(y))
  <2>1. Below(x) \in SUBSET Below(y) /\ x \in Below(y) /\ x \notin Below(x)
    <3>1. x \in Nat /\ y \in Nat /\ \A c \in S : c \in Nat
      BY <1>1
    <3>2. ASSUME NEW c \in S, c < x
          PROVE  c < y
      BY <1>3, <3>1, <3>2
    <3>3. Below(x) \subseteq Below(y)
      BY <3>2
    <3>4. ~(x < x)
      BY <3>1
    <3>. QED  BY <1>3, <3>3, <3>4
  <2>2. IsFiniteSet(Below(y))
    BY <1>2
  <2>. HIDE DEF Below
  <2>3. Cardinality(Below(y)) = Cardinality(Below(x)) => Below(y) = Below(x)
    BY <2>1, <2>2, FS_Subset
  <2>. QED  BY <2>1, <2>3
<1>4. \E x \in S : \A y \in S : x <= y
  <2>. SUFFICES ASSUME \A x \in S : \E y \in S : y < x
       PROVE  FALSE
    BY <1>1
  <2>. DEFINE f == [b \in S |-> Cardinality(Below(b))]
  <2>1. ASSUME NEW b \in S
        PROVE  Cardinality(Below(b)) /= 0
    <3>1. Below(b) /= {}
      OBVIOUS
    <3>. QED  BY <1>2, <3>1, FS_EmptySet
  <2>2. f \in [S -> 1 .. n - 1]
    <3>. HIDE DEF Below, n
    <3>1. \A b \in S : Cardinality(Below(b)) \in 1 .. n - 1
      BY <1>1, <1>2, <2>1
    <3>. QED  BY <3>1
  <2>3. IsFiniteSet(1 .. n - 1) /\ Cardinality(1 .. n - 1) < n
    <3>1. n - 1 \in Int /\ 1 \in Int
      BY <1>1
    <3>. HIDE DEF n
    <3>2. IsFiniteSet(1 .. n - 1) /\ Cardinality(1 .. n - 1) = IF 1 > n - 1 THEN 0 ELSE n - 1 - 1 + 1
      BY <3>1, FS_Interval
    <3>. QED  BY <1>1, <3>1, <3>2
  <2>. HIDE DEF f
  <2>4. PICK x \in S, y \in S : x /= y /\ f[x] = f[y]
    <3>. DEFINE T == 1 .. n - 1
    <3>1. IsFiniteSet(T) /\ Cardinality(T) < Cardinality(S) /\ f \in [S -> T]
      BY <2>2, <2>3
    <3>. HIDE DEF T, Below, n
    <3>. QED  BY <1>1, <3>1, FS_PigeonHole
  <2>5. Cardinality(Below(x)) = Cardinality(Below(y))
    BY <2>4 DEF f
  <2>6. x < y \/ y < x
    <3>1. x \in Nat /\ y \in Nat /\ x /= y
      BY <1>1, <2>4
    <3>. QED  BY <3>1
  <2>. HIDE DEF Below
  <2>. QED  BY <1>3, <2>5, <2>6
<1>. QED  BY <1>4 DEF Min
-----------------------------------------------------------------------------
Busy == {"sent", "checked", "done"}

\* A request as a worker with book b leaves it.
Settled(w, b, r) ==
  /\ status[r] = IF Declines(w) THEN "declined" ELSE "fulfilled"
  /\ linked[r] \in {b, None}

\* What a worker has gone through of its group is settled; x is its work.
WorkOK(w, x) ==
  /\ w \in Lists => x.book = None
  /\ w \in Sheets /\ x.phase /= "idle" => x.group /= {}
  /\ x.phase = "confirm" => x.todo = x.group /\ x.group /= {}
  /\ x.phase \in Busy => x.todo /= {} /\ x.todo \subseteq x.group
                         /\ \A r \in x.group \ x.todo : Settled(w, x.book, r)
  /\ x.phase = "done" => Settled(w, x.book, Min(x.todo))
  /\ x.phase = "uploading" => x.book \in Books
  /\ x.phase \in {"polling", "importing"} => x.release \in Releases

WorkersOK == \A w \in Workers : WorkOK(w, work[w])

\* No answer that a page will take in lists what it has reported as done.
Forgets ==
  \A a \in announced : a.by \notin Followers =>
    /\ fetch[PageOf[a.by]].phase = "idle" => a.request \notin listed[PageOf[a.by]]
    /\ fetch[PageOf[a.by]].phase = "answered" => a.request \notin fetch[PageOf[a.by]].got

RequestInv == RequestTypeOK /\ WorkersOK /\ AnnouncedIsDone /\ Forgets

\* A decision stands; a link to a book goes with the book.
Kept ==
  \A r \in Requests : status[r] \in {"fulfilled", "declined"} =>
    status'[r] = status[r] /\ linked'[r] \in {linked[r], None}

\* The step of DoneHasContent.
Content ==
  \A r \in Requests : status'[r] = "fulfilled" /\ status[r] /= "fulfilled" =>
    linked'[r] \in books' /\ r \notin barred

\* Where no decision is made.
LEMMA Quiet ==
  ASSUME UNCHANGED <<status, linked>>
  PROVE  Kept /\ Content
BY DEF Kept, Content

\* What was settled stays settled.
LEMMA WorkKept ==
  ASSUME Kept, NEW w \in Workers, NEW x \in Work, WorkOK(w, x)
  PROVE  WorkOK(w, x)'
<1>1. ASSUME NEW r \in Requests, Settled(w, x.book, r)
      PROVE  Settled(w, x.book, r)'
  BY <1>1 DEF Kept, Settled, Declines
<1>2. x.group \subseteq Requests /\ x.todo \subseteq Requests
  BY DEF Work
<1>3. x.phase = "done" => Min(x.todo) \in Requests
  BY <1>2, FirstOf DEF WorkOK, Busy
<1>. QED  BY <1>1, <1>2, <1>3 DEF WorkOK

\* A step of one worker.
LEMMA OneWorker ==
  ASSUME RequestTypeOK, WorkersOK, Kept, NEW w \in Workers, NEW x \in Work,
         work' = [work EXCEPT ![w] = x], WorkOK(w, x)'
  PROVE  work' \in [Workers -> Work] /\ WorkersOK'
<1>1. work \in [Workers -> Work]
  BY DEF RequestTypeOK
<1>2. ASSUME NEW v \in Workers, NEW z \in Work, work'[v] = z, WorkOK(v, z)'
      PROVE  WorkOK(v, work[v])'
  BY <1>2 DEF WorkOK, Settled
<1>3. ASSUME NEW v \in Workers
      PROVE  WorkOK(v, work[v])'
  <2>1. CASE v = w
    BY <1>1, <1>2, <2>1
  <2>2. CASE v /= w
    <3>1. PICK z \in Work : z = work[v]
      BY <1>1
    <3>2. WorkOK(v, z) /\ work'[v] = z
      BY <1>1, <2>2, <3>1 DEF WorkersOK
    <3>3. WorkOK(v, z)'
      BY <3>2, WorkKept
    <3>. QED  BY <1>2, <3>2, <3>3
  <2>. QED  BY <2>1, <2>2
<1>. QED  BY <1>1, <1>3 DEF WorkersOK
\* Where the workers, the requests and the announcements stay, so does what
\* is said of them.
LEMMA AnnouncedKept ==
  ASSUME RequestTypeOK, AnnouncedIsDone, Kept, announced' = announced
  PROVE  AnnouncedIsDone'
<1>. SUFFICES ASSUME NEW a \in announced
     PROVE  /\ status'[a.request] = IF Declines(a.by) THEN "declined" ELSE "fulfilled"
            /\ linked'[a.request] \in {a.book, None}
  BY DEF AnnouncedIsDone, Declines
<1>1. a.request \in Requests
  BY DEF RequestTypeOK
<1>2. /\ status[a.request] = IF Declines(a.by) THEN "declined" ELSE "fulfilled"
      /\ linked[a.request] \in {a.book, None}
  BY DEF AnnouncedIsDone
<1>. QED  BY <1>1, <1>2 DEF Kept, Declines

\* A worker's own step.
LEMMA WorkStep ==
  ASSUME RequestInv, NEW w \in Workers, NEW x \in Work, WorkOK(w, x), Do(w, x),
         UNCHANGED <<serverVars, pageVars, historyVars>>
  PROVE  RequestInv' /\ Kept /\ Content
<1>0. UNCHANGED <<status, linked, books, barred, downloads, listed, fetch, announced, refreshes>>
  BY DEF serverVars, pageVars, historyVars
<1>1. Kept /\ Content
  BY <1>0, Quiet
<1>2. WorkOK(w, x)' /\ work' = [work EXCEPT ![w] = x]
  BY <1>1, WorkKept DEF Do
<1>3. work' \in [Workers -> Work] /\ WorkersOK'
  BY <1>1, <1>2, OneWorker DEF RequestInv
<1>4. RequestTypeOK'
  BY <1>0, <1>3 DEF RequestInv, RequestTypeOK
<1>5. AnnouncedIsDone'
  BY <1>0, <1>1, AnnouncedKept DEF RequestInv
<1>6. Forgets'
  BY <1>0 DEF RequestInv, Forgets
<1>. QED  BY <1>1, <1>3, <1>4, <1>5, <1>6 DEF RequestInv

\* A step of the requests alone: the workers stay at what they do.
LEMMA ServerStays ==
  ASSUME RequestInv, Kept, RequestTypeOK', UNCHANGED <<work, fetch, listed, announced>>
  PROVE  RequestInv'
<1>1. ASSUME NEW v \in Workers
      PROVE  WorkOK(v, work[v])'
  <2>1. PICK z \in Work : z = work[v]
    BY DEF RequestInv, RequestTypeOK
  <2>2. WorkOK(v, z)'
    BY <2>1, WorkKept DEF RequestInv, WorkersOK
  <2>3. work'[v] = z
    BY <2>1
  <2>. QED  BY <2>2, <2>3 DEF WorkOK, Settled
<1>2. AnnouncedIsDone'
  BY AnnouncedKept DEF RequestInv
<1>3. Forgets'
  BY DEF RequestInv, Forgets
<1>. QED  BY <1>1, <1>2, <1>3 DEF RequestInv, WorkersOK

\* The list of a page: what has been announced is no longer open, so a list
\* read now lacks it.
LEMMA ListStep ==
  ASSUME RequestInv, NEW p \in Pages, Refresh(p) \/ ListOpen(p) \/ Fetched(p) \/ FetchFails(p)
  PROVE  RequestInv' /\ Kept /\ Content
<1>0. UNCHANGED <<status, linked, books, barred, downloads, work, announced>>
  BY DEF Refresh, ListOpen, Fetched, FetchFails, serverVars, historyVars
<1>1. Kept /\ Content
  BY <1>0, Quiet
<1>2. fetch \in [Pages -> Fetch] /\ listed \in [Pages -> SUBSET Requests] /\ refreshes \in Nat
  BY DEF RequestInv, RequestTypeOK
<1>3. fetch' \in [Pages -> Fetch] /\ listed' \in [Pages -> SUBSET Requests] /\ refreshes' \in Nat
  <2>1. NoFetch \in Fetch /\ [phase |-> "asked", got |-> {}] \in Fetch
        /\ [phase |-> "answered", got |-> {r \in Requests : IsOpen(r)}] \in Fetch
    BY DEF NoFetch, Fetch
  <2>2. CASE Refresh(p)
    BY <1>2, <2>1, <2>2 DEF Refresh, Invalidated
  <2>3. CASE ListOpen(p)
    <3>. DEFINE x == [phase |-> "answered", got |-> {r \in Requests : IsOpen(r)}]
    <3>1. fetch' = [fetch EXCEPT ![p] = x] /\ listed' = listed /\ refreshes' = refreshes
      BY <2>3 DEF ListOpen, historyVars
    <3>. HIDE DEF x
    <3>2. x \in Fetch
      BY <2>1 DEF x
    <3>. QED  BY <1>2, <3>1, <3>2
  <2>4. CASE Fetched(p)
    <3>1. fetch[p].got \in SUBSET Requests
      BY <1>2 DEF Fetch
    <3>. QED  BY <1>2, <2>1, <2>4, <3>1 DEF Fetched, historyVars
  <2>5. CASE FetchFails(p)
    BY <1>2, <2>1, <2>5 DEF FetchFails, historyVars
  <2>. QED  BY <2>2, <2>3, <2>4, <2>5
<1>4. RequestTypeOK'
  BY <1>0, <1>3 DEF RequestInv, RequestTypeOK
<1>5. WorkersOK' /\ AnnouncedIsDone'
  BY <1>0, <1>1, AnnouncedKept DEF RequestInv, WorkersOK, WorkOK, Settled
<1>6. ASSUME NEW a \in announced, a.by \notin Followers
      PROVE  /\ fetch'[PageOf[a.by]].phase = "idle" => a.request \notin listed'[PageOf[a.by]]
             /\ fetch'[PageOf[a.by]].phase = "answered" => a.request \notin fetch'[PageOf[a.by]].got
  <2>. DEFINE q == PageOf[a.by]
  <2>1. q \in Pages /\ a.request \in Requests
    BY <1>6, RequestAssumption DEF RequestInv, RequestTypeOK, Workers
  <2>2. /\ fetch[q].phase = "idle" => a.request \notin listed[q]
        /\ fetch[q].phase = "answered" => a.request \notin fetch[q].got
    BY <1>6 DEF RequestInv, Forgets
  <2>3. ~IsOpen(a.request)
    BY DEF RequestInv, AnnouncedIsDone, IsOpen
  <2>. HIDE DEF q
  <2>4. CASE q /= p
    <3>1. fetch'[q] = fetch[q] /\ listed'[q] = listed[q]
      BY <1>2, <2>1, <2>4 DEF Refresh, ListOpen, Fetched, FetchFails
    <3>. QED  BY <2>2, <3>1 DEF q
  <2>5. CASE q = p
    <3>1. CASE Refresh(p)
      <4>1. fetch'[p] = [phase |-> "asked", got |-> {}]
        BY <1>2, <3>1 DEF Refresh, Invalidated
      <4>. QED  BY <2>5, <4>1 DEF q
    <3>2. CASE ListOpen(p)
      <4>1. fetch'[p] = [phase |-> "answered", got |-> {r \in Requests : IsOpen(r)}]
        BY <1>2, <3>2 DEF ListOpen
      <4>. QED  BY <2>3, <2>5, <4>1 DEF q
    <3>3. CASE Fetched(p)
      <4>1. fetch'[p] = NoFetch /\ listed'[p] = fetch[p].got /\ fetch[p].phase = "answered"
        BY <1>2, <3>3 DEF Fetched
      <4>. QED  BY <2>2, <2>5, <4>1 DEF q, NoFetch
    <3>4. CASE FetchFails(p)
      <4>1. fetch'[p] = NoFetch /\ listed'[p] = {}
        BY <1>2, <3>4 DEF FetchFails
      <4>. QED  BY <2>5, <4>1 DEF q, NoFetch
    <3>. QED  BY <3>1, <3>2, <3>3, <3>4
  <2>. QED  BY <2>4, <2>5
<1>7. Forgets'
  BY <1>0, <1>6 DEF Forgets
<1>. QED  BY <1>1, <1>4, <1>5, <1>7 DEF RequestInv
\* What a worker may come to be doing.
LEMMA WorkForms ==
  ASSUME NEW x \in Work, NEW g \in SUBSET Requests, NEW b \in Books \cup {None},
         NEW phase \in {"idle", "confirm", "open", "uploading", "polling", "importing",
                        "sent", "checked", "done", "failed"}
  PROVE  /\ Idle \in Work
         /\ [x EXCEPT !.phase = phase] \in Work
         /\ [x EXCEPT !.phase = phase, !.book = b] \in Work
         /\ [x EXCEPT !.phase = phase, !.todo = g] \in Work
         /\ [x EXCEPT !.phase = phase, !.group = g, !.todo = g] \in Work
         /\ [x EXCEPT !.phase = phase, !.book = b, !.todo = g] \in Work
         /\ [x EXCEPT !.phase = phase, !.book = b, !.group = g, !.todo = g] \in Work
<1>1. Idle \in Work
  BY DEF Idle, Work
<1>2. [x EXCEPT !.phase = phase] \in Work /\ [x EXCEPT !.phase = phase, !.book = b] \in Work
  BY DEF Work
<1>3. [x EXCEPT !.phase = phase, !.todo = g] \in Work /\ [x EXCEPT !.phase = phase, !.group = g, !.todo = g] \in Work
  BY DEF Work
<1>4. /\ [x EXCEPT !.phase = phase, !.book = b, !.todo = g] \in Work
      /\ [x EXCEPT !.phase = phase, !.book = b, !.group = g, !.todo = g] \in Work
  BY DEF Work
<1>. QED  BY <1>1, <1>2, <1>3, <1>4

\* A worker that does nothing has nothing to answer for.
LEMMA IdleOK == Idle \in Work /\ \A w \in Workers : WorkOK(w, Idle)
BY DEF Idle, Work, WorkOK, Busy

\* A worker takes up a group, or goes on to the next call of it.
LEMMA PageWork ==
  ASSUME RequestInv,
         \/ \E w \in Lists, k \in Keys : AskDecline(w, k)
         \/ \E w \in Lists : Confirm(w)
         \/ \E w \in Sheets : CloseSheet(w) \/ \E k \in Keys : OpenSheet(w, k)
         \/ \E w \in Sheets, b \in Books : UseBook(w, b) \/ Upload(w, b)
         \/ \E w \in Followers : Complete(w)
         \/ \E w \in Workers : BookExists(w) \/ Lose(w) \/ CallFailed(w)
  PROVE  RequestInv' /\ Kept /\ Content
<1>. USE RequestAssumption DEF Workers
<1>0. /\ work \in [Workers -> Work] /\ \A w \in Workers : WorkOK(w, work[w])
      /\ listed \in [Pages -> SUBSET Requests]
  BY DEF RequestInv, RequestTypeOK, WorkersOK
<1>1. ASSUME NEW w \in Lists, NEW k \in Keys, AskDecline(w, k)
      PROVE  RequestInv' /\ Kept /\ Content
  <2>. DEFINE g == Group(PageOf[w], k)
              x == [Idle EXCEPT !.phase = "confirm", !.group = g, !.todo = g]
  <2>1. g \in SUBSET Requests /\ g /= {} /\ Do(w, x) /\ UNCHANGED <<serverVars, pageVars, historyVars>>
    BY <1>0, <1>1 DEF AskDecline, Group
  <2>. HIDE DEF g
  <2>2. x \in Work /\ WorkOK(w, x)
    BY <2>1, WorkForms, IdleOK DEF Idle, WorkOK, Busy
  <2>. HIDE DEF x
  <2>. QED  BY <2>1, <2>2, WorkStep
<1>2. ASSUME NEW w \in Lists, Confirm(w)
      PROVE  RequestInv' /\ Kept /\ Content
  <2>. DEFINE x == [work[w] EXCEPT !.phase = "sent"]
  <2>1. UNCHANGED <<serverVars, pageVars, historyVars>> /\ (Do(w, x) \/ Do(w, Idle))
    BY <1>2 DEF Confirm
  <2>2. x \in Work /\ WorkOK(w, x)
    <3>1. PICK z \in Work : z = work[w]
      BY <1>0
    <3>2. WorkOK(w, z) /\ z.phase = "confirm"
      BY <1>0, <1>2, <3>1 DEF Confirm
    <3>3. [z EXCEPT !.phase = "sent"] \in Work /\ WorkOK(w, [z EXCEPT !.phase = "sent"])
      BY <3>2 DEF Work, WorkOK, Busy
    <3>. QED  BY <3>1, <3>3
  <2>. HIDE DEF x
  <2>. QED  BY <2>1, <2>2, IdleOK, WorkStep
<1>3. ASSUME NEW w \in Sheets, NEW k \in Keys, OpenSheet(w, k)
      PROVE  RequestInv' /\ Kept /\ Content
  <2>. DEFINE g == Group(PageOf[w], k)
              x == [Idle EXCEPT !.phase = "open", !.group = g, !.todo = g]
  <2>1. g \in SUBSET Requests /\ g /= {} /\ Do(w, x) /\ UNCHANGED <<serverVars, pageVars, historyVars>>
    BY <1>0, <1>3 DEF OpenSheet, Group
  <2>. HIDE DEF g
  <2>2. x \in Work /\ WorkOK(w, x)
    BY <2>1, WorkForms, IdleOK DEF Idle, WorkOK, Busy
  <2>. HIDE DEF x
  <2>. QED  BY <2>1, <2>2, WorkStep
<1>4. ASSUME NEW w \in Sheets, CloseSheet(w)
      PROVE  RequestInv' /\ Kept /\ Content
  <2>1. Do(w, Idle) /\ UNCHANGED <<serverVars, pageVars, historyVars>>
    BY <1>4 DEF CloseSheet
  <2>. QED  BY <2>1, IdleOK, WorkStep
<1>5. ASSUME NEW w \in Sheets, NEW b \in Books, UseBook(w, b)
      PROVE  RequestInv' /\ Kept /\ Content
  <2>1. PICK z \in Work : z = work[w]
    BY <1>0
  <2>. DEFINE x == [z EXCEPT !.phase = "sent", !.book = b, !.todo = z.group]
  <2>2. WorkOK(w, z) /\ z.phase = "open" /\ Do(w, x) /\ UNCHANGED <<serverVars, pageVars, historyVars>>
    BY <1>0, <1>5, <2>1 DEF UseBook
  <2>3. x \in Work /\ x.phase = "sent" /\ x.todo = z.group /\ x.group = z.group
    BY DEF Work
  <2>4. z.group /= {} /\ w \notin Lists
    BY <2>2 DEF WorkOK
  <2>. HIDE DEF x
  <2>5. WorkOK(w, x)
    BY <2>3, <2>4 DEF WorkOK, Busy
  <2>. QED  BY <2>2, <2>3, <2>5, WorkStep
<1>6. ASSUME NEW w \in Sheets, NEW b \in Books, Upload(w, b)
      PROVE  RequestInv' /\ Kept /\ Content
  <2>1. PICK z \in Work : z = work[w]
    BY <1>0
  <2>. DEFINE x == [z EXCEPT !.phase = "uploading", !.book = b]
  <2>2. WorkOK(w, z) /\ z.phase = "open" /\ Do(w, x) /\ UNCHANGED <<serverVars, pageVars, historyVars>>
    BY <1>0, <1>6, <2>1 DEF Upload
  <2>3. x \in Work /\ x.phase = "uploading" /\ x.group = z.group /\ x.book = b
    BY DEF Work
  <2>4. z.group /= {} /\ w \notin Lists
    BY <2>2 DEF WorkOK
  <2>. HIDE DEF x
  <2>5. WorkOK(w, x)
    BY <2>3, <2>4 DEF WorkOK, Busy
  <2>. QED  BY <2>2, <2>3, <2>5, WorkStep
<1>7. ASSUME NEW w \in Followers, Complete(w)
      PROVE  RequestInv' /\ Kept /\ Content
  <2>1. PICK z \in Work : z = work[w]
    BY <1>0
  <2>. DEFINE x == [z EXCEPT !.phase = "importing"]
  <2>2. WorkOK(w, z) /\ z.phase = "polling" /\ Do(w, x) /\ UNCHANGED <<serverVars, pageVars, historyVars>>
    BY <1>0, <1>7, <2>1 DEF Complete
  <2>3. x \in Work /\ x.phase = "importing" /\ x.release = z.release /\ w \notin Lists /\ w \notin Sheets
    BY DEF Work
  <2>. HIDE DEF x
  <2>4. WorkOK(w, x)
    BY <2>2, <2>3 DEF WorkOK, Busy
  <2>. QED  BY <2>2, <2>3, <2>4, WorkStep
<1>8. ASSUME NEW w \in Workers, BookExists(w)
      PROVE  RequestInv' /\ Kept /\ Content
  <2>1. PICK z \in Work : z = work[w]
    BY <1>0
  <2>2. PICK phase \in {"checked", "failed"} :
          Do(w, [z EXCEPT !.phase = phase]) /\ UNCHANGED <<serverVars, pageVars, historyVars>>
    BY <1>8, <2>1 DEF BookExists
  <2>. DEFINE x == [z EXCEPT !.phase = phase]
  <2>3. WorkOK(w, z) /\ z.phase = "sent"
    BY <1>0, <1>8, <2>1 DEF BookExists
  <2>4. x \in Work /\ x.phase = phase /\ x.todo = z.todo /\ x.group = z.group /\ x.book = z.book
    BY DEF Work
  <2>5. Do(w, x)
    BY <2>2
  <2>. HIDE DEF x
  <2>6. WorkOK(w, x)
    BY <2>3, <2>4 DEF WorkOK, Busy
  <2>. QED  BY <2>2, <2>4, <2>5, <2>6, WorkStep
<1>9. ASSUME NEW w \in Workers, Lose(w)
      PROVE  RequestInv' /\ Kept /\ Content
  <2>1. PICK z \in Work : z = work[w]
    BY <1>0
  <2>. DEFINE x == [z EXCEPT !.phase = "failed"]
  <2>2. WorkOK(w, z) /\ z.phase \in Busy /\ Do(w, x) /\ UNCHANGED <<serverVars, pageVars, historyVars>>
    BY <1>0, <1>9, <2>1 DEF Lose, Busy
  <2>3. x \in Work /\ x.phase = "failed" /\ x.group = z.group /\ x.book = z.book
    BY DEF Work
  <2>. HIDE DEF x
  <2>4. WorkOK(w, x)
    BY <2>2, <2>3 DEF WorkOK, Busy
  <2>. QED  BY <2>2, <2>3, <2>4, WorkStep
<1>10. ASSUME NEW w \in Workers, CallFailed(w)
       PROVE  RequestInv' /\ Kept /\ Content
  <2>1. PICK z \in Work : z = work[w]
    BY <1>0
  <2>. DEFINE x == [z EXCEPT !.phase = "open", !.book = None]
  <2>2. UNCHANGED <<serverVars, pageVars, historyVars>> /\ Do(w, IF w \in Sheets THEN x ELSE Idle)
    BY <1>10, <2>1 DEF CallFailed, Failed, historyVars
  <2>3. CASE w \in Sheets
    <3>1. WorkOK(w, z) /\ z.phase = "failed" /\ Do(w, x)
      BY <1>0, <1>10, <2>1, <2>2, <2>3 DEF CallFailed
    <3>2. x \in Work /\ x.phase = "open" /\ x.group = z.group /\ x.book = None
      BY DEF Work
    <3>. HIDE DEF x
    <3>3. WorkOK(w, x)
      BY <3>1, <3>2 DEF WorkOK, Busy
    <3>. QED  BY <2>2, <3>1, <3>2, <3>3, WorkStep
  <2>4. CASE w \notin Sheets
    BY <2>2, <2>4, IdleOK, WorkStep
  <2>. QED  BY <2>3, <2>4
<1>. QED  BY <1>1, <1>2, <1>3, <1>4, <1>5, <1>6, <1>7, <1>8, <1>9, <1>10
\* The requests themselves.
LEMMA ServerWork ==
  ASSUME RequestInv,
         \/ \E r \in Requests : Create(r) \/ Cancel(r) \/ LoseAccess(r)
         \/ \E b \in Books : DeleteBook(b)
  PROVE  RequestInv' /\ Kept /\ Content
<1>. USE RequestAssumption
<1>0. /\ RequestTypeOK /\ status \in [Requests -> Statuses] /\ linked \in [Requests -> Books \cup {None}]
      /\ books \subseteq Books /\ barred \subseteq Requests
      /\ \A r \in Requests : linked[r] /= None => status[r] = "fulfilled" /\ linked[r] \in books
  BY DEF RequestInv, RequestTypeOK
<1>1. ASSUME NEW r \in Requests, NEW s \in {"open", "cancelled"}, status[r] \in {"none", "open"},
             status' = [status EXCEPT ![r] = s],
             UNCHANGED <<linked, books, barred, downloads, pageVars, work, historyVars>>
      PROVE  RequestInv' /\ Kept /\ Content
  <2>1. /\ status' \in [Requests -> Statuses] /\ linked' = linked /\ books' = books
        /\ \A q \in Requests : status'[q] = IF q = r THEN s ELSE status[q]
    BY <1>0, <1>1 DEF Statuses
  <2>2. RequestTypeOK'
    <3>1. \A q \in Requests : linked'[q] /= None => status'[q] = "fulfilled" /\ linked'[q] \in books'
      BY <1>0, <1>1, <2>1
    <3>. QED  BY <1>1, <2>1, <3>1 DEF RequestInv, RequestTypeOK, pageVars, historyVars
  <2>3. Kept /\ Content
    BY <1>0, <1>1, <2>1 DEF Kept, Content
  <2>. QED  BY <1>1, <2>2, <2>3, ServerStays DEF pageVars, historyVars
<1>2. ASSUME NEW r \in Requests, LoseAccess(r)
      PROVE  RequestInv' /\ Kept /\ Content
  <2>1. /\ UNCHANGED <<status, linked, books, downloads, work, fetch, listed, announced, refreshes>>
        /\ barred' = barred \cup {r}
    BY <1>2 DEF LoseAccess, pageVars, historyVars
  <2>2. Kept /\ Content
    BY <2>1, Quiet
  <2>3. RequestTypeOK'
    BY <1>0, <2>1 DEF RequestTypeOK
  <2>. QED  BY <2>1, <2>2, <2>3, ServerStays
<1>3. ASSUME NEW b \in Books, DeleteBook(b)
      PROVE  RequestInv' /\ Kept /\ Content
  <2>1. /\ UNCHANGED <<status, barred, downloads, work, fetch, listed, announced, refreshes>>
        /\ books' = books \ {b} /\ linked' = [r \in Requests |-> IF linked[r] = b THEN None ELSE linked[r]]
    BY <1>3 DEF DeleteBook, pageVars, historyVars
  <2>2. linked' \in [Requests -> Books \cup {None}] /\ books' \subseteq Books
    BY <1>0, <2>1
  <2>3. \A r \in Requests : linked'[r] /= None => status'[r] = "fulfilled" /\ linked'[r] \in books'
    BY <1>0, <2>1
  <2>4. RequestTypeOK'
    BY <1>0, <2>1, <2>2, <2>3 DEF RequestTypeOK
  <2>5. Kept /\ Content
    BY <2>1 DEF Kept, Content
  <2>. QED  BY <2>1, <2>4, <2>5, ServerStays
<1>. QED  BY <1>1, <1>2, <1>3 DEF Create, Cancel, IsOpen

\* A call that resolves a request, or finds that it may not.
LEMMA ResolveStep ==
  ASSUME RequestInv, NEW w \in Workers, Resolve(w)
  PROVE  RequestInv' /\ Kept /\ Content
<1>. USE RequestAssumption
<1>0. /\ RequestTypeOK /\ status \in [Requests -> Statuses] /\ linked \in [Requests -> Books \cup {None}]
      /\ books \subseteq Books
      /\ \A r \in Requests : linked[r] /= None => status[r] = "fulfilled" /\ linked[r] \in books
  BY DEF RequestInv, RequestTypeOK
<1>1. PICK z \in Work : z = work[w]
  BY DEF RequestInv, RequestTypeOK
<1>2. WorkOK(w, z) /\ z.phase \in Busy
  BY <1>1 DEF RequestInv, WorkersOK, Resolve, Busy
<1>. DEFINE r == Min(z.todo)
            done == [z EXCEPT !.phase = "done"]
            failed == [z EXCEPT !.phase = "failed"]
<1>3. r \in z.todo /\ r \in Requests /\ r = Next1(w)
  BY <1>1, <1>2, FirstOf DEF WorkOK, Work, Next1
<1>4. /\ done \in Work /\ done.phase = "done" /\ done.todo = z.todo /\ done.group = z.group /\ done.book = z.book
      /\ failed \in Work /\ failed.phase = "failed" /\ failed.group = z.group /\ failed.book = z.book
  BY DEF Work
<1>5. UNCHANGED <<books, barred, downloads, listed, fetch, announced, refreshes>>
  BY DEF Resolve, pageVars, historyVars
<1>6. CASE ~MayResolve(w, r)
  <2>1. Do(w, failed) /\ UNCHANGED <<status, linked>>
    BY <1>1, <1>3, <1>6 DEF Resolve
  <2>. HIDE DEF failed
  <2>2. WorkOK(w, failed)
    BY <1>2, <1>4 DEF WorkOK, Busy
  <2>. QED  BY <1>4, <1>5, <2>1, <2>2, WorkStep DEF serverVars, pageVars, historyVars
<1>7. CASE MayResolve(w, r)
  <2>. DEFINE s == IF Declines(w) THEN "declined" ELSE "fulfilled"
  <2>1. /\ status' = [status EXCEPT ![r] = s] /\ linked' = [linked EXCEPT ![r] = z.book]
        /\ work' = [work EXCEPT ![w] = done]
    BY <1>1, <1>3, <1>7 DEF Resolve, Do
  <2>. HIDE DEF done, r, s
  <2>2. s \in Statuses /\ z.book \in Books \cup {None} /\ s \notin {"none", "open"}
    BY DEF s, Statuses, Work
  <2>3. /\ status' \in [Requests -> Statuses] /\ linked' \in [Requests -> Books \cup {None}]
        /\ \A q \in Requests : /\ status'[q] = IF q = r THEN s ELSE status[q]
                               /\ linked'[q] = IF q = r THEN z.book ELSE linked[q]
    BY <1>0, <1>3, <2>1, <2>2
  <2>4. status[r] = "open"
    BY <1>7 DEF MayResolve, IsOpen
  <2>5. s = "fulfilled" => z.book \in books /\ r \notin barred
    BY <1>1, <1>7 DEF MayResolve, s
  <2>6. s = "declined" => z.book = None
    BY <1>2 DEF s, WorkOK, Declines
  <2>7. s \in {"declined", "fulfilled"}
    BY DEF s
  <2>8. Kept
    BY <2>3, <2>4 DEF Kept
  <2>9. Content
    BY <1>5, <2>3, <2>5 DEF Content
  <2>10. Settled(w, z.book, r)'
    <3>1. status'[r] = s /\ linked'[r] = z.book
      BY <1>3, <2>3
    <3>. QED  BY <3>1 DEF Settled, s, Declines
  <2>11. WorkOK(w, done)'
    <3>1. \A q \in z.group \ z.todo : Settled(w, z.book, q)'
      <4>1. WorkOK(w, z)'
        BY <1>2, <2>8, WorkKept
      <4>. QED  BY <1>2, <4>1 DEF WorkOK
    <3>2. /\ w \in Lists => z.book = None
          /\ w \in Sheets => z.group /= {}
          /\ z.todo /= {} /\ z.todo \subseteq z.group
      BY <1>2 DEF WorkOK, Busy
    <3>. QED  BY <1>4, <2>10, <3>1, <3>2 DEF WorkOK, r
  <2>12. work' \in [Workers -> Work] /\ WorkersOK'
    BY <1>4, <1>0, <2>1, <2>8, <2>11, OneWorker DEF RequestInv
  <2>13. RequestTypeOK'
    <3>1. \A q \in Requests : linked'[q] /= None => status'[q] = "fulfilled" /\ linked'[q] \in books'
      BY <1>0, <1>5, <2>3, <2>5, <2>6, <2>7
    <3>. QED  BY <1>0, <1>5, <2>3, <2>12, <3>1 DEF RequestTypeOK
  <2>14. AnnouncedIsDone' /\ Forgets'
    BY <1>5, <2>8, AnnouncedKept DEF RequestInv, Forgets
  <2>. QED  BY <2>8, <2>9, <2>12, <2>13, <2>14 DEF RequestInv
<1>. QED  BY <1>6, <1>7

\* The answer to a call that resolved a request.
LEMMA CallDoneStep ==
  ASSUME RequestInv, NEW w \in Workers, CallDone(w)
  PROVE  RequestInv' /\ Kept /\ Content
<1>. USE RequestAssumption
<1>0. UNCHANGED <<status, linked, books, barred, downloads, listed, refreshes>>
  BY DEF CallDone, serverVars
<1>1. Kept /\ Content
  BY <1>0, Quiet
<1>2. PICK z \in Work : z = work[w]
  BY DEF RequestInv, RequestTypeOK
<1>3. WorkOK(w, z) /\ z.phase = "done"
  BY <1>2 DEF RequestInv, WorkersOK, CallDone
<1>. DEFINE r == Min(z.todo)
            rest == z.todo \ {r}
            next == [z EXCEPT !.phase = "sent", !.todo = rest]
<1>4. /\ r \in z.todo /\ r = Next1(w) /\ z.todo \subseteq z.group /\ z.group \subseteq Requests
      /\ \A q \in z.group \ rest : Settled(w, z.book, q)
  <2>1. z.todo \in SUBSET Requests /\ z.todo /= {} /\ z.todo \subseteq z.group /\ z.group \subseteq Requests
    BY <1>3 DEF WorkOK, Busy, Work
  <2>2. r \in z.todo /\ r = Next1(w)
    BY <1>2, <2>1, FirstOf DEF Next1
  <2>. QED  BY <1>3, <2>1, <2>2 DEF WorkOK, Busy
<1>5. next \in Work /\ next.phase = "sent" /\ next.todo = rest /\ next.group = z.group /\ next.book = z.book
  BY <1>4 DEF Work
<1>6. \/ rest = {} /\ Do(w, Idle) /\ Announce(w, z.group)
      \/ rest /= {} /\ Do(w, next) /\ announced' = announced
  BY <1>2, <1>4 DEF CallDone
<1>. HIDE DEF r, rest, next
<1>7. ASSUME NEW x \in Work, WorkOK(w, x), Do(w, x)
      PROVE  work' \in [Workers -> Work] /\ WorkersOK'
  <2>1. WorkOK(w, x)'
    BY <1>1, <1>7, WorkKept
  <2>. QED  BY <1>1, <1>7, <2>1, OneWorker DEF RequestInv, Do
<1>8. work' \in [Workers -> Work] /\ WorkersOK'
  <2>1. CASE rest = {}
    BY <1>6, <1>7, <2>1, IdleOK
  <2>2. CASE rest /= {}
    <3>1. WorkOK(w, next)
      BY <1>3, <1>4, <1>5, <2>2 DEF WorkOK, Busy, rest
    <3>. QED  BY <1>5, <1>6, <1>7, <2>2, <3>1
  <2>. QED  BY <2>1, <2>2
<1>9. ASSUME NEW a \in announced' \ announced
      PROVE  /\ a.request \in Requests /\ a.by = w /\ a.book = z.book /\ Settled(w, z.book, a.request)
             /\ a \in [request : Requests, by : Workers, book : Books \cup {None}]
  <2>1. rest = {} /\ announced' = announced \cup {[request |-> q, by |-> w, book |-> z.book] : q \in z.group}
    BY <1>2, <1>6 DEF Announce
  <2>2. PICK q \in z.group : a = [request |-> q, by |-> w, book |-> z.book]
    BY <2>1
  <2>3. z.book \in Books \cup {None}
    BY DEF Work
  <2>. QED  BY <1>4, <2>1, <2>2, <2>3
<1>10. fetch' \in [Pages -> Fetch]
  <2>1. fetch \in [Pages -> Fetch] /\ [phase |-> "asked", got |-> {}] \in Fetch
    BY DEF RequestInv, RequestTypeOK, Fetch
  <2>. QED  BY <2>1 DEF CallDone, Report, Invalidated
<1>11. RequestTypeOK'
  <2>1. announced' \subseteq [request : Requests, by : Workers, book : Books \cup {None}]
    BY <1>9 DEF RequestInv, RequestTypeOK
  <2>. QED  BY <1>0, <1>8, <1>10, <2>1 DEF RequestInv, RequestTypeOK
<1>12. AnnouncedIsDone'
  <2>1. ASSUME NEW a \in announced'
        PROVE  /\ status[a.request] = IF Declines(a.by) THEN "declined" ELSE "fulfilled"
               /\ linked[a.request] \in {a.book, None}
    <3>1. CASE a \in announced
      BY <3>1 DEF RequestInv, AnnouncedIsDone
    <3>2. CASE a \notin announced
      BY <1>9, <3>2 DEF Settled
    <3>. QED  BY <3>1, <3>2
  <2>. QED  BY <1>0, <2>1 DEF AnnouncedIsDone, Declines
<1>13. Forgets'
  <2>1. ASSUME NEW a \in announced', a.by \notin Followers
        PROVE  /\ fetch'[PageOf[a.by]].phase = "idle" => a.request \notin listed[PageOf[a.by]]
               /\ fetch'[PageOf[a.by]].phase = "answered" => a.request \notin fetch'[PageOf[a.by]].got
    <3>. DEFINE p == PageOf[a.by]
    <3>1. p \in Pages /\ fetch \in [Pages -> Fetch]
      BY <1>11, <2>1 DEF RequestInv, RequestTypeOK, Workers
    <3>2. CASE w \notin Followers /\ p = PageOf[w]
      <4>1. fetch'[p].phase = "asked"
        BY <3>1, <3>2 DEF CallDone, Report, Invalidated
      <4>. QED  BY <4>1
    <3>3. CASE ~(w \notin Followers /\ p = PageOf[w])
      <4>1. fetch'[p] = fetch[p]
        BY <3>1, <3>3 DEF CallDone, Report
      <4>2. a \in announced
        BY <1>9, <2>1, <3>3
      <4>. QED  BY <2>1, <4>1, <4>2 DEF RequestInv, Forgets
    <3>. QED  BY <3>2, <3>3
  <2>. QED  BY <1>0, <2>1 DEF Forgets
<1>. QED  BY <1>1, <1>8, <1>11, <1>12, <1>13 DEF RequestInv
\* Uploads and downloads: books are only added, and nothing is decided.
LEMMA Undecided ==
  ASSUME RequestInv, UNCHANGED <<status, linked, barred, listed, announced, refreshes>>,
         books' \subseteq Books, books \subseteq books', downloads' \in [Releases -> Download],
         fetch' \in [Pages -> Fetch],
         \A p \in Pages : fetch'[p] = fetch[p] \/ fetch'[p].phase = "asked",
         work' \in [Workers -> Work], WorkersOK'
  PROVE  RequestInv' /\ Kept /\ Content
<1>1. Kept /\ Content
  BY Quiet
<1>2. RequestTypeOK'
  BY DEF RequestInv, RequestTypeOK
<1>3. AnnouncedIsDone'
  BY <1>1, AnnouncedKept DEF RequestInv
<1>4. ASSUME NEW a \in announced, a.by \notin Followers
      PROVE  PageOf[a.by] \in Pages
  BY <1>4, RequestAssumption DEF RequestInv, RequestTypeOK, Workers
<1>5. Forgets'
  BY <1>4 DEF RequestInv, Forgets
<1>. QED  BY <1>1, <1>2, <1>3, <1>5 DEF RequestInv

\* Uploads, the download follower and a restart: they end or start work, and make
\* no request done but by an import.
LEMMA DownloadWork ==
  ASSUME RequestInv,
         \/ \E w \in Sheets : Uploaded(w) \/ SeeDownload(w)
         \/ \E w \in Sheets, f \in Followers, x \in Releases : Queue(w, f, x)
         \/ \E f \in Followers : DownloadFails(f) \/ \E b \in Books : Import(f, b)
         \/ Restart
  PROVE  RequestInv' /\ Kept /\ Content
<1>. USE RequestAssumption DEF Workers
<1>0. /\ RequestTypeOK /\ work \in [Workers -> Work] /\ \A w \in Workers : WorkOK(w, work[w])
      /\ books \subseteq Books /\ downloads \in [Releases -> Download] /\ fetch \in [Pages -> Fetch]
      /\ Sheets \subseteq Workers /\ Followers \subseteq Workers
      /\ \A w \in Sheets : w \notin Lists /\ w \notin Followers
      /\ \A f \in Followers : f \notin Lists /\ f \notin Sheets
  BY DEF RequestInv, RequestTypeOK, WorkersOK
<1>1. ASSUME NEW w \in Workers, NEW x \in Work, WorkOK(w, x), Do(w, x), UNCHANGED <<status, linked>>
      PROVE  work' \in [Workers -> Work] /\ WorkersOK'
  <2>1. Kept
    BY <1>1, Quiet
  <2>2. WorkOK(w, x)'
    BY <1>1, <2>1, WorkKept
  <2>. QED  BY <1>0, <1>1, <2>1, <2>2, OneWorker DEF RequestInv, Do
<1>2. ASSUME NEW w \in Sheets, Uploaded(w)
      PROVE  RequestInv' /\ Kept /\ Content
  <2>1. PICK z \in Work : z = work[w]
    BY <1>0
  <2>2. /\ UNCHANGED <<status, linked, barred, downloads, fetch, listed, announced, refreshes>>
        /\ WorkOK(w, z) /\ z.phase = "uploading"
    BY <1>0, <1>2, <2>1 DEF Uploaded, pageVars, historyVars
  <2>. DEFINE back == [z EXCEPT !.phase = "open", !.book = None]
              on == [z EXCEPT !.phase = "sent", !.todo = z.group]
  <2>3. /\ back \in Work /\ back.phase = "open" /\ back.group = z.group
        /\ on \in Work /\ on.phase = "sent" /\ on.group = z.group /\ on.todo = z.group /\ on.book = z.book
    BY DEF Work
  <2>4. \/ Do(w, back) /\ books' = books
        \/ Do(w, on) /\ z.book \notin books /\ books' = books \cup {z.book}
    BY <1>2, <2>1 DEF Uploaded
  <2>. HIDE DEF back, on
  <2>5. WorkOK(w, back) /\ WorkOK(w, on)
    BY <1>0, <2>2, <2>3 DEF WorkOK, Busy
  <2>6. work' \in [Workers -> Work] /\ WorkersOK'
    BY <1>1, <2>2, <2>3, <2>4, <2>5
  <2>7. books' \subseteq Books /\ books \subseteq books'
    BY <1>0, <2>2, <2>4 DEF WorkOK
  <2>. QED  BY <1>0, <2>2, <2>6, <2>7, Undecided
<1>3. ASSUME NEW w \in Sheets, SeeDownload(w)
      PROVE  RequestInv' /\ Kept /\ Content
  <2>1. PICK z \in Work : z = work[w]
    BY <1>0
  <2>. DEFINE again == [z EXCEPT !.release = None]
              asked == [phase |-> "asked", got |-> {}]
  <2>2. /\ UNCHANGED <<status, linked, barred, books, downloads, listed, announced, refreshes>>
        /\ WorkOK(w, z) /\ z.phase = "open" /\ PageOf[w] \in Pages
        /\ \/ fetch' = [fetch EXCEPT ![PageOf[w]] = asked] /\ Do(w, Idle)
           \/ fetch' = fetch /\ Do(w, again)
    BY <1>0, <1>3, <2>1 DEF SeeDownload, Invalidated, serverVars, historyVars
  <2>3. again \in Work /\ again.phase = "open" /\ again.group = z.group /\ asked \in Fetch /\ asked.phase = "asked"
    BY <2>2 DEF Work, Fetch
  <2>. HIDE DEF again, asked
  <2>4. WorkOK(w, again)
    BY <1>0, <2>2, <2>3 DEF WorkOK, Busy
  <2>5. work' \in [Workers -> Work] /\ WorkersOK'
    BY <1>1, <2>2, <2>3, <2>4, IdleOK
  <2>6. fetch' \in [Pages -> Fetch] /\ \A p \in Pages : fetch'[p] = fetch[p] \/ fetch'[p].phase = "asked"
    BY <1>0, <2>2, <2>3
  <2>. QED  BY <1>0, <2>2, <2>5, <2>6, Undecided
<1>4. ASSUME NEW f \in Followers, NEW s \in {"none", "queued", "imported", "failed"}, NEW x,
             downloads' = [downloads EXCEPT ![x].status = s]
      PROVE  downloads' \in [Releases -> Download]
  <2>1. \A y \in Releases : downloads[y] \in Download
    BY <1>0
  <2>2. \A y \in Releases : [downloads[y] EXCEPT !.status = s] \in Download
    BY <2>1 DEF Download
  <2>. QED  BY <1>0, <1>4, <2>2
<1>5. ASSUME NEW f \in Followers, DownloadFails(f)
      PROVE  RequestInv' /\ Kept /\ Content
  <2>1. UNCHANGED <<status, linked, barred, books, fetch, listed, announced, refreshes>> /\ Do(f, Idle)
    BY <1>5 DEF DownloadFails, pageVars, historyVars
  <2>2. downloads' \in [Releases -> Download]
    <3>1. PICK s \in {"none", "queued", "imported", "failed"} :
            downloads' = [downloads EXCEPT ![work[f].release].status = s] \/ downloads' = downloads
      <4>1. CASE downloads[work[f].release].status = "none"
        BY <1>0, <1>5, <4>1 DEF DownloadFails
      <4>2. CASE downloads[work[f].release].status /= "none"
        BY <1>5, <4>2 DEF DownloadFails
      <4>. QED  BY <4>1, <4>2
    <3>. QED  BY <1>0, <1>4, <3>1
  <2>3. work' \in [Workers -> Work] /\ WorkersOK'
    BY <1>0, <1>1, <2>1, IdleOK
  <2>. QED  BY <1>0, <2>1, <2>2, <2>3, Undecided
<1>6. ASSUME NEW f \in Followers, NEW b \in Books, Import(f, b)
      PROVE  RequestInv' /\ Kept /\ Content
  <2>1. PICK z \in Work : z = work[f]
    BY <1>0
  <2>. DEFINE g == downloads[z.release].requestIDs
              x == [z EXCEPT !.phase = "sent", !.book = b, !.group = g, !.todo = g]
              s == IF downloads[z.release].status = "none" THEN "none" ELSE "imported"
  <2>2. /\ UNCHANGED <<status, linked, barred, fetch, listed, announced, refreshes>>
        /\ books' = books \cup {b} /\ downloads' = [downloads EXCEPT ![z.release].status = s]
        /\ Do(f, IF g = {} THEN Idle ELSE x)
    BY <1>6, <2>1 DEF Import, pageVars, historyVars
  <2>3. downloads' \in [Releases -> Download]
    <3>1. s \in {"none", "queued", "imported", "failed"}
      OBVIOUS
    <3>. HIDE DEF s
    <3>. QED  BY <1>4, <2>2, <3>1
  <2>4. g \in SUBSET Requests
    <3>1. z.phase = "importing" /\ WorkOK(f, z)
      BY <1>0, <1>6, <2>1 DEF Import
    <3>2. downloads[z.release] \in Download
      BY <1>0, <3>1 DEF WorkOK
    <3>. QED  BY <3>2 DEF Download
  <2>. HIDE DEF g
  <2>5. x \in Work /\ x.phase = "sent" /\ x.todo = g /\ x.group = g
    BY <2>4 DEF Work
  <2>. HIDE DEF x
  <2>6. g /= {} => WorkOK(f, x)
    BY <1>0, <2>5 DEF WorkOK, Busy
  <2>7. work' \in [Workers -> Work] /\ WorkersOK'
    BY <1>0, <1>1, <2>2, <2>5, <2>6, IdleOK
  <2>. QED  BY <1>0, <2>2, <2>3, <2>7, Undecided
<1>7. ASSUME NEW w \in Sheets, NEW f \in Followers, NEW x \in Releases, Queue(w, f, x)
      PROVE  RequestInv' /\ Kept /\ Content
  <2>1. PICK z \in Work : z = work[w]
    BY <1>0
  <2>. DEFINE picked == [z EXCEPT !.release = x]
              follow == [Idle EXCEPT !.phase = "polling", !.release = x]
              entry == [status |-> "queued", requestIDs |-> z.group]
  <2>2. /\ UNCHANGED <<status, linked, barred, books, fetch, listed, announced, refreshes>>
        /\ downloads' = [downloads EXCEPT ![x] = entry] /\ WorkOK(w, z) /\ z.phase = "open"
    BY <1>0, <1>7, <2>1 DEF Queue, pageVars, historyVars
  <2>3. work' = [work EXCEPT ![w] = picked, ![f] = follow]
    <3>1. work' = [work EXCEPT ![w].release = x, ![f] = follow]
      BY <1>7 DEF Queue
    <3>. HIDE DEF follow
    <3>. QED  BY <1>0, <2>1, <3>1
  <2>4. /\ picked \in Work /\ picked.phase = "open" /\ picked.group = z.group /\ picked.book = z.book
        /\ follow \in Work /\ follow.phase = "polling" /\ follow.release = x /\ entry \in Download
    BY <2>2 DEF Work, Idle, Download
  <2>. HIDE DEF picked, follow, entry
  <2>5. WorkOK(w, picked) /\ WorkOK(f, follow)
    BY <1>0, <2>2, <2>4 DEF WorkOK, Busy
  <2>6. Kept /\ Content
    BY <2>2, Quiet
  <2>7. WorkOK(w, picked)' /\ WorkOK(f, follow)'
    BY <1>0, <2>4, <2>5, <2>6, WorkKept
  <2>8. work' \in [Workers -> Work] /\ w /= f /\ work'[w] = picked /\ work'[f] = follow
        /\ \A v \in Workers : v /= w /\ v /= f => work'[v] = work[v]
    BY <1>0, <2>3, <2>4
  <2>9. ASSUME NEW v \in Workers
        PROVE  WorkOK(v, work[v])'
    <3>1. ASSUME NEW y \in Work, work'[v] = y, WorkOK(v, y)'
          PROVE  WorkOK(v, work[v])'
      BY <3>1 DEF WorkOK, Settled
    <3>2. CASE v = w \/ v = f
      BY <2>4, <2>7, <2>8, <3>1, <3>2
    <3>3. CASE v /= w /\ v /= f
      <4>1. PICK y \in Work : y = work[v]
        BY <1>0
      <4>2. WorkOK(v, y)'
        BY <1>0, <2>6, <4>1, WorkKept
      <4>. QED  BY <2>8, <3>1, <3>3, <4>1, <4>2
    <3>. QED  BY <3>2, <3>3
  <2>10. WorkersOK'
    BY <2>9 DEF WorkersOK
  <2>11. downloads' \in [Releases -> Download]
    BY <1>0, <2>2, <2>4
  <2>. QED  BY <1>0, <2>2, <2>8, <2>10, <2>11, Undecided
<1>8. CASE Restart
  <2>1. /\ UNCHANGED <<status, linked, barred, books, fetch, listed, announced, refreshes>>
        /\ downloads' = [x \in Releases |-> NoDownload]
        /\ work' = [w \in Workers |-> IF w \in Followers THEN Idle ELSE work[w]]
    BY <1>8 DEF Restart, pageVars, historyVars
  <2>2. Kept /\ Content
    BY <2>1, Quiet
  <2>3. downloads' \in [Releases -> Download]
    BY <2>1 DEF NoDownload, Download
  <2>4. work' \in [Workers -> Work]
    BY <1>0, <2>1, IdleOK
  <2>5. ASSUME NEW v \in Workers
        PROVE  WorkOK(v, work[v])'
    <3>1. PICK y \in Work : y = work'[v]
      BY <2>4
    <3>2. WorkOK(v, y)
      BY <1>0, <2>1, <3>1, IdleOK
    <3>3. WorkOK(v, y)'
      BY <2>2, <3>2, WorkKept
    <3>. QED  BY <3>1, <3>3 DEF WorkOK, Settled
  <2>6. WorkersOK'
    BY <2>5 DEF WorkersOK
  <2>. QED  BY <1>0, <2>1, <2>3, <2>4, <2>6, Undecided
<1>. QED  BY <1>2, <1>3, <1>5, <1>6, <1>7, <1>8
-----------------------------------------------------------------------------
\* Every step keeps the invariant and the decisions.
LEMMA RequestStep ==
  ASSUME RequestInv, [RequestNext]_requestVars
  PROVE  RequestInv' /\ Kept /\ Content
<1>1. CASE PageStep
  <2>1. ASSUME NEW p \in Pages, Refresh(p) \/ Fetched(p) \/ FetchFails(p)
        PROVE  RequestInv' /\ Kept /\ Content
    BY <2>1, ListStep
  <2>2. ASSUME NEW w \in Sheets, SeeDownload(w)
        PROVE  RequestInv' /\ Kept /\ Content
    BY <2>2, DownloadWork
  <2>3. ASSUME \/ \E w \in Lists, k \in Keys : AskDecline(w, k)
               \/ \E w \in Lists : Confirm(w)
               \/ \E w \in Sheets : CloseSheet(w) \/ \E k \in Keys : OpenSheet(w, k)
               \/ \E w \in Sheets, b \in Books : UseBook(w, b) \/ Upload(w, b)
        PROVE  RequestInv' /\ Kept /\ Content
    BY <2>3, PageWork
  <2>. QED  BY <1>1, <2>1, <2>2, <2>3 DEF PageStep
<1>2. CASE ServerStep
  <2>1. ASSUME NEW p \in Pages, ListOpen(p)
        PROVE  RequestInv' /\ Kept /\ Content
    BY <2>1, ListStep
  <2>2. ASSUME \/ \E r \in Requests : Create(r) \/ Cancel(r) \/ LoseAccess(r)
               \/ \E b \in Books : DeleteBook(b)
        PROVE  RequestInv' /\ Kept /\ Content
    BY <2>2, ServerWork
  <2>3. ASSUME NEW f \in Followers, Complete(f)
        PROVE  RequestInv' /\ Kept /\ Content
    BY <2>3, PageWork
  <2>4. ASSUME \/ \E w \in Sheets : Uploaded(w)
               \/ \E w \in Sheets, f \in Followers, x \in Releases : Queue(w, f, x)
               \/ \E f \in Followers : DownloadFails(f) \/ \E b \in Books : Import(f, b)
               \/ Restart
        PROVE  RequestInv' /\ Kept /\ Content
    BY <2>4, DownloadWork
  <2>. QED  BY <1>2, <2>1, <2>2, <2>3, <2>4 DEF ServerStep
<1>3. ASSUME NEW w \in Workers, BookExists(w) \/ Resolve(w) \/ CallDone(w) \/ Lose(w) \/ CallFailed(w)
      PROVE  RequestInv' /\ Kept /\ Content
  <2>1. CASE BookExists(w) \/ Lose(w) \/ CallFailed(w)
    BY <2>1, PageWork
  <2>. QED  BY <1>3, <2>1, ResolveStep, CallDoneStep
<1>4. CASE UNCHANGED requestVars
  <2>1. UNCHANGED <<status, linked, books, barred, downloads, listed, fetch, work, announced, refreshes>>
    BY <1>4 DEF requestVars, serverVars, pageVars, historyVars
  <2>2. Kept /\ Content
    BY <2>1, Quiet
  <2>3. RequestTypeOK'
    BY <2>1 DEF RequestInv, RequestTypeOK
  <2>. QED  BY <2>1, <2>2, <2>3, ServerStays
<1>. QED  BY <1>1, <1>2, <1>3, <1>4 DEF RequestNext

\* The invariant holds for ever.
LEMMA RequestInvariant == RequestSpec => []RequestInv
<1>1. RequestInit => RequestInv
  <2>. SUFFICES ASSUME RequestInit PROVE RequestInv
    OBVIOUS
  <2>1. RequestTypeOK
    BY IdleOK DEF RequestInit, RequestTypeOK, Statuses, NoDownload, Download, NoFetch, Fetch
  <2>2. WorkersOK
    BY IdleOK DEF RequestInit, WorkersOK
  <2>. QED  BY <2>1, <2>2 DEF RequestInit, RequestInv, AnnouncedIsDone, Forgets
<1>2. RequestInv /\ [RequestNext]_requestVars => RequestInv'
  BY RequestStep
<1>. QED  BY <1>1, <1>2, PTL DEF RequestSpec

\* Types; and a request is linked to a book only when it is fulfilled and the
\* book is there, whoever deletes books meanwhile.
THEOREM RequestTypeCorrect == RequestSpec => []RequestTypeOK
<1>1. RequestInv => RequestTypeOK
  BY DEF RequestInv
<1>. QED  BY RequestInvariant, <1>1, PTL

\* What one administrator or follower decided no other changes, though all
\* work through groups they fetched some time ago (requests/store.go: resolve).
THEOREM RequestResolvedOnce == RequestSpec => ResolvedOnce
<1>1. RequestInv /\ [RequestNext]_requestVars
        => [\A r \in Requests : status[r] \in {"fulfilled", "declined"} => status'[r] = status[r]]_requestVars
  BY RequestStep DEF Kept
<1>. QED  BY RequestInvariant, <1>1, PTL DEF RequestSpec, ResolvedOnce

\* A request that is fulfilled has its book in the library, and its reader may
\* read it (requests/store.go: resolve).
THEOREM RequestDoneHasContent == RequestSpec => DoneHasContent
<1>1. RequestInv /\ [RequestNext]_requestVars
        => [\A r \in Requests : status'[r] = "fulfilled" /\ status[r] /= "fulfilled" =>
              linked'[r] \in books' /\ r \notin barred]_requestVars
  BY RequestStep DEF Content
<1>. QED  BY RequestInvariant, <1>1, PTL DEF RequestSpec, DoneHasContent

\* A group is reported as done only when all of it is, whatever others did to
\* its members between the calls (requests.tsx; shelfmark.go: fulfil).
THEOREM RequestAnnouncedIsDone == RequestSpec => []AnnouncedIsDone
<1>1. RequestInv => AnnouncedIsDone
  BY DEF RequestInv
<1>. QED  BY RequestInvariant, <1>1, PTL

\* What a page has reported as done leaves its list, however its fetches and
\* its calls overlapped (queries.ts: useResolveBookRequest).
THEOREM RequestListForgets == RequestSpec => []ListForgets
<1>1. RequestInv => ListForgets
  BY DEF RequestInv, Forgets, ListForgets
<1>. QED  BY RequestInvariant, <1>1, PTL

=============================================================================
