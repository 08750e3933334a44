------------------------ MODULE ConsoleCatalogProofs ------------------------
(***************************************************************************)
(* Proofs about ConsoleCatalog, for any number of books, page size,        *)
(* libraries and files: types, that every book is in a library, that the   *)
(* pages of a list are complete, and that the list follows what the page   *)
(* was told.                                                               *)
(***************************************************************************)
EXTENDS ConsoleCatalog, FiniteSetTheorems, SequenceTheorems, TLAPS

\* A finite set of numbers has a first one: else each would have at least one
\* and at most all others before it, and no two as many.
LEMMA FirstOf ==
  ASSUME NEW S \in SUBSET Nat, IsFiniteSet(S), S /= {}
  PROVE  \E x \in S : \A y \in S : x <= y
<1>. DEFINE Below(b) == {c \in S : c < b}
            n == Cardinality(S)
<1>1. IsFiniteSet(S) /\ S \subseteq Nat /\ n \in Nat /\ n /= 0
  BY FS_CardinalityType, FS_EmptySet
<1>2. ASSUME NEW b \in S
      PROVE  IsFiniteSet(Below(b)) /\ Cardinality(Below(b)) \in 0 .. n - 1
  <2>1. IsFiniteSet(S \ {b}) /\ Cardinality(S \ {b}) = n - 1
    BY <1>1, FS_RemoveElement
  <2>2. Below(b) \in SUBSET (S \ {b})
    BY <1>1
  <2>3. IsFiniteSet(Below(b)) /\ Cardinality(Below(b)) <= n - 1
    BY <2>1, <2>2, FS_Subset
  <2>4. Cardinality(Below(b)) \in Nat
    BY <2>3, FS_CardinalityType
  <2>. QED  BY <1>1, <2>3, <2>4
<1>3. ASSUME NEW x \in S, NEW y \in S, x < y
      PROVE  Cardinality(Below(x)) /= Cardinality(Below(y))
  <2>1. Below(x) \in SUBSET Below(y) /\ x \in Below(y) /\ x \notin Below(x)
    <3>1. x \in Nat /\ y \in Nat /\ \A c \in S : c \in Nat
      BY <1>1
    <3>2. ASSUME NEW c \in S, c < x
          PROVE  c < y
      BY <1>3, <3>1, <3>2
    <3>3. Below(x) \subseteq Below(y)
      BY <3>2
    <3>4. ~(x < x)
      BY <3>1
    <3>. QED  BY <1>3, <3>3, <3>4
  <2>2. IsFiniteSet(Below(y))
    BY <1>2
  <2>. HIDE DEF Below
  <2>3. Cardinality(Below(y)) = Cardinality(Below(x)) => Below(y) = Below(x)
    BY <2>1, <2>2, FS_Subset
  <2>. QED  BY <2>1, <2>3
<1>4. \E x \in S : \A y \in S : x <= y
  <2>. SUFFICES ASSUME \A x \in S : \E y \in S : y < x
       PROVE  FALSE
    BY <1>1
  <2>. DEFINE f == [b \in S |-> Cardinality(Below(b))]
  <2>1. ASSUME NEW b \in S
        PROVE  Cardinality(Below(b)) /= 0
    <3>1. Below(b) /= {}
      OBVIOUS
    <3>. QED  BY <1>2, <3>1, FS_EmptySet
  <2>2. f \in [S -> 1 .. n - 1]
    <3>. HIDE DEF Below, n
    <3>1. \A b \in S : Cardinality(Below(b)) \in 1 .. n - 1
      BY <1>1, <1>2, <2>1
    <3>. QED  BY <3>1
  <2>3. IsFiniteSet(1 .. n - 1) /\ Cardinality(1 .. n - 1) < n
    <3>1. n - 1 \in Int /\ 1 \in Int
      BY <1>1
    <3>. HIDE DEF n
    <3>2. IsFiniteSet(1 .. n - 1) /\ Cardinality(1 .. n - 1) = IF 1 > n - 1 THEN 0 ELSE n - 1 - 1 + 1
      BY <3>1, FS_Interval
    <3>. QED  BY <1>1, <3>1, <3>2
  <2>. HIDE DEF f
  <2>4. PICK x \in S, y \in S : x /= y /\ f[x] = f[y]
    <3>. DEFINE T == 1 .. n - 1
    <3>1. IsFiniteSet(T) /\ Cardinality(T) < Cardinality(S) /\ f \in [S -> T]
      BY <2>2, <2>3
    <3>. HIDE DEF T, Below, n
    <3>. QED  BY <1>1, <3>1, FS_PigeonHole
  <2>5. Cardinality(Below(x)) = Cardinality(Below(y))
    BY <2>4 DEF f
  <2>6. x < y \/ y < x
    <3>1. x \in Nat /\ y \in Nat /\ x /= y
      BY <1>1, <2>4
    <3>. QED  BY <3>1
  <2>. HIDE DEF Below
  <2>. QED  BY <1>3, <2>5, <2>6
<1>. QED  BY <1>4

\* So a set of books has an oldest and a newest.
LEMMA Ends ==
  ASSUME NEW S \in SUBSET Books, S /= {}
  PROVE  /\ \E x \in S : \A y \in S : x <= y
         /\ \E x \in S : \A y \in S : y <= x
         /\ IsFiniteSet(S)
<1>. USE CatalogAssumption
<1>1. IsFiniteSet(Books)
  BY FS_Interval DEF Books
<1>2. ASSUME NEW T \in SUBSET Books
      PROVE  IsFiniteSet(T) /\ T \in SUBSET Nat
  <2>1. Books \subseteq Nat
    BY DEF Books
  <2>. QED  BY <1>1, <2>1, FS_Subset
<1>3. \E x \in S : \A y \in S : x <= y
  BY <1>2, FirstOf
<1>. DEFINE R == {c \in Books : MaxBooks + 1 - c \in S}
<1>4. R /= {}
  <2>1. PICK b \in S : TRUE
    OBVIOUS
  <2>2. MaxBooks + 1 - b \in Books /\ MaxBooks + 1 - (MaxBooks + 1 - b) = b
    BY DEF Books
  <2>. QED  BY <2>1, <2>2
<1>5. PICK m \in R : \A y \in R : m <= y
  <2>1. R \in SUBSET Nat /\ IsFiniteSet(R)
    BY <1>2
  <2>. HIDE DEF R
  <2>. QED  BY <1>4, <2>1, FirstOf
<1>6. ASSUME NEW y \in S
      PROVE  y <= MaxBooks + 1 - m
  <2>1. y \in 1 .. MaxBooks /\ m \in 1 .. MaxBooks
    BY DEF Books
  <2>2. MaxBooks + 1 - y \in Books /\ MaxBooks + 1 - (MaxBooks + 1 - y) = y
    BY <2>1 DEF Books
  <2>3. MaxBooks + 1 - y \in R
    BY <2>2
  <2>. HIDE DEF R
  <2>4. m <= MaxBooks + 1 - y
    BY <1>5, <2>3
  <2>. QED  BY <2>1, <2>4
<1>. QED  BY <1>2, <1>3, <1>5, <1>6
-----------------------------------------------------------------------------
(* The pages of a list.                                                    *)

\* No page shares a book with another or goes below the cursor, and before the
\* first page there is no cursor.
Paged(l) ==
  /\ \A i, j \in DOMAIN l.pages : i /= j => l.pages[i] \cap l.pages[j] = {}
  /\ \A i \in DOMAIN l.pages : l.next /= 0 => \A b \in l.pages[i] : b >= l.next
  /\ l.pages = <<>> => l.next = 0

\* Of some books, the list has those its pages reach.
Complete(l, X) == \A b \in X : l.next = 0 \/ b >= l.next => b \in Listed(l)

\* The page at the cursor.
LEMMA PageForms ==
  ASSUME NEW l \in Listing
  PROVE  /\ PageAt(l) \subseteq There
         /\ \A b \in PageAt(l) : l.next = 0 \/ b < l.next
         /\ \A c \in PageAt(l), b \in There :
              b >= c /\ (l.next = 0 \/ b < l.next) => b \in PageAt(l)
         /\ \A b \in There : (l.next = 0 \/ b < l.next) => PageAt(l) /= {}
<1>. USE CatalogAssumption
<1>. DEFINE below == {b \in There : l.next = 0 \/ b < l.next}
            Above(b) == {c \in below : c > b}
<1>1. below \in SUBSET Books /\ Books \subseteq Nat /\ PageAt(l) = {b \in below : Cardinality(Above(b)) < PageSize}
  BY DEF There, Books, PageAt
<1>2. ASSUME NEW b \in below
      PROVE  IsFiniteSet(Above(b)) /\ Cardinality(Above(b)) \in Nat
  <2>1. IsFiniteSet(Books)
    BY FS_Interval DEF Books
  <2>2. Above(b) \in SUBSET Books
    BY <1>1
  <2>3. IsFiniteSet(Above(b))
    BY <2>1, <2>2, FS_Subset
  <2>. HIDE DEF Above
  <2>. QED  BY <2>3, FS_CardinalityType
<1>3. ASSUME NEW c \in PageAt(l), NEW b \in below, b >= c
      PROVE  b \in PageAt(l)
  <2>1. Above(b) \in SUBSET Above(c)
    <3>1. b \in Nat /\ c \in Nat /\ \A d \in below : d \in Nat
      BY <1>1
    <3>2. ASSUME NEW d \in below, d > b
          PROVE  d > c
      BY <1>3, <3>1, <3>2
    <3>. HIDE DEF below
    <3>. QED  BY <3>2
  <2>2. c \in below /\ Cardinality(Above(c)) < PageSize
    BY <1>1
  <2>. HIDE DEF Above, below
  <2>3. Cardinality(Above(b)) <= Cardinality(Above(c))
    BY <1>2, <2>1, <2>2, FS_Subset
  <2>4. /\ Cardinality(Above(b)) \in Nat /\ Cardinality(Above(c)) \in Nat /\ PageSize \in Nat
    BY <1>2, <1>3, <2>2
  <2>5. Cardinality(Above(b)) < PageSize
    BY <2>2, <2>3, <2>4
  <2>. QED  BY <1>1, <1>3, <2>5
<1>4. ASSUME below /= {}
      PROVE  PageAt(l) /= {}
  <2>1. PICK m \in below : \A y \in below : y <= m
    BY <1>1, <1>4, Ends
  <2>2. \A y \in below : y \in Nat /\ m \in Nat
    BY <1>1
  <2>3. Above(m) = {}
    BY <2>1, <2>2
  <2>4. Cardinality(Above(m)) = 0
    BY <2>3, FS_EmptySet
  <2>5. 0 < PageSize
    OBVIOUS
  <2>. HIDE DEF Above, below
  <2>. QED  BY <1>1, <2>1, <2>4, <2>5
<1>5. \A b : b \in below <=> b \in There /\ (l.next = 0 \/ b < l.next)
  OBVIOUS
<1>6. \A b \in PageAt(l) : b \in below
  BY <1>1
<1>. HIDE DEF below, Above
<1>. QED  BY <1>3, <1>4, <1>5, <1>6

\* The cursor after the page.
LEMMA NextForms ==
  ASSUME NEW page \in SUBSET Books
  PROVE  /\ NextAfter(page) \in 0 .. MaxBooks
         /\ NextAfter(page) /= 0 => NextAfter(page) \in page /\ \A b \in page : b >= NextAfter(page)
         /\ NextAfter(page) = 0 => page = {} \/ \A b \in There : \E c \in page : b >= c
<1>. USE CatalogAssumption
<1>1. Books \subseteq 1 .. MaxBooks /\ There \subseteq Books
  BY DEF Books, There
<1>2. CASE page /= {} /\ \E b \in There : \A c \in page : b < c
  <2>1. \E b \in page : \A c \in page : b <= c
    BY <1>2, Ends
  <2>2. NextAfter(page) \in page /\ \A b \in page : NextAfter(page) <= b
    BY <1>2, <2>1 DEF NextAfter
  <2>3. \A b \in page : b \in 1 .. MaxBooks /\ b \in Nat
    BY <1>1
  <2>4. NextAfter(page) \in 1 .. MaxBooks
    BY <2>2, <2>3
  <2>5. NextAfter(page) \in 0 .. MaxBooks /\ NextAfter(page) /= 0 /\ NextAfter(page) \in Nat
    BY <2>4
  <2>6. \A b \in page : b >= NextAfter(page)
    BY <2>2, <2>3, <2>5
  <2>. QED  BY <2>2, <2>5, <2>6
<1>3. CASE ~(page /= {} /\ \E b \in There : \A c \in page : b < c)
  <2>1. NextAfter(page) = 0
    BY <1>3 DEF NextAfter
  <2>2. page = {} \/ \A b \in There : \E c \in page : b >= c
    BY <1>1, <1>3
  <2>. QED  BY <2>1, <2>2
<1>. QED  BY <1>2, <1>3

\* A list with one page more has what it had, and of the books there now those
\* that the new cursor has passed.
LEMMA Append1 ==
  ASSUME NEW l \in Listing, Paged(l), l.next /= 0 \/ l.pages = <<>>,
         NEW m \in Listing, m.pages = Append(l.pages, PageAt(l)), m.next = NextAfter(PageAt(l))
  PROVE  /\ Paged(m) /\ m.pages /= <<>>
         /\ Listed(m) = Listed(l) \cup PageAt(l)
         /\ \A X \in SUBSET There : l.pages = <<>> \/ Complete(l, X) => Complete(m, X)
<1>. USE CatalogAssumption
<1>. DEFINE page == PageAt(l)
            n == Len(l.pages)
<1>1. /\ page \in SUBSET Books /\ There \subseteq Books /\ Books \subseteq Nat
      /\ l.pages \in Seq(SUBSET Books) /\ l.next \in Nat /\ m.next \in Nat
  BY PageForms DEF There, Books, Listing
<1>2. /\ n \in Nat /\ DOMAIN l.pages = 1 .. n
      /\ DOMAIN m.pages = 1 .. n + 1 /\ m.pages /= <<>>
      /\ \A i \in 1 .. n : m.pages[i] = l.pages[i] /\ l.pages[i] \in SUBSET Books
      /\ m.pages[n + 1] = page
  <2>1. n \in Nat /\ DOMAIN l.pages = 1 .. n /\ l.pages \in [1 .. n -> SUBSET Books]
    BY <1>1, LenProperties
  <2>2. /\ m.pages \in Seq(SUBSET Books) /\ m.pages /= <<>> /\ Len(m.pages) = n + 1
        /\ \A i \in 1 .. n : m.pages[i] = l.pages[i]
        /\ m.pages[n + 1] = page
    BY <1>1, AppendProperties
  <2>3. DOMAIN m.pages = 1 .. n + 1
    BY <2>2, LenProperties
  <2>. QED  BY <2>1, <2>2, <2>3
<1>3. /\ \A b \in page : l.next = 0 \/ b < l.next
      /\ \A c \in page, b \in There : b >= c /\ (l.next = 0 \/ b < l.next) => b \in page
      /\ \A b \in There : l.next = 0 \/ b < l.next => page /= {}
  BY PageForms
<1>4. /\ m.next /= 0 => m.next \in page /\ \A b \in page : b >= m.next
      /\ m.next = 0 => page = {} \/ \A b \in There : \E c \in page : b >= c
  BY <1>1, NextForms
<1>5. l.next = 0 => n = 0
  BY <1>1, <1>2, EmptySeq
<1>. HIDE DEF page, n
<1>6. ASSUME NEW i \in 1 .. n
      PROVE  /\ l.next /= 0 /\ \A b \in l.pages[i] : b >= l.next /\ b \in Nat
             /\ l.pages[i] \cap page = {}
  <2>1. l.next /= 0
    BY <1>2, <1>5
  <2>2. \A b \in l.pages[i] : b >= l.next
    BY <1>2, <2>1 DEF Paged
  <2>3. \A b \in l.pages[i] : b \in Nat
    BY <1>1, <1>2
  <2>4. ASSUME NEW b \in l.pages[i]
        PROVE  b \notin page
    <3>1. b \in Nat /\ b >= l.next /\ ~(b < l.next)
      BY <1>1, <2>2, <2>3
    <3>. QED  BY <1>3, <2>1, <3>1
  <2>. QED  BY <2>1, <2>2, <2>3, <2>4
<1>7. ASSUME NEW i \in 1 .. n + 1, NEW j \in 1 .. n + 1, i /= j
      PROVE  m.pages[i] \cap m.pages[j] = {}
  <2>0. n \in Nat
    BY <1>2
  <2>1. (i \in 1 .. n \/ i = n + 1) /\ (j \in 1 .. n \/ j = n + 1)
    BY <2>0
  <2>2. CASE i \in 1 .. n /\ j \in 1 .. n
    BY <1>2, <1>7, <2>2 DEF Paged
  <2>. QED  BY <1>2, <1>6, <1>7, <2>1, <2>2
<1>8. ASSUME NEW i \in 1 .. n + 1, m.next /= 0, NEW b \in m.pages[i]
      PROVE  b >= m.next
  <2>1. i \in 1 .. n \/ i = n + 1
    BY <1>2
  <2>2. CASE i \in 1 .. n
    <3>1. b >= l.next /\ b \in Nat /\ l.next /= 0
      BY <1>2, <1>6, <1>8, <2>2
    <3>2. m.next < l.next
      BY <1>3, <1>4, <1>8, <3>1
    <3>. QED  BY <1>1, <3>1, <3>2
  <2>. QED  BY <1>2, <1>4, <1>8, <2>1, <2>2
<1>9. Paged(m)
  BY <1>2, <1>7, <1>8 DEF Paged
<1>10. Listed(m) = Listed(l) \cup page
  <2>1. ASSUME NEW b \in Listed(m)
        PROVE  b \in Listed(l) \cup page
    <3>1. PICK i \in 1 .. n + 1 : b \in m.pages[i]
      BY <1>2, <2>1 DEF Listed
    <3>2. i \in 1 .. n \/ i = n + 1
      BY <1>2
    <3>. QED  BY <1>2, <3>1, <3>2 DEF Listed
  <2>2. ASSUME NEW b \in Listed(l)
        PROVE  b \in Listed(m)
    <3>1. PICK i \in 1 .. n : b \in l.pages[i]
      BY <1>2, <2>2 DEF Listed
    <3>2. i \in 1 .. n + 1
      BY <1>2
    <3>. QED  BY <1>2, <3>1, <3>2 DEF Listed
  <2>3. page \subseteq Listed(m)
    <3>1. n + 1 \in 1 .. n + 1
      BY <1>2
    <3>. QED  BY <1>2, <3>1 DEF Listed
  <2>. QED  BY <2>1, <2>2, <2>3
<1>11. ASSUME NEW X \in SUBSET There, l.pages = <<>> \/ Complete(l, X), NEW b \in X, m.next = 0 \/ b >= m.next
       PROVE  b \in Listed(m)
  <2>1. b \in There /\ b \in Nat
    BY <1>1
  <2>2. CASE l.next = 0 \/ b < l.next
    <3>1. page /= {}
      BY <1>3, <2>1, <2>2
    <3>2. \E c \in page : b >= c
      BY <1>4, <1>11, <2>1, <3>1
    <3>. QED  BY <1>3, <1>10, <2>1, <2>2, <3>2
  <2>3. CASE ~(l.next = 0 \/ b < l.next)
    <3>1. l.pages /= <<>> /\ b >= l.next
      BY <1>1, <2>1, <2>3 DEF Paged
    <3>2. b \in Listed(l)
      BY <1>11, <3>1 DEF Complete
    <3>. QED  BY <1>10, <3>2
  <2>. QED  BY <2>2, <2>3
<1>. QED  BY <1>2, <1>9, <1>10, <1>11 DEF Complete, page
-----------------------------------------------------------------------------
(* The invariant.                                                          *)

\* Numbers are not used again, so what is gone stays gone.
OldBooks ==
  /\ \A b \in Books : IsThere(b) => b <= made
  /\ \A b \in told.made \cup told.gone : b <= made
  /\ \A b \in told.gone : ~IsThere(b)
  /\ \A i \in Items : item[i].book /= None => item[i].book <= made
  /\ \A i \in Items : item[i].state = "answered" => item[i].book \in Books
  /\ call.phase /= "idle" => call.book \in Books
  /\ call.phase = "done" /\ call.kind = "remove" => call.book <= made /\ ~IsThere(call.book)

\* The list and what a fetch has got are paged, and have what was there from
\* their start; a fetch that is asked for a page has a cursor or is at the
\* start; neither has what the page was told is gone.
ListInv ==
  /\ Paged(list.now) /\ list.now.steady \subseteq There /\ Complete(list.now, list.now.steady)
  /\ Paged(fetch.got) /\ fetch.got.steady \subseteq There
  /\ fetch.got.pages = <<>> \/ Complete(fetch.got, fetch.got.steady)
  /\ fetch.phase = "asked" => fetch.got.next /= 0 \/ fetch.got.pages = <<>>
  /\ fetch.phase = "answered" => fetch.got.pages /= <<>>
  /\ \A b \in told.gone : b \notin Listed(list.now) /\ b \notin Listed(fetch.got)

\* What the page was told is made is listed, or was there when the fetch began.
MadeInv ==
  /\ fetch.phase = "idle" /\ ~list.failed => Complete(list.now, told.made \cap There)
  /\ fetch.phase /= "idle" /\ ~fetch.more => told.made \cap There \subseteq fetch.got.steady
  /\ fetch.phase /= "idle" /\ fetch.more => Complete(fetch.got, told.made \cap There)

CatalogInv == CatalogTypeOK /\ EveryBookShelved /\ OldBooks /\ ListInv /\ MadeInv

\* What a list says of books depends on its pages and its cursor.
LEMMA SamePages ==
  ASSUME NEW l, NEW m, l.pages = m.pages, l.next = m.next
  PROVE  /\ Listed(l) = Listed(m) /\ (Paged(l) => Paged(m))
         /\ \A X, Y : Y \subseteq X /\ Complete(l, X) => Complete(m, Y)
<1>1. Listed(l) = Listed(m)
  BY DEF Listed
<1>2. Paged(l) => Paged(m)
  BY DEF Paged
<1>. QED  BY <1>1, <1>2 DEF Complete

\* Types of what an action makes.
LEMMA CatalogForms ==
  ASSUME CatalogTypeOK
  PROVE  /\ Empty \in Listing /\ Empty.pages = <<>> /\ Empty.next = 0 /\ Empty.steady = {}
         /\ NoFetch \in Fetch /\ NoFetch.phase = "idle" /\ NoFetch.got = Empty
         /\ Started \in Fetch /\ Started.phase = "asked" /\ Started.more = FALSE
         /\ Started.got.pages = <<>> /\ Started.got.next = 0 /\ Started.got.steady = There
         /\ NoCall \in Call /\ NoCall.phase = "idle"
<1>. USE CatalogAssumption
<1>1. <<>> \in Seq(SUBSET Books)
  BY EmptySeq
<1>2. Empty \in Listing /\ Empty.pages = <<>> /\ Empty.next = 0 /\ Empty.steady = {}
  BY <1>1 DEF Empty, Listing
<1>3. NoFetch \in Fetch /\ NoFetch.phase = "idle" /\ NoFetch.got = Empty
  BY <1>2 DEF NoFetch, Fetch
<1>. DEFINE e == [Empty EXCEPT !.steady = There]
<1>4. e \in Listing /\ e.pages = <<>> /\ e.next = 0 /\ e.steady = There
  BY <1>2 DEF Listing, There
<1>5. Started = [phase |-> "asked", more |-> FALSE, got |-> e]
  BY DEF Started
<1>. HIDE DEF e
<1>6. Started \in Fetch /\ Started.phase = "asked" /\ Started.more = FALSE /\ Started.got = e
  BY <1>4, <1>5 DEF Fetch
<1>7. NoCall \in Call /\ NoCall.phase = "idle"
  BY DEF NoCall, Call
<1>. QED  BY <1>2, <1>3, <1>4, <1>6, <1>7

\* An empty list is paged, and has all of nothing.
LEMMA NoPages ==
  ASSUME NEW l, l.pages = <<>>, l.next = 0
  PROVE  Paged(l) /\ Listed(l) = {}
BY DEF Paged, Listed
-----------------------------------------------------------------------------
(* The steps.                                                              *)

\* The import panel and calls, where tables and lists stay.
LEMMA PanelStep ==
  ASSUME CatalogInv,
         \/ \E i \in Items : Add(i) \/ Upload(i) \/ NotImported(i)
         \/ CloseImport \/ CallFailed
         \/ \E b \in Books : Send("remove", b, Main) \/ \E l \in Libraries : Send("move", b, l)
  PROVE  CatalogInv'
<1>. USE CatalogAssumption
<1>0. CatalogTypeOK /\ OldBooks /\ item \in [Items -> Item] /\ call \in Call
  BY DEF CatalogInv, CatalogTypeOK
<1>1. ASSUME UNCHANGED <<serverVars, list, fetch, told>>, item' \in [Items -> Item], call' \in Call,
             \A i \in Items : item'[i].book /= None => item'[i].book = item[i].book,
             \A i \in Items : item'[i].state = "answered" => item[i].state = "answered" /\ item'[i].book = item[i].book,
             call' = call \/ call'.phase /= "done", call'.phase /= "idle" => call'.book \in Books
      PROVE  CatalogInv'
  <2>1. UNCHANGED <<made, shelf, libraries, list, fetch, told>>
    BY <1>1 DEF serverVars
  <2>2. CatalogTypeOK' /\ EveryBookShelved' /\ MadeInv'
    BY <1>1, <2>1 DEF CatalogInv, CatalogTypeOK, EveryBookShelved, IsThere, MadeInv, Complete, Listed, There
  <2>3. ListInv'
    BY <2>1 DEF CatalogInv, ListInv, Paged, Complete, Listed, There, IsThere
  <2>4. OldBooks'
    BY <1>0, <1>1, <2>1 DEF OldBooks, IsThere
  <2>. QED  BY <2>2, <2>3, <2>4 DEF CatalogInv
<1>2. ASSUME NEW i \in Items, NEW s \in {"queued", "uploading"}, item[i].state \in {"absent", "queued"},
             item' = [item EXCEPT ![i].state = s],
             UNCHANGED <<serverVars, list, fetch, call, told>>
      PROVE  CatalogInv'
  <2>1. item[i] \in Item
    BY <1>0
  <2>2. [item[i] EXCEPT !.state = s] \in Item
    BY <2>1 DEF Item
  <2>3. /\ item' \in [Items -> Item]
        /\ \A j \in Items : item'[j].book = item[j].book /\ item'[j].state = IF j = i THEN s ELSE item[j].state
    <3>1. item' = [item EXCEPT ![i] = [item[i] EXCEPT !.state = s]]
      BY <1>2
    <3>2. [item[i] EXCEPT !.state = s].state = s /\ [item[i] EXCEPT !.state = s].book = item[i].book
      BY <2>1 DEF Item
    <3>. QED  BY <1>0, <2>2, <3>1, <3>2
  <2>. QED  BY <1>0, <1>1, <1>2, <2>3 DEF OldBooks
<1>3. ASSUME NEW i \in Items, NotImported(i)
      PROVE  CatalogInv'
  <2>. DEFINE x == [state |-> "failed", book |-> None]
  <2>1. x \in Item /\ item' = [item EXCEPT ![i] = x] /\ UNCHANGED <<serverVars, list, fetch, call, told>>
    BY <1>3 DEF Item, NotImported
  <2>2. /\ item' \in [Items -> Item]
        /\ \A j \in Items : item'[j] = IF j = i THEN x ELSE item[j]
    BY <1>0, <2>1
  <2>. QED  BY <1>0, <1>1, <2>1, <2>2 DEF OldBooks
<1>4. CASE CloseImport
  <2>1. /\ item' = [i \in Items |-> [state |-> "absent", book |-> None]]
        /\ UNCHANGED <<serverVars, list, fetch, call, told>>
    BY <1>4 DEF CloseImport
  <2>2. item' \in [Items -> Item] /\ \A i \in Items : item'[i].book = None /\ item'[i].state = "absent"
    BY <2>1 DEF Item
  <2>. QED  BY <1>0, <1>1, <2>1, <2>2 DEF OldBooks
<1>5. CASE CallFailed
  <2>1. call' = NoCall /\ UNCHANGED <<serverVars, list, fetch, item, told>>
    BY <1>5 DEF CallFailed
  <2>. QED  BY <1>0, <1>1, <2>1, CatalogForms
<1>6. ASSUME NEW b \in Books, NEW l \in Libraries, NEW k \in {"remove", "move"}, Send(k, b, l)
      PROVE  CatalogInv'
  <2>1. call' = [phase |-> "sent", kind |-> k, book |-> b, to |-> l] /\ UNCHANGED <<serverVars, list, fetch, item, told>>
    BY <1>6 DEF Send
  <2>2. call' \in Call /\ call'.phase = "sent" /\ call'.book \in Books
    BY <2>1 DEF Call
  <2>. QED  BY <1>0, <1>1, <2>1, <2>2
<1>7. ASSUME NEW i \in Items, Add(i) \/ Upload(i)
      PROVE  CatalogInv'
  BY <1>2, <1>7 DEF Add, Upload
<1>. QED  BY <1>3, <1>4, <1>5, <1>6, <1>7

\* The tables change, and what was promised forgets what is gone.
LEMMA ShelfStep ==
  ASSUME CatalogInv, made' \in 0 .. MaxBooks, made' >= made,
         shelf' \in [Books -> Libraries \cup {None}], libraries' \subseteq Libraries, EveryBookShelved',
         \A b \in Books : IsThere(b)' => b <= made' /\ (b <= made => IsThere(b)),
         item' \in [Items -> Item], call' \in Call,
         \A i \in Items : item'[i].book /= None => item'[i].book <= made',
         \A i \in Items : item'[i].state = "answered" => item'[i].book \in Books,
         call'.phase /= "idle" => call'.book \in Books,
         call'.phase = "done" /\ call'.kind = "remove" => call'.book <= made' /\ shelf'[call'.book] = None,
         Steady \/ (There \subseteq There' /\ UNCHANGED <<list, fetch, told>>)
  PROVE  CatalogInv'
<1>. USE CatalogAssumption
<1>0. /\ CatalogTypeOK /\ OldBooks /\ ListInv /\ MadeInv
      /\ list \in List /\ fetch \in Fetch /\ told \in [{"made", "gone"} -> SUBSET Books] /\ made \in Nat
      /\ list.now \in Listing /\ fetch.got \in Listing
  BY DEF CatalogInv, CatalogTypeOK, List, Fetch
<1>1. /\ list' \in List /\ list'.loaded = list.loaded /\ list'.failed = list.failed
      /\ list'.now.pages = list.now.pages /\ list'.now.next = list.now.next
      /\ list'.now.steady = list.now.steady \cap There'
  <2>1. list.now.steady \subseteq There /\ list.now.steady \subseteq Books
    BY <1>0 DEF ListInv, Listing
  <2>2. CASE Steady
    <3>. DEFINE S == {b \in list.now.steady : shelf'[b] /= None}
    <3>1. list' = [list EXCEPT !.now.steady = S]
      BY <2>2 DEF Steady
    <3>2. S = list.now.steady \cap There'
      BY <2>1 DEF There, IsThere
    <3>. HIDE DEF S
    <3>3. [list.now EXCEPT !.steady = S] \in Listing
      BY <1>0, <2>1, <3>2 DEF Listing
    <3>4. list' = [list EXCEPT !.now = [list.now EXCEPT !.steady = S]]
      BY <3>1
    <3>. DEFINE l == [list.now EXCEPT !.steady = S]
    <3>5. l \in Listing /\ l.pages = list.now.pages /\ l.next = list.now.next /\ l.steady = S
      BY <1>0, <3>3 DEF Listing
    <3>. HIDE DEF l
    <3>6. list' = [list EXCEPT !.now = l]
      BY <3>4 DEF l
    <3>7. list' \in List /\ list'.loaded = list.loaded /\ list'.failed = list.failed /\ list'.now = l
      BY <1>0, <3>5, <3>6 DEF List
    <3>. QED  BY <3>2, <3>5, <3>7
  <2>3. CASE There \subseteq There' /\ UNCHANGED <<list, fetch, told>>
    BY <1>0, <2>1, <2>3
  <2>. QED  BY <2>2, <2>3
<1>2. /\ fetch' \in Fetch /\ fetch'.phase = fetch.phase /\ fetch'.more = fetch.more
      /\ fetch'.got.pages = fetch.got.pages /\ fetch'.got.next = fetch.got.next
      /\ fetch'.got.steady = fetch.got.steady \cap There'
  <2>1. fetch.got.steady \subseteq There /\ fetch.got.steady \subseteq Books
    BY <1>0 DEF ListInv, Listing
  <2>2. CASE Steady
    <3>. DEFINE S == {b \in fetch.got.steady : shelf'[b] /= None}
    <3>1. fetch' = [fetch EXCEPT !.got.steady = S]
      BY <2>2 DEF Steady
    <3>2. S = fetch.got.steady \cap There'
      BY <2>1 DEF There, IsThere
    <3>. HIDE DEF S
    <3>3. [fetch.got EXCEPT !.steady = S] \in Listing
      BY <1>0, <2>1, <3>2 DEF Listing
    <3>4. fetch' = [fetch EXCEPT !.got = [fetch.got EXCEPT !.steady = S]]
      BY <3>1
    <3>. DEFINE l == [fetch.got EXCEPT !.steady = S]
    <3>5. l \in Listing /\ l.pages = fetch.got.pages /\ l.next = fetch.got.next /\ l.steady = S
      BY <1>0, <3>3 DEF Listing
    <3>. HIDE DEF l
    <3>6. fetch' = [fetch EXCEPT !.got = l]
      BY <3>4 DEF l
    <3>7. fetch' \in Fetch /\ fetch'.phase = fetch.phase /\ fetch'.more = fetch.more /\ fetch'.got = l
      BY <1>0, <3>5, <3>6 DEF Fetch
    <3>. QED  BY <3>2, <3>5, <3>7
  <2>3. CASE There \subseteq There' /\ UNCHANGED <<list, fetch, told>>
    BY <1>0, <2>1, <2>3
  <2>. QED  BY <2>2, <2>3
<1>3. told' \in [{"made", "gone"} -> SUBSET Books] /\ told'.gone = told.gone /\ told'.made \subseteq told.made
  <2>1. CASE Steady
    <3>1. told' = [told EXCEPT !.made = {b \in told.made : shelf'[b] /= None}]
      BY <2>1 DEF Steady
    <3>. QED  BY <1>0, <3>1
  <2>2. CASE UNCHANGED <<list, fetch, told>>
    BY <1>0, <2>2
  <2>. QED  BY <2>1, <2>2
<1>4. CatalogTypeOK'
  BY <1>1, <1>2, <1>3 DEF CatalogTypeOK
<1>5. \A b \in told.made \cup told.gone : b \in Books /\ b <= made /\ b <= made' /\ (IsThere(b)' => IsThere(b))
  <2>1. told.made \subseteq Books /\ told.gone \subseteq Books /\ made' \in Nat /\ Books \subseteq Nat
    BY <1>0 DEF Books
  <2>2. \A b \in told.made \cup told.gone : b <= made
    BY <1>0 DEF OldBooks
  <2>3. ASSUME NEW b \in told.made \cup told.gone
        PROVE  b \in Books /\ b <= made /\ b \in Nat
    BY <2>1, <2>2
  <2>4. ASSUME NEW b \in told.made \cup told.gone
        PROVE  IsThere(b)' => IsThere(b)
    BY <2>3 DEF IsThere
  <2>. QED  BY <1>0, <2>1, <2>3, <2>4
<1>6. OldBooks'
  <2>1. \A b \in Books : IsThere(b)' => b <= made'
    OBVIOUS
  <2>2. \A b \in told'.made \cup told'.gone : b <= made'
    BY <1>3, <1>5
  <2>3. \A b \in told'.gone : ~IsThere(b)'
    BY <1>0, <1>3, <1>5 DEF OldBooks
  <2>. QED  BY <2>1, <2>2, <2>3 DEF OldBooks, IsThere
<1>7. told'.made \cap There' \subseteq told.made \cap There
  BY <1>3, <1>5 DEF There
<1>8. /\ Listed(list.now)' = Listed(list.now) /\ Paged(list.now)'
      /\ Complete(list.now, list.now.steady)'
      /\ Complete(list.now, told.made \cap There) => Complete(list.now, told.made \cap There)'
  BY <1>0, <1>1, <1>7 DEF ListInv, Listed, Paged, Complete
<1>9. /\ Listed(fetch.got)' = Listed(fetch.got) /\ Paged(fetch.got)'
      /\ fetch.got.pages = <<>> \/ Complete(fetch.got, fetch.got.steady)'
      /\ Complete(fetch.got, told.made \cap There) => Complete(fetch.got, told.made \cap There)'
  BY <1>0, <1>2, <1>7 DEF ListInv, Listed, Paged, Complete
<1>10. ListInv'
  BY <1>0, <1>1, <1>2, <1>3, <1>8, <1>9 DEF ListInv
<1>11. MadeInv'
  BY <1>0, <1>1, <1>2, <1>7, <1>8, <1>9 DEF MadeInv
<1>. QED  BY <1>4, <1>6, <1>10, <1>11 DEF CatalogInv
\* What the server does to its tables: a new book has a new number, and a
\* library in use stays.
LEMMA TableForms ==
  ASSUME CatalogInv
  PROVE  /\ \A l \in Libraries : MakeBook(l) =>
              /\ made' = made + 1 /\ made' \in Books /\ libraries' = libraries
              /\ shelf' \in [Books -> Libraries \cup {None}] /\ There \subseteq There'
              /\ EveryBookShelved' /\ \A b \in Books : IsThere(b)' => b <= made' /\ (b <= made => IsThere(b))
         /\ \A b \in Books : DeleteBook(b) =>
              /\ made' = made /\ libraries' = libraries /\ shelf' \in [Books -> Libraries \cup {None}]
              /\ EveryBookShelved' /\ shelf'[b] = None /\ b <= made
              /\ \A c \in Books : IsThere(c)' => c <= made' /\ IsThere(c)
         /\ \A b \in Books, l \in Libraries : MoveBook(b, l) =>
              /\ made' = made /\ libraries' = libraries /\ shelf' \in [Books -> Libraries \cup {None}]
              /\ EveryBookShelved' /\ \A c \in Books : IsThere(c)' => c <= made' /\ IsThere(c)
         /\ \A l \in Libraries : SaveLibrary(l) \/ DeleteLibrary(l) =>
              /\ made' = made /\ libraries' \subseteq Libraries /\ shelf' = shelf /\ EveryBookShelved'
              /\ \A c \in Books : IsThere(c)' => c <= made' /\ IsThere(c)
<1>. USE CatalogAssumption
<1>0. /\ made \in 0 .. MaxBooks /\ shelf \in [Books -> Libraries \cup {None}] /\ libraries \subseteq Libraries
      /\ \A b \in Books : shelf[b] /= None => b <= made /\ shelf[b] \in libraries
      /\ Books \subseteq Nat
  BY DEF CatalogInv, CatalogTypeOK, OldBooks, EveryBookShelved, IsThere, Books
<1>1. ASSUME NEW l \in Libraries, MakeBook(l)
      PROVE  /\ made' = made + 1 /\ made' \in Books /\ libraries' = libraries
             /\ shelf' \in [Books -> Libraries \cup {None}] /\ There \subseteq There'
             /\ EveryBookShelved' /\ \A b \in Books : IsThere(b)' => b <= made' /\ (b <= made => IsThere(b))
  <2>. DEFINE n == made + 1
  <2>1. n \in Books /\ n \in Nat /\ ~(n <= made) /\ made < n
    BY <1>0, <1>1 DEF MakeBook, Books
  <2>2. made' = n /\ shelf' = [shelf EXCEPT ![n] = l] /\ libraries' = libraries /\ l \in libraries
    BY <1>1 DEF MakeBook, Shelvable
  <2>. HIDE DEF n
  <2>3. /\ shelf' \in [Books -> Libraries \cup {None}]
        /\ \A b \in Books : shelf'[b] = IF b = n THEN l ELSE shelf[b]
    BY <1>0, <2>1, <2>2
  <2>4. ASSUME NEW b \in Books, shelf'[b] /= None
        PROVE  b <= n /\ shelf'[b] \in libraries /\ (b <= made => shelf[b] /= None)
    <3>1. b \in Nat /\ made \in Nat
      BY <1>0
    <3>2. CASE b = n
      BY <2>1, <2>2, <2>3, <3>1, <3>2
    <3>3. CASE b /= n
      <4>1. shelf[b] /= None /\ b <= made /\ shelf'[b] = shelf[b] /\ shelf[b] \in libraries
        BY <1>0, <2>3, <2>4, <3>3
      <4>. QED  BY <2>1, <3>1, <4>1
    <3>. QED  BY <3>2, <3>3
  <2>5. There \subseteq There'
    BY <2>1, <2>3 DEF There, IsThere
  <2>6. made' = made + 1
    BY <2>2 DEF n
  <2>. QED  BY <2>1, <2>2, <2>3, <2>4, <2>5, <2>6 DEF EveryBookShelved, IsThere
<1>2. ASSUME NEW b \in Books, DeleteBook(b)
      PROVE  /\ made' = made /\ libraries' = libraries /\ shelf' \in [Books -> Libraries \cup {None}]
             /\ EveryBookShelved' /\ shelf'[b] = None /\ b <= made
             /\ \A c \in Books : IsThere(c)' => c <= made' /\ IsThere(c)
  BY <1>0, <1>2 DEF DeleteBook, EveryBookShelved, IsThere
<1>3. ASSUME NEW b \in Books, NEW l \in Libraries, MoveBook(b, l)
      PROVE  /\ made' = made /\ libraries' = libraries /\ shelf' \in [Books -> Libraries \cup {None}]
             /\ EveryBookShelved' /\ \A c \in Books : IsThere(c)' => c <= made' /\ IsThere(c)
  BY <1>0, <1>3 DEF MoveBook, Shelvable, EveryBookShelved, IsThere
<1>4. ASSUME NEW l \in Libraries, SaveLibrary(l) \/ DeleteLibrary(l)
      PROVE  /\ made' = made /\ libraries' \subseteq Libraries /\ shelf' = shelf /\ EveryBookShelved'
             /\ \A c \in Books : IsThere(c)' => c <= made' /\ IsThere(c)
  BY <1>0, <1>4 DEF SaveLibrary, DeleteLibrary, EveryBookShelved, IsThere
<1>. QED  BY <1>1, <1>2, <1>3, <1>4

\* The steps of the server that change its tables.
LEMMA TableStep ==
  ASSUME CatalogInv, Elsewhere \/ Carry \/ \E i \in Items, l \in Libraries : ImportBook(i, l)
  PROVE  CatalogInv'
<1>. USE CatalogAssumption
<1>0. /\ CatalogTypeOK /\ OldBooks /\ made \in 0 .. MaxBooks /\ shelf \in [Books -> Libraries \cup {None}]
      /\ item \in [Items -> Item] /\ call \in Call
      /\ \A i \in Items : item[i].book /= None => item[i].book \in Nat
  <2>1. item \in [Items -> Item]
    BY DEF CatalogInv, CatalogTypeOK
  <2>2. \A i \in Items : item[i].book /= None => item[i].book \in Nat
    BY <2>1 DEF Item, Books
  <2>. QED  BY <2>2 DEF CatalogInv, CatalogTypeOK
<1>1. ASSUME made' \in 0 .. MaxBooks, made' >= made,
             shelf' \in [Books -> Libraries \cup {None}], libraries' \subseteq Libraries, EveryBookShelved',
             \A b \in Books : IsThere(b)' => b <= made' /\ (b <= made => IsThere(b)),
             Steady, UNCHANGED item,
             call' \in Call, call'.phase /= "idle" => call'.book \in Books,
             call'.phase = "done" /\ call'.kind = "remove" => call'.book <= made' /\ shelf'[call'.book] = None
      PROVE  CatalogInv'
  <2>1. \A i \in Items : item'[i].book /= None => item'[i].book <= made'
    <3>1. \A i \in Items : item[i].book /= None => item[i].book <= made /\ item[i].book \in Nat
      BY <1>0 DEF OldBooks
    <3>2. made \in Nat /\ made' \in Nat /\ made <= made'
      BY <1>0, <1>1
    <3>3. ASSUME NEW i \in Items, item[i].book /= None
          PROVE  item[i].book <= made'
      BY <3>1, <3>2, <3>3
    <3>. QED  BY <1>1, <3>3
  <2>2. \A i \in Items : item'[i].state = "answered" => item'[i].book \in Books
    BY <1>0, <1>1 DEF OldBooks
  <2>. QED  BY <1>0, <1>1, <2>1, <2>2, ShelfStep
<1>2. CASE Elsewhere
  <2>1. Steady /\ item' = item /\ call' = call
    BY <1>2 DEF Elsewhere
  <2>2. \/ \E l \in Libraries : MakeBook(l) \/ SaveLibrary(l) \/ DeleteLibrary(l)
        \/ \E b \in Books : DeleteBook(b) \/ \E l \in Libraries : MoveBook(b, l)
    BY <1>2 DEF Elsewhere
  <2>3. /\ made' \in 0 .. MaxBooks /\ made' >= made
        /\ shelf' \in [Books -> Libraries \cup {None}] /\ libraries' \subseteq Libraries /\ EveryBookShelved'
        /\ \A b \in Books : IsThere(b)' => b <= made' /\ (b <= made => IsThere(b))
    <3>1. libraries \subseteq Libraries /\ made \in Nat /\ made <= made
      BY <1>0 DEF CatalogTypeOK
    <3>2. ASSUME NEW l \in Libraries, MakeBook(l)
          PROVE  made' \in 0 .. MaxBooks /\ made' >= made
      BY <1>0, <3>2, TableForms DEF Books
    <3>. QED  BY <1>0, <2>2, <3>1, <3>2, TableForms
  <2>4. call.phase = "done" /\ call.kind = "remove" => call.book <= made' /\ shelf'[call.book] = None
    <3>. SUFFICES ASSUME call.phase = "done", call.kind = "remove"
         PROVE  call.book <= made' /\ shelf'[call.book] = None
      OBVIOUS
    <3>1. call.book \in Books /\ call.book <= made /\ ~IsThere(call.book)
      BY <1>0 DEF OldBooks
    <3>2. call.book \in Nat /\ made \in Nat /\ made' \in Nat /\ made <= made'
      BY <1>0, <2>3, <3>1 DEF Books
    <3>3. PICK b \in Books : b = call.book
      BY <3>1
    <3>4. shelf'[b] = None
      BY <2>3, <3>1, <3>3 DEF IsThere
    <3>5. call.book <= made'
      BY <3>1, <3>2
    <3>. QED  BY <3>3, <3>4, <3>5
  <2>5. call.phase /= "idle" => call.book \in Books
    BY <1>0 DEF OldBooks
  <2>. QED  BY <1>0, <1>1, <2>1, <2>3, <2>4, <2>5
<1>3. CASE Carry
  <2>. DEFINE new == [call EXCEPT !.phase = "done"]
  <2>1. /\ Steady /\ item' = item /\ call' = new /\ call.phase = "sent"
        /\ call.kind = "remove" => DeleteBook(call.book)
        /\ call.kind /= "remove" => MoveBook(call.book, call.to)
    BY <1>3 DEF Carry
  <2>2. new \in Call /\ new.phase = "done" /\ new.kind = call.kind /\ new.book = call.book
    BY <1>0 DEF Call
  <2>. HIDE DEF new
  <2>3. call.book \in Books /\ call.to \in Libraries
    BY <1>0, <2>1 DEF OldBooks, Call
  <2>4. /\ made' \in 0 .. MaxBooks /\ made' >= made
        /\ shelf' \in [Books -> Libraries \cup {None}] /\ libraries' \subseteq Libraries /\ EveryBookShelved'
        /\ \A b \in Books : IsThere(b)' => b <= made' /\ (b <= made => IsThere(b))
        /\ call.kind = "remove" => call.book <= made' /\ shelf'[call.book] = None
    <3>1. libraries \subseteq Libraries /\ made \in Nat /\ made <= made
      BY <1>0 DEF CatalogTypeOK
    <3>. QED  BY <1>0, <2>1, <2>3, <3>1, TableForms
  <2>. QED  BY <1>0, <1>1, <2>1, <2>2, <2>3, <2>4
<1>4. ASSUME NEW i \in Items, NEW l \in Libraries, ImportBook(i, l)
      PROVE  CatalogInv'
  <2>1. MakeBook(l) /\ UNCHANGED <<list, fetch, call, told>>
    BY <1>4 DEF ImportBook
  <2>2. /\ made' = made + 1 /\ made' \in Books /\ libraries' = libraries
        /\ shelf' \in [Books -> Libraries \cup {None}] /\ There \subseteq There'
        /\ EveryBookShelved' /\ \A b \in Books : IsThere(b)' => b <= made' /\ (b <= made => IsThere(b))
    BY <2>1, TableForms
  <2>3. made \in Nat /\ made' \in Nat /\ made' \in 0 .. MaxBooks /\ made' >= made /\ made' <= made'
    BY <1>0, <2>2 DEF Books
  <2>. DEFINE n == made'
              x == [state |-> "answered", book |-> n]
  <2>4. item' = [item EXCEPT ![i] = x]
    BY <1>4 DEF ImportBook
  <2>5. x \in Item /\ x.book = n /\ n \in Books
    BY <2>2 DEF Item
  <2>. HIDE DEF n, x
  <2>6. item' \in [Items -> Item] /\ \A j \in Items : item'[j] = IF j = i THEN x ELSE item[j]
    BY <1>0, <2>4, <2>5
  <2>7. ASSUME NEW j \in Items, item'[j].book /= None
        PROVE  item'[j].book <= made'
    <3>1. CASE j = i
      BY <2>3, <2>5, <2>6, <3>1 DEF n
    <3>2. CASE j /= i
      <4>1. item[j].book \in Nat /\ item[j].book <= made /\ item'[j] = item[j]
        BY <1>0, <2>6, <2>7, <3>2 DEF OldBooks
      <4>. QED  BY <2>3, <4>1
    <3>. QED  BY <3>1, <3>2
  <2>8. \A j \in Items : item'[j].state = "answered" => item'[j].book \in Books
    BY <1>0, <2>5, <2>6 DEF OldBooks
  <2>9. call' \in Call /\ (call'.phase /= "idle" => call'.book \in Books)
    BY <1>0, <2>1 DEF OldBooks
  <2>10. call'.phase = "done" /\ call'.kind = "remove" => call'.book <= made' /\ shelf'[call'.book] = None
    <3>. SUFFICES ASSUME call.phase = "done", call.kind = "remove"
         PROVE  call.book <= made' /\ shelf'[call.book] = None
      BY <2>1
    <3>1. call.book \in Books /\ call.book <= made /\ ~IsThere(call.book)
      BY <1>0 DEF OldBooks
    <3>2. call.book \in Nat
      BY <3>1 DEF Books
    <3>3. PICK b \in Books : b = call.book
      BY <3>1
    <3>4. shelf'[b] = None
      BY <2>2, <3>1, <3>3 DEF IsThere
    <3>5. call.book <= made'
      BY <2>3, <2>2, <3>1, <3>2
    <3>. QED  BY <3>3, <3>4, <3>5
  <2>11. libraries' \subseteq Libraries
    BY <1>0, <2>2 DEF CatalogTypeOK
  <2>. QED  BY <2>1, <2>2, <2>3, <2>6, <2>7, <2>8, <2>9, <2>10, <2>11, ShelfStep
<1>. QED  BY <1>2, <1>3, <1>4

\* What the next steps leave alone, and what they may change of the history.
LEMMA ListFrame ==
  ASSUME CatalogInv, UNCHANGED serverVars, list' \in List, fetch' \in Fetch,
         told' \in [{"made", "gone"} -> SUBSET Books],
         item' \in [Items -> Item], call' \in Call,
         \A i \in Items : item'[i].book = item[i].book /\ (item'[i].state = "answered" => item[i].state = "answered"),
         call' = call \/ call'.phase = "idle",
         \A b \in told'.made \cup told'.gone : b <= made, \A b \in told'.gone : ~IsThere(b)
  PROVE  CatalogTypeOK' /\ EveryBookShelved' /\ OldBooks' /\ There' = There
<1>1. made' = made /\ shelf' = shelf /\ libraries' = libraries
  BY DEF serverVars
<1>2. There' = There
  BY <1>1 DEF There, IsThere
<1>3. CatalogTypeOK'
  BY <1>1 DEF CatalogInv, CatalogTypeOK
<1>4. EveryBookShelved'
  BY <1>1 DEF CatalogInv, EveryBookShelved, IsThere
<1>5. OldBooks'
  <2>1. OldBooks
    BY DEF CatalogInv
  <2>. QED  BY <1>1, <2>1 DEF OldBooks, IsThere
<1>. QED  BY <1>2, <1>3, <1>4, <1>5

\* The steps of the list alone.
LEMMA ListStep ==
  ASSUME CatalogInv, ListBooks \/ Load \/ LoadMore \/ Arrive \/ FetchFails
  PROVE  CatalogInv'
<1>. USE CatalogAssumption
<1>0. /\ CatalogTypeOK /\ OldBooks /\ ListInv /\ MadeInv
      /\ list \in List /\ fetch \in Fetch /\ told \in [{"made", "gone"} -> SUBSET Books]
      /\ list.now \in Listing /\ fetch.got \in Listing /\ list.failed \in BOOLEAN /\ fetch.more \in BOOLEAN
      /\ item \in [Items -> Item] /\ call \in Call
      /\ There \subseteq Books
  BY DEF CatalogInv, CatalogTypeOK, List, Fetch, There
<1>1. ASSUME UNCHANGED <<serverVars, item, call>>, list' \in List, fetch' \in Fetch,
             told' \in [{"made", "gone"} -> SUBSET Books],
             told'.gone = told.gone, told'.made \subseteq told.made
      PROVE  CatalogTypeOK' /\ EveryBookShelved' /\ OldBooks' /\ There' = There
  BY <1>0, <1>1, ListFrame DEF OldBooks
<1>2. CASE ListBooks
  <2>. DEFINE m == [fetch.got EXCEPT !.pages = Append(@, PageAt(fetch.got)), !.next = NextAfter(PageAt(fetch.got))]
  <2>1. /\ fetch.phase = "asked" /\ UNCHANGED <<serverVars, list, item, call, told>>
        /\ fetch' = [fetch EXCEPT !.phase = "answered", !.got = m]
    BY <1>2 DEF ListBooks
  <2>2. PageAt(fetch.got) \in SUBSET Books /\ PageAt(fetch.got) \subseteq There
    BY <1>0, PageForms
  <2>3. NextAfter(PageAt(fetch.got)) \in 0 .. MaxBooks
    BY <2>2, NextForms
  <2>4. Append(fetch.got.pages, PageAt(fetch.got)) \in Seq(SUBSET Books)
    <3>1. fetch.got.pages \in Seq(SUBSET Books)
      BY <1>0 DEF Listing
    <3>. QED  BY <2>2, <3>1, AppendProperties
  <2>5. /\ m \in Listing /\ m.pages = Append(fetch.got.pages, PageAt(fetch.got))
        /\ m.next = NextAfter(PageAt(fetch.got)) /\ m.steady = fetch.got.steady
    BY <1>0, <2>3, <2>4 DEF Listing
  <2>. HIDE DEF m
  <2>6. fetch' \in Fetch /\ fetch'.phase = "answered" /\ fetch'.more = fetch.more /\ fetch'.got = m
    BY <1>0, <2>1, <2>5 DEF Fetch
  <2>7. /\ Paged(m) /\ m.pages /= <<>>
        /\ Listed(m) = Listed(fetch.got) \cup PageAt(fetch.got)
        /\ \A X \in SUBSET There : fetch.got.pages = <<>> \/ Complete(fetch.got, X) => Complete(m, X)
    BY <1>0, <2>1, <2>5, Append1 DEF ListInv
  <2>8. CatalogTypeOK' /\ EveryBookShelved' /\ OldBooks' /\ There' = There
    BY <1>0, <1>1, <2>1, <2>6
  <2>9. Complete(m, fetch.got.steady) /\ \A b \in told.gone : b \notin Listed(m)
    <3>1. \A b \in told.gone : b \notin There
      BY <1>0 DEF OldBooks, There
    <3>. QED  BY <1>0, <2>2, <2>7, <3>1 DEF ListInv
  <2>10. ListInv'
    <3>1. list' = list /\ told' = told
      BY <2>1
    <3>. QED  BY <1>0, <2>5, <2>6, <2>7, <2>8, <2>9, <3>1 DEF ListInv
  <2>11. MadeInv'
    <3>1. list' = list /\ told' = told /\ fetch.phase /= "idle"
      BY <2>1
    <3>2. fetch.more => Complete(m, told.made \cap There)
      BY <1>0, <2>7, <3>1 DEF MadeInv
    <3>. QED  BY <1>0, <2>5, <2>6, <2>8, <3>1, <3>2 DEF MadeInv
  <2>. QED  BY <2>8, <2>10, <2>11 DEF CatalogInv
<1>3. CASE Load
  <2>1. fetch' = Started /\ UNCHANGED <<serverVars, list, item, call, told>>
    BY <1>3 DEF Load
  <2>2. list' = list /\ told' = told
    BY <2>1
  <2>3. CatalogTypeOK' /\ EveryBookShelved' /\ OldBooks' /\ There' = There
    BY <1>0, <1>1, <2>1, CatalogForms
  <2>4. /\ fetch' \in Fetch /\ fetch'.phase = "asked" /\ fetch'.more = FALSE
        /\ fetch'.got.pages = <<>> /\ fetch'.got.next = 0 /\ fetch'.got.steady = There
    BY <1>0, <2>1, CatalogForms
  <2>5. Paged(fetch'.got) /\ Listed(fetch'.got) = {}
    BY <2>4, NoPages
  <2>6. ListInv' /\ MadeInv'
    BY <1>0, <2>2, <2>3, <2>4, <2>5 DEF ListInv, MadeInv
  <2>. QED  BY <2>3, <2>6 DEF CatalogInv
<1>4. CASE LoadMore
  <2>. DEFINE f == [phase |-> "asked", more |-> TRUE, got |-> list.now]
  <2>1. /\ list.now.next /= 0 /\ UNCHANGED <<serverVars, list, item, call>>
        /\ fetch' = f
    BY <1>4 DEF LoadMore
  <2>2. f \in Fetch /\ f.phase = "asked" /\ f.more = TRUE /\ f.got = list.now
    BY <1>0 DEF Fetch
  <2>. HIDE DEF f
  <2>3. /\ told' \in [{"made", "gone"} -> SUBSET Books] /\ told'.gone = told.gone /\ told'.made \subseteq told.made
        /\ Complete(list.now, told'.made \cap There)
    <3>1. CASE fetch.phase = "idle" /\ ~list.failed
      <4>1. told' = told
        BY <1>4, <3>1 DEF LoadMore
      <4>. QED  BY <1>0, <3>1, <4>1 DEF MadeInv
    <3>2. CASE ~(fetch.phase = "idle" /\ ~list.failed)
      <4>1. told' = [told EXCEPT !.made = {}]
        BY <1>4, <3>2 DEF LoadMore
      <4>2. told' \in [{"made", "gone"} -> SUBSET Books] /\ told'.gone = told.gone /\ told'.made = {}
        BY <1>0, <4>1
      <4>. QED  BY <4>2 DEF Complete
    <3>. QED  BY <3>1, <3>2
  <2>4. list' = list /\ fetch' \in Fetch /\ fetch'.phase = "asked" /\ fetch'.more = TRUE /\ fetch'.got = list.now
    BY <2>1, <2>2
  <2>5. CatalogTypeOK' /\ EveryBookShelved' /\ OldBooks' /\ There' = There
    BY <1>0, <1>1, <2>1, <2>3, <2>4
  <2>6. ListInv' /\ MadeInv'
    BY <1>0, <2>1, <2>3, <2>4, <2>5 DEF ListInv, MadeInv
  <2>. QED  BY <2>5, <2>6 DEF CatalogInv
<1>5. CASE Arrive
  <2>1. fetch.phase = "answered" /\ UNCHANGED <<serverVars, item, call, told>> /\ told' = told
    BY <1>5 DEF Arrive
  <2>2. CASE ~fetch.more /\ fetch.got.next /= 0 /\ Len(fetch.got.pages) < Len(list.now.pages)
    <3>1. fetch' = [fetch EXCEPT !.phase = "asked"] /\ list' = list
      BY <1>5, <2>2 DEF Arrive
    <3>2. fetch' \in Fetch /\ fetch'.phase = "asked" /\ fetch'.more = fetch.more /\ fetch'.got = fetch.got
      BY <1>0, <3>1 DEF Fetch
    <3>3. CatalogTypeOK' /\ EveryBookShelved' /\ OldBooks' /\ There' = There
      BY <1>0, <1>1, <2>1, <3>1, <3>2
    <3>4. ListInv' /\ MadeInv'
      BY <1>0, <2>1, <2>2, <3>1, <3>2, <3>3 DEF ListInv, MadeInv
    <3>. QED  BY <3>3, <3>4 DEF CatalogInv
  <2>3. CASE ~(~fetch.more /\ fetch.got.next /= 0 /\ Len(fetch.got.pages) < Len(list.now.pages))
    <3>1. fetch' = NoFetch /\ list' = [loaded |-> TRUE, failed |-> FALSE, now |-> fetch.got]
      BY <1>5, <2>3 DEF Arrive
    <3>2. list' \in List /\ list'.now = fetch.got /\ list'.failed = FALSE
      BY <1>0, <3>1 DEF List
    <3>3. /\ fetch' \in Fetch /\ fetch'.phase = "idle" /\ fetch'.got.steady = {}
          /\ fetch'.got.pages = <<>> /\ fetch'.got.next = 0
      BY <1>0, <3>1, CatalogForms
    <3>4. CatalogTypeOK' /\ EveryBookShelved' /\ OldBooks' /\ There' = There
      BY <1>0, <1>1, <2>1, <3>2, <3>3
    <3>5. Paged(fetch'.got) /\ Listed(fetch'.got) = {}
      BY <3>3, NoPages
    <3>6. Complete(fetch.got, fetch.got.steady) /\ Complete(fetch.got, told.made \cap There)
      <4>1. Complete(fetch.got, fetch.got.steady)
        BY <1>0, <2>1 DEF ListInv
      <4>2. CASE fetch.more
        BY <1>0, <2>1, <4>1, <4>2 DEF MadeInv
      <4>3. CASE ~fetch.more
        <5>1. told.made \cap There \subseteq fetch.got.steady
          BY <1>0, <2>1, <4>3 DEF MadeInv
        <5>. QED  BY <4>1, <5>1, SamePages
      <4>. QED  BY <4>2, <4>3
    <3>7. ListInv' /\ MadeInv'
      BY <1>0, <2>1, <3>2, <3>3, <3>4, <3>5, <3>6 DEF ListInv, MadeInv
    <3>. QED  BY <3>4, <3>7 DEF CatalogInv
  <2>. QED  BY <2>2, <2>3
<1>6. CASE FetchFails
  <2>1. /\ fetch' = NoFetch /\ list' = [list EXCEPT !.failed = TRUE]
        /\ UNCHANGED <<serverVars, item, call, told>> /\ told' = told
    BY <1>6 DEF FetchFails
  <2>2. list' \in List /\ list'.now = list.now /\ list'.failed = TRUE
    BY <1>0, <2>1 DEF List
  <2>3. /\ fetch' \in Fetch /\ fetch'.phase = "idle" /\ fetch'.got.steady = {}
        /\ fetch'.got.pages = <<>> /\ fetch'.got.next = 0
    BY <1>0, <2>1, CatalogForms
  <2>4. CatalogTypeOK' /\ EveryBookShelved' /\ OldBooks' /\ There' = There
    BY <1>0, <1>1, <2>1, <2>2, <2>3
  <2>5. Paged(fetch'.got) /\ Listed(fetch'.got) = {}
    BY <2>3, NoPages
  <2>6. ListInv' /\ MadeInv'
    BY <1>0, <2>1, <2>2, <2>3, <2>4, <2>5 DEF ListInv, MadeInv
  <2>. QED  BY <2>4, <2>6 DEF CatalogInv
<1>. QED  BY <1>2, <1>3, <1>4, <1>5, <1>6

\* A fetch that an answer invalidates: it starts again, or is the first one.
LEMMA InvalidatedForms ==
  ASSUME CatalogInv
  PROVE  \/ Invalidated = Started
         \/ Invalidated = fetch /\ fetch.phase /= "idle" /\ ~list.loaded
BY DEF Invalidated

\* What an answer adds to the history is told of a list only.
LEMMA Told ==
  ASSUME CatalogInv, NEW what \in {"made", "gone"}, NEW b \in Books, Tell(what, b)
  PROVE  /\ told' \in [{"made", "gone"} -> SUBSET Books]
         /\ ~list.loaded => told' = told
         /\ list.loaded => told'[what] = told[what] \cup {b}
         /\ \A w \in {"made", "gone"} \ {what} : told'[w] = told[w]
<1>1. told \in [{"made", "gone"} -> SUBSET Books]
  BY DEF CatalogInv, CatalogTypeOK
<1>2. CASE list.loaded
  <2>1. told' = [told EXCEPT ![what] = told[what] \cup {b}]
    BY <1>2 DEF Tell
  <2>. QED  BY <1>1, <1>2, <2>1
<1>3. CASE ~list.loaded
  <2>1. told' = told
    BY <1>3 DEF Tell
  <2>. QED  BY <1>1, <1>3, <2>1
<1>. QED  BY <1>2, <1>3

\* An import is answered: the list is fetched again, unless its first fetch is
\* under way, and then the page was told nothing.
LEMMA ImportedStep ==
  ASSUME CatalogInv, NEW i \in Items, Imported(i)
  PROVE  CatalogInv'
<1>. USE CatalogAssumption
<1>0. /\ CatalogTypeOK /\ OldBooks /\ ListInv /\ MadeInv
      /\ list \in List /\ fetch \in Fetch /\ told \in [{"made", "gone"} -> SUBSET Books]
      /\ item \in [Items -> Item] /\ call \in Call /\ item[i] \in Item
      /\ There \subseteq Books
  BY DEF CatalogInv, CatalogTypeOK, There
<1>. DEFINE x == [item[i] EXCEPT !.state = "done"]
<1>1. /\ item[i].state = "answered" /\ item' = [item EXCEPT ![i] = x]
      /\ fetch' = Invalidated /\ Tell("made", item[i].book) /\ UNCHANGED <<serverVars, list, call>>
  BY DEF Imported
<1>2. x \in Item /\ x.book = item[i].book /\ x.state = "done"
  BY <1>0 DEF Item
<1>. HIDE DEF x
<1>3. /\ item' \in [Items -> Item]
      /\ \A j \in Items : item'[j].book = item[j].book /\ (item'[j].state = "answered" => item[j].state = "answered")
  BY <1>0, <1>1, <1>2
<1>4. item[i].book \in Books /\ item[i].book <= made
  <2>1. item[i].book \in Books
    BY <1>0, <1>1 DEF OldBooks
  <2>. QED  BY <1>0, <2>1 DEF OldBooks
<1>5. /\ told' \in [{"made", "gone"} -> SUBSET Books] /\ told'.gone = told.gone
      /\ ~list.loaded => told' = told
      /\ told'.made \subseteq told.made \cup {item[i].book}
  BY <1>0, <1>1, <1>4, Told
<1>6. fetch' \in Fetch
  BY <1>0, <1>1, InvalidatedForms, CatalogForms
<1>7. CatalogTypeOK' /\ EveryBookShelved' /\ OldBooks' /\ There' = There
  <2>1. list' \in List /\ call' \in Call /\ call' = call
    BY <1>0, <1>1
  <2>2. \A b \in told'.made \cup told'.gone : b <= made
    BY <1>0, <1>4, <1>5 DEF OldBooks
  <2>3. \A b \in told'.gone : ~IsThere(b)
    BY <1>0, <1>5 DEF OldBooks
  <2>. QED  BY <1>1, <1>3, <1>5, <1>6, <2>1, <2>2, <2>3, ListFrame
<1>8. list' = list
  BY <1>1
<1>9. CASE Invalidated = Started
  <2>1. /\ fetch'.phase = "asked" /\ fetch'.more = FALSE
        /\ fetch'.got.pages = <<>> /\ fetch'.got.next = 0 /\ fetch'.got.steady = There
    BY <1>0, <1>1, <1>9, CatalogForms
  <2>2. Paged(fetch'.got) /\ Listed(fetch'.got) = {}
    BY <2>1, NoPages
  <2>3. ListInv' /\ MadeInv'
    BY <1>0, <1>5, <1>7, <1>8, <2>1, <2>2 DEF ListInv, MadeInv
  <2>. QED  BY <1>7, <2>3 DEF CatalogInv
<1>10. CASE Invalidated = fetch /\ fetch.phase /= "idle" /\ ~list.loaded
  <2>1. fetch' = fetch /\ told' = told
    BY <1>1, <1>5, <1>10
  <2>2. ListInv' /\ MadeInv'
    BY <1>0, <1>7, <1>8, <2>1 DEF ListInv, MadeInv
  <2>. QED  BY <1>7, <2>2 DEF CatalogInv
<1>. QED  BY <1>9, <1>10, InvalidatedForms

\* A list without a book has the rest, on the same pages.
LEMMA WithoutForms ==
  ASSUME NEW l \in Listing, NEW b \in Books
  PROVE  /\ Without(l, b) \in Listing /\ Without(l, b).next = l.next /\ Without(l, b).steady = l.steady
         /\ Listed(Without(l, b)) = Listed(l) \ {b}
         /\ Paged(l) => Paged(Without(l, b))
<1>. DEFINE p == [i \in DOMAIN l.pages |-> l.pages[i] \ {b}]
            n == Len(l.pages)
            m == Without(l, b)
<1>1. n \in Nat /\ DOMAIN l.pages = 1 .. n /\ l.pages \in [1 .. n -> SUBSET Books]
  <2>1. l.pages \in Seq(SUBSET Books)
    BY DEF Listing
  <2>. QED  BY <2>1, LenProperties
<1>2. p \in Seq(SUBSET Books)
  <2>1. p \in [1 .. n -> SUBSET Books]
    BY <1>1
  <2>. QED  BY <1>1, <2>1, SeqDef
<1>3. m = [l EXCEPT !.pages = p]
  BY DEF Without
<1>4. DOMAIN p = DOMAIN l.pages /\ \A i \in DOMAIN l.pages : p[i] = l.pages[i] \ {b}
  OBVIOUS
<1>. HIDE DEF p, m
<1>5. m \in Listing /\ m.pages = p /\ m.next = l.next /\ m.steady = l.steady
  BY <1>2, <1>3 DEF Listing
<1>6. Listed(m) = Listed(l) \ {b}
  BY <1>4, <1>5 DEF Listed
<1>7. ASSUME Paged(l)
      PROVE  Paged(m)
  <2>1. \A i, j \in DOMAIN m.pages : i /= j => m.pages[i] \cap m.pages[j] = {}
    BY <1>4, <1>5, <1>7 DEF Paged
  <2>2. \A i \in DOMAIN m.pages : m.next /= 0 => \A c \in m.pages[i] : c >= m.next
    BY <1>4, <1>5, <1>7 DEF Paged
  <2>3. m.pages = <<>> => l.pages = <<>>
    <3>. SUFFICES ASSUME p = <<>>
         PROVE  l.pages = <<>>
      BY <1>5
    <3>1. DOMAIN l.pages = {}
      BY <1>4
    <3>2. l.pages \in Seq(SUBSET Books) /\ 1 \notin 1 .. n
      BY <1>1, <3>1 DEF Listing
    <3>3. n = 0
      BY <1>1, <3>2
    <3>. HIDE DEF n
    <3>4. Len(l.pages) = 0
      BY <3>3 DEF n
    <3>. QED  BY <3>2, <3>4, EmptySeq
  <2>. QED  BY <1>5, <1>7, <2>1, <2>2, <2>3 DEF Paged
<1>. QED  BY <1>5, <1>6, <1>7 DEF m

\* A removal or a move is answered: a removed book leaves the list with its
\* answer, and no fetch that saw it goes on.
LEMMA CallDoneStep ==
  ASSUME CatalogInv, CallDone
  PROVE  CatalogInv'
<1>. USE CatalogAssumption
<1>0. /\ CatalogTypeOK /\ OldBooks /\ ListInv /\ MadeInv
      /\ list \in List /\ fetch \in Fetch /\ told \in [{"made", "gone"} -> SUBSET Books]
      /\ item \in [Items -> Item] /\ call \in Call /\ list.now \in Listing
      /\ There \subseteq Books
  BY DEF CatalogInv, CatalogTypeOK, There, List
<1>1. /\ call.phase = "done" /\ call' = NoCall /\ fetch' = Invalidated
      /\ UNCHANGED serverVars /\ item' = item
      /\ call.kind = "remove" => list' = [list EXCEPT !.now = Without(list.now, call.book)] /\ Tell("gone", call.book)
      /\ call.kind /= "remove" => list' = list /\ told' = told
  BY DEF CallDone
<1>2. call.book \in Books /\ (call.kind = "remove" => call.book <= made /\ ~IsThere(call.book))
  BY <1>0, <1>1 DEF OldBooks
<1>3. fetch' \in Fetch /\ call' \in Call /\ call'.phase = "idle"
  BY <1>0, <1>1, InvalidatedForms, CatalogForms
<1>4. /\ list' \in List /\ list'.failed = list.failed /\ list'.now.next = list.now.next
      /\ list'.now.steady = list.now.steady /\ Paged(list'.now)
      /\ Listed(list'.now) = IF call.kind = "remove" THEN Listed(list.now) \ {call.book} ELSE Listed(list.now)
  <2>1. CASE call.kind = "remove"
    <3>. DEFINE l == Without(list.now, call.book)
    <3>1. l \in Listing /\ l.next = list.now.next /\ l.steady = list.now.steady /\ Paged(l)
          /\ Listed(l) = Listed(list.now) \ {call.book}
      BY <1>0, <1>2, WithoutForms DEF ListInv
    <3>. HIDE DEF l
    <3>2. list' = [list EXCEPT !.now = l]
      BY <1>1, <2>1 DEF l
    <3>3. list' \in List /\ list'.failed = list.failed /\ list'.now = l
      BY <1>0, <3>1, <3>2 DEF List
    <3>. QED  BY <2>1, <3>1, <3>3
  <2>2. CASE call.kind /= "remove"
    BY <1>0, <1>1, <2>2 DEF ListInv
  <2>. QED  BY <2>1, <2>2
<1>5. /\ told' \in [{"made", "gone"} -> SUBSET Books] /\ told'.made = told.made
      /\ told'.gone \subseteq told.gone \cup (IF call.kind = "remove" THEN {call.book} ELSE {})
      /\ ~list.loaded => told' = told
  <2>1. CASE call.kind = "remove"
    BY <1>0, <1>1, <1>2, <2>1, Told
  <2>2. CASE call.kind /= "remove"
    BY <1>0, <1>1, <2>2
  <2>. QED  BY <2>1, <2>2
<1>6. \A b \in told'.gone : ~IsThere(b) /\ b <= made /\ b \notin Listed(list'.now)
  <2>1. ASSUME NEW b \in told.gone
        PROVE  ~IsThere(b) /\ b <= made /\ b \notin Listed(list'.now)
    BY <1>0, <1>4 DEF OldBooks, ListInv
  <2>. QED  BY <1>2, <1>4, <1>5, <2>1
<1>7. CatalogTypeOK' /\ EveryBookShelved' /\ OldBooks' /\ There' = There
  <2>1. \A b \in told'.made \cup told'.gone : b <= made
    BY <1>0, <1>5, <1>6 DEF OldBooks
  <2>2. item' \in [Items -> Item]
    BY <1>0, <1>1
  <2>. QED  BY <1>1, <1>3, <1>4, <1>5, <1>6, <2>1, <2>2, ListFrame
<1>8. \A X \in SUBSET There : Complete(list.now, X) => Complete(list'.now, X)
  <2>1. call.kind = "remove" => call.book \notin There
    BY <1>2 DEF There
  <2>. QED  BY <1>4, <2>1 DEF Complete
<1>9. Complete(list'.now, list'.now.steady) /\ list'.now.steady \subseteq There
  BY <1>0, <1>4, <1>8 DEF ListInv
<1>10. told'.made \cap There = told.made \cap There
  BY <1>5
<1>11. CASE Invalidated = Started
  <2>1. /\ fetch'.phase = "asked" /\ fetch'.more = FALSE
        /\ fetch'.got.pages = <<>> /\ fetch'.got.next = 0 /\ fetch'.got.steady = There
    BY <1>0, <1>1, <1>11, CatalogForms
  <2>2. Paged(fetch'.got) /\ Listed(fetch'.got) = {}
    BY <2>1, NoPages
  <2>3. ListInv'
    BY <1>4, <1>6, <1>7, <1>9, <2>1, <2>2 DEF ListInv
  <2>4. MadeInv'
    BY <1>7, <1>10, <2>1 DEF MadeInv
  <2>. QED  BY <1>7, <2>3, <2>4 DEF CatalogInv
<1>12. CASE Invalidated = fetch /\ fetch.phase /= "idle" /\ ~list.loaded
  <2>1. fetch' = fetch /\ told' = told
    BY <1>1, <1>5, <1>12
  <2>2. ListInv'
    BY <1>0, <1>4, <1>6, <1>7, <1>9, <2>1 DEF ListInv
  <2>3. MadeInv'
    BY <1>0, <1>7, <1>12, <2>1 DEF MadeInv
  <2>. QED  BY <1>7, <2>2, <2>3 DEF CatalogInv
<1>. QED  BY <1>11, <1>12, InvalidatedForms

\* Every step keeps the invariant.
LEMMA CatalogStep ==
  ASSUME CatalogInv, [CatalogNext]_catalogVars
  PROVE  CatalogInv'
<1>1. CASE UNCHANGED catalogVars
  <2>1. UNCHANGED <<made, shelf, libraries, list, fetch, item, call, told>>
    BY <1>1 DEF catalogVars, serverVars
  <2>2. CatalogTypeOK' /\ EveryBookShelved' /\ OldBooks'
    BY <2>1 DEF CatalogInv, CatalogTypeOK, EveryBookShelved, OldBooks, IsThere
  <2>3. ListInv' /\ MadeInv'
    BY <2>1 DEF CatalogInv, ListInv, MadeInv, Paged, Complete, Listed, There, IsThere
  <2>. QED  BY <2>2, <2>3 DEF CatalogInv
<1>2. CASE CatalogNext
  BY <1>2, PanelStep, TableStep, ListStep, ImportedStep, CallDoneStep DEF CatalogNext
<1>. QED  BY <1>1, <1>2

\* CatalogInv is an invariant.
LEMMA CatalogInvariant == CatalogSpec => []CatalogInv
<1>1. CatalogInit => CatalogInv
  <2>. SUFFICES ASSUME CatalogInit
       PROVE  CatalogInv
    OBVIOUS
  <2>. USE CatalogAssumption
  <2>. DEFINE x == [state |-> "absent", book |-> None]
  <2>1. /\ made = 0 /\ shelf = [b \in Books |-> None] /\ libraries = {Main}
        /\ list = [loaded |-> FALSE, failed |-> FALSE, now |-> Empty] /\ fetch = NoFetch
        /\ item = [i \in Items |-> x] /\ call = NoCall /\ told = [made |-> {}, gone |-> {}]
    BY DEF CatalogInit
  <2>2. x \in Item /\ x.book = None /\ x.state = "absent"
    BY DEF Item
  <2>. HIDE DEF x
  <2>3. /\ Empty \in Listing /\ Empty.pages = <<>> /\ Empty.next = 0 /\ Empty.steady = {}
        /\ NoFetch \in Fetch /\ NoFetch.phase = "idle" /\ NoFetch.got = Empty
        /\ NoCall \in Call /\ NoCall.phase = "idle"
    <3>1. <<>> \in Seq(SUBSET Books)
      BY EmptySeq
    <3>2. Empty \in Listing /\ Empty.pages = <<>> /\ Empty.next = 0 /\ Empty.steady = {}
      BY <3>1 DEF Empty, Listing
    <3>3. NoFetch \in Fetch /\ NoFetch.phase = "idle" /\ NoFetch.got = Empty
      BY <3>2 DEF NoFetch, Fetch
    <3>. QED  BY <3>2, <3>3 DEF NoCall, Call
  <2>4. list \in List /\ list.now = Empty /\ told \in [{"made", "gone"} -> SUBSET Books]
        /\ told.made = {} /\ told.gone = {}
    BY <2>1, <2>3 DEF List
  <2>5. There = {}
    BY <2>1 DEF There, IsThere
  <2>6. /\ made \in 0 .. MaxBooks /\ shelf \in [Books -> Libraries \cup {None}]
        /\ libraries \subseteq Libraries /\ item \in [Items -> Item]
    BY <2>1, <2>2
  <2>7. CatalogTypeOK
    BY <2>1, <2>3, <2>4, <2>6 DEF CatalogTypeOK
  <2>8. EveryBookShelved /\ OldBooks
    BY <2>1, <2>2, <2>3, <2>4 DEF EveryBookShelved, OldBooks, IsThere
  <2>9. Paged(Empty) /\ Listed(Empty) = {} /\ Complete(Empty, {})
    BY <2>3, NoPages DEF Complete
  <2>10. ListInv
    BY <2>1, <2>3, <2>4, <2>5, <2>9 DEF ListInv
  <2>11. MadeInv
    BY <2>1, <2>3, <2>4, <2>5, <2>9 DEF MadeInv
  <2>. QED  BY <2>7, <2>8, <2>10, <2>11 DEF CatalogInv
<1>2. CatalogInv /\ [CatalogNext]_catalogVars => CatalogInv'
  BY CatalogStep
<1>. QED  BY <1>1, <1>2, PTL DEF CatalogSpec

\* The tables and what the page holds have their types (library/store.go,
\* queries.ts, import-panel.tsx).
THEOREM CatalogTypeCorrect == CatalogSpec => []CatalogTypeOK
<1>1. CatalogInv => CatalogTypeOK
  BY DEF CatalogInv
<1>. QED  BY <1>1, CatalogInvariant, PTL

\* Every book is in a library that exists: the library is looked for in the
\* statement that files the book, and one in use is not deleted
\* (library/libraries.go, library/store.go).
THEOREM CatalogEveryBookShelved == CatalogSpec => []EveryBookShelved
<1>1. CatalogInv => EveryBookShelved
  BY DEF CatalogInv
<1>. QED  BY <1>1, CatalogInvariant, PTL

\* No book is on two pages, and one that was there all the while is on the
\* pages loaded, for every page size (library/store.go: search).
THEOREM CatalogPagesComplete == CatalogSpec => []PagesComplete
<1>1. CatalogInv => PagesComplete
  BY DEF CatalogInv, ListInv, Paged, Complete, PagesComplete
<1>. QED  BY <1>1, CatalogInvariant, PTL

\* A deleted book stays off the list and an imported one is on it once no
\* fetch is under way (queries.ts: invalidateCatalog, useDeleteBook).
THEOREM CatalogListFollows == CatalogSpec => []ListFollows
<1>1. CatalogInv => ListFollows
  <2>. SUFFICES ASSUME CatalogInv
       PROVE  ListFollows
    OBVIOUS
  <2>1. told.gone \cap Listed(list.now) = {}
    BY DEF CatalogInv, ListInv
  <2>2. told.made \subseteq Books
    BY DEF CatalogInv, CatalogTypeOK
  <2>3. ASSUME fetch.phase = "idle", ~list.failed, NEW b \in told.made,
               IsThere(b), list.now.next = 0 \/ b >= list.now.next
        PROVE  b \in Listed(list.now)
    BY <2>2, <2>3 DEF CatalogInv, MadeInv, Complete, There
  <2>. QED  BY <2>1, <2>3 DEF ListFollows
<1>. QED  BY <1>1, CatalogInvariant, PTL

=============================================================================
