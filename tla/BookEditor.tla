----------------------------- MODULE BookEditor -----------------------------
(***************************************************************************)
(* The details of one book: the row on the server with its field locks and *)
(* origins, the EPUB its fields were read from, which rescans replace, and *)
(* the editors of the admin console, each a form over a cached copy of the *)
(* row.  The answer to any call of an editor replaces the cached copy; the *)
(* answer to a save or a refresh also replaces the form.                   *)
(*                                                                         *)
(* The cover and its lock are left out: it has calls of its own, which are *)
(* here, with adding an edition, moving the book and fetching it, one call *)
(* (Look) that changes no field but whose answer carries them all.         *)
(***************************************************************************)
EXTENDS Naturals

CONSTANTS
  Editors, Fields,
  Values, Typed,        \* what fields hold; what administrators type
  Blank, None,
  Files, Epub,          \* the files the EPUB goes through; what each says
  Offer,                \* what the online search says
  MaxActs               \* bound: changes of the forms and calls

VARIABLES
  book,     \* server: the row
  file,     \* server: the file of its EPUB edition
  cached,   \* page: the row as the page knows it
  form,     \* page: the form of the open editor
  call,     \* page: its calls; bound: of each kind one at a time, even when
            \* the editor that made it has been closed
  acts

editorVars == <<book, file, cached, form, call, acts>>

Origins == {"epub", "manual", "online"}

ASSUME EditorAssumption ==
  /\ Typed \subseteq Values /\ Blank \in Values /\ None \notin Values \cup Origins
  /\ Files \in Nat \ {0} /\ Epub \in [1 .. Files -> [Fields -> Values \cup {None}]]
  /\ Offer \in [Fields -> Values \cup {None}] /\ MaxActs \in Nat

Row == [value : [Fields -> Values], locks : SUBSET Fields,
        origin : [Fields -> Origins \cup {None}]]
Form == Row
Kinds == {"save", "refresh", "look"}

\* body: what is sent; read: the file a refresh has read; live: the editor
\* that made the call is still open.
Call == [phase : {"idle", "sent", "read", "answered"},
         body : Form \cup {None}, fields : SUBSET Fields,
         read : 0 .. Files, got : Row \cup {None}, live : BOOLEAN]
NoCall == [phase |-> "idle", body |-> None, fields |-> {}, read |-> 0, got |-> None, live |-> FALSE]
Asked == [NoCall EXCEPT !.phase = "sent", !.live = TRUE]

IsOpen(e) == form[e] /= None
Idle(e, k) == call[e][k].phase = "idle"

\* The form of a row: origins are recorded only of what the form changes.
FromBook(b) == [value |-> b.value, locks |-> b.locks, origin |-> [f \in Fields |-> None]]

Dirty(e) == form[e] /= FromBook(cached[e])

-----------------------------------------------------------------------------
(* UpdateMetadata and the automatic updates.                               *)

\* A field that a save changes takes the origin the form gives it; the locks
\* are the form's.
Patched(b, c) ==
  LET Changed(f) == f \in c.fields /\ c.body.value[f] /= b.value[f] IN
  [value  |-> [f \in Fields |-> IF Changed(f) THEN c.body.value[f] ELSE b.value[f]],
   locks  |-> c.body.locks,
   origin |-> [f \in Fields |-> IF ~Changed(f) THEN b.origin[f]
                                ELSE IF c.body.origin[f] = None THEN "manual" ELSE c.body.origin[f]]]

\* A value the file lacks stays, and so does one that is locked.
Extracted(b, n) ==
  LET Taken(f) == f \notin b.locks /\ Epub[n][f] /= None IN
  [value  |-> [f \in Fields |-> IF Taken(f) THEN Epub[n][f] ELSE b.value[f]],
   locks  |-> b.locks,
   origin |-> [f \in Fields |-> IF Taken(f) THEN "epub" ELSE b.origin[f]]]

NewRow == [value |-> [f \in Fields |-> Blank], locks |-> {}, origin |-> [f \in Fields |-> None]]

-----------------------------------------------------------------------------
(* The forms. *)

Act == acts < MaxActs /\ acts' = acts + 1

Edit(e, new) ==
  /\ IsOpen(e) /\ Act
  /\ form' = [form EXCEPT ![e] = new]
  /\ UNCHANGED <<book, file, cached, call>>

\* Mutant: the origin of a suggestion outlives the suggestion.
TypedInKept(b, f, v) ==
  [b EXCEPT !.value[f] = v, !.locks = @ \cup {f}, !.origin[f] = IF @ = None THEN "manual" ELSE @]

\* Typing in a field makes it manual and locks it.
TypedIn(b, f, v) ==
  [b EXCEPT !.value[f] = v, !.locks = @ \cup {f}, !.origin[f] = "manual"]

Type(e, f, v) == IsOpen(e) /\ Edit(e, TypedIn(form[e], f, v))

ToggleLock(e, f) ==
  /\ IsOpen(e)
  /\ Edit(e, [form[e] EXCEPT !.locks = IF f \in @ THEN @ \ {f} ELSE @ \cup {f}])

\* A suggestion fills the fields that are not locked, and locks them.
Use(e) ==
  /\ IsOpen(e)
  /\ LET patch == {f \in Fields : Offer[f] /= None /\ f \notin form[e].locks} IN
     /\ patch /= {}
     /\ Edit(e, [value  |-> [f \in Fields |-> IF f \in patch THEN Offer[f] ELSE form[e].value[f]],
                 locks  |-> form[e].locks \cup patch,
                 origin |-> [f \in Fields |-> IF f \in patch THEN "online" ELSE form[e].origin[f]]])

\* The form is made once, of the row the page has; what a fetch brings later
\* changes what it is compared with.
Open(e) ==
  /\ ~IsOpen(e)
  /\ form' = [form EXCEPT ![e] = FromBook(cached[e])]
  /\ \/ UNCHANGED <<call, acts>>
     \/ Idle(e, "look") /\ Act /\ call' = [call EXCEPT ![e].look = Asked]
  /\ UNCHANGED <<book, file, cached>>

\* What was typed goes; calls under way are answered to the page alone.
Close(e) ==
  /\ IsOpen(e)
  /\ form' = [form EXCEPT ![e] = None]
  /\ call' = [call EXCEPT ![e] = [k \in Kinds |-> [@[k] EXCEPT !.live = FALSE]]]
  /\ UNCHANGED <<book, file, cached, acts>>

\* Only fields that differ from the row the page has are sent, but all locks.
Save(e) ==
  /\ IsOpen(e) /\ Act /\ Dirty(e) /\ Idle(e, "save")
  /\ call' = [call EXCEPT ![e].save =
       [Asked EXCEPT !.body = form[e],
                     !.fields = {f \in Fields : form[e].value[f] /= cached[e].value[f]}]]
  /\ UNCHANGED <<book, file, cached, form>>

Refresh(e) ==
  /\ IsOpen(e) /\ Act /\ ~Dirty(e) /\ Idle(e, "refresh") /\ Idle(e, "save")
  /\ call' = [call EXCEPT ![e].refresh = Asked]
  /\ UNCHANGED <<book, file, cached, form>>

\* The media tab, the library of the book, and a fetch after a lost network.
Look(e) ==
  /\ IsOpen(e) /\ Act /\ Idle(e, "look")
  /\ call' = [call EXCEPT ![e].look = Asked]
  /\ UNCHANGED <<book, file, cached, form>>

-----------------------------------------------------------------------------
(* The server. *)

Answer(e, k, row) ==
  call' = [call EXCEPT ![e][k] = [NoCall EXCEPT !.phase = "answered", !.got = row, !.live = call[e][k].live]]

UpdateMetadata(e) ==
  /\ call[e].save.phase = "sent"
  /\ book' = Patched(book, call[e].save)
  /\ Answer(e, "save", book')
  /\ UNCHANGED <<file, cached, form, acts>>

\* RefreshMetadata reads the whole file before it takes the writer.
ReadEpub(e) ==
  /\ call[e].refresh.phase = "sent"
  /\ call' = [call EXCEPT ![e].refresh.phase = "read", ![e].refresh.read = file]
  /\ UNCHANGED <<book, file, cached, form, acts>>

\* Mutant: the checksum is not looked at again.
RefreshMetadataBlindly(e) ==
  /\ call[e].refresh.phase = "read"
  /\ book' = Extracted(book, call[e].refresh.read) /\ Answer(e, "refresh", book')
  /\ UNCHANGED <<file, cached, form, acts>>

RefreshMetadata(e) ==
  /\ call[e].refresh.phase = "read"
  /\ IF call[e].refresh.read = file
     THEN book' = Extracted(book, file) /\ Answer(e, "refresh", book')
     ELSE call' = [call EXCEPT ![e].refresh = NoCall] /\ UNCHANGED book
  /\ UNCHANGED <<file, cached, form, acts>>

\* Every handler ends by reading the row again.
Get(e) ==
  /\ call[e].look.phase = "sent"
  /\ Answer(e, "look", book)
  /\ UNCHANGED <<book, file, cached, form, acts>>

\* A watched file has been replaced: checksum and fields in one transaction.
Rescan ==
  /\ file < Files /\ file' = file + 1
  /\ book' = Extracted(book, file')
  /\ UNCHANGED <<cached, form, call, acts>>

\* A call, or its answer, is lost: the editor shows an error and stays.
Lose(e, k) ==
  /\ ~Idle(e, k)
  /\ call' = [call EXCEPT ![e][k] = NoCall]
  /\ UNCHANGED <<book, file, cached, form, acts>>

-----------------------------------------------------------------------------
(* The answers. *)

\* patchBook, then onSaved where the editor that asked is still open.
Answered(e, k) ==
  /\ call[e][k].phase = "answered"
  /\ cached' = [cached EXCEPT ![e] = call[e][k].got]
  /\ form' = [form EXCEPT ![e] =
       IF k \in {"save", "refresh"} /\ call[e][k].live THEN FromBook(call[e][k].got) ELSE @]
  /\ call' = [call EXCEPT ![e][k] = NoCall]
  /\ UNCHANGED <<book, file, acts>>

-----------------------------------------------------------------------------
EditorInit ==
  /\ file = 1 /\ book = Extracted(NewRow, 1)
  /\ cached = [e \in Editors |-> book] /\ form = [e \in Editors |-> None]
  /\ call = [e \in Editors |-> [k \in Kinds |-> NoCall]]
  /\ acts = 0

EditorNext ==
  \/ Rescan
  \/ \E e \in Editors :
       \/ Open(e) \/ Close(e) \/ Save(e) \/ Refresh(e) \/ Look(e) \/ Use(e)
       \/ \E f \in Fields : ToggleLock(e, f) \/ \E v \in Typed : Type(e, f, v)
       \/ UpdateMetadata(e) \/ ReadEpub(e) \/ RefreshMetadata(e) \/ Get(e)
       \/ \E k \in Kinds : Lose(e, k) \/ Answered(e, k)

EditorSpec == EditorInit /\ [][EditorNext]_editorVars

-----------------------------------------------------------------------------
(* Type correctness of rows, forms and calls.                              *)
EditorTypeOK ==
  /\ book \in Row /\ file \in 1 .. Files
  /\ cached \in [Editors -> Row] /\ form \in [Editors -> Form \cup {None}]
  /\ call \in [Editors -> [Kinds -> Call]] /\ acts \in Nat

(* The origin shown beside a field is true: what is said to come from the  *)
(* EPUB was read from a file the edition has had, and what is said to come *)
(* from the online search is what the search said (docs/api.md:            *)
(* metadataProvenance), whichever editors, refreshes and rescans met.      *)
OriginsTrue ==
  \A f \in Fields :
    /\ book.origin[f] = "epub" => \E n \in 1 .. file : book.value[f] = Epub[n][f]
    /\ book.origin[f] = "online" => book.value[f] = Offer[f]

(* A refresh that overlaps a rescan does not bring back what an earlier    *)
(* file said: a field the EPUB changes takes what its present file says    *)
(* (metadata.go: the checksum is compared again under the writer).         *)
RefreshIsCurrent ==
  [][\A f \in Fields : book'.value[f] /= book.value[f] /\ book'.origin[f] = "epub" =>
       book'.value[f] = Epub[file'][f]]_editorVars

=============================================================================
