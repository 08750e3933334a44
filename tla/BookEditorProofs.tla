-------------------------- MODULE BookEditorProofs --------------------------
(***************************************************************************)
(* Proofs about BookEditor, for any editors, fields, values, files and     *)
(* offers: types, that origins are true, and that a refresh brings back    *)
(* nothing an earlier file said.                                           *)
(***************************************************************************)
EXTENDS BookEditor, TLAPS

\* A form, or what a save sends, says "online" only of what the search said,
\* and never "epub".
Honest(b) ==
  \A f \in Fields : b.origin[f] /= "epub" /\ (b.origin[f] = "online" => b.value[f] = Offer[f])

FormsHonest ==
  \A e \in Editors :
    /\ form[e] /= None => Honest(form[e])
    /\ call[e].save.phase = "sent" => call[e].save.body /= None /\ Honest(call[e].save.body)

\* An answer carries a row.
AnswersRows ==
  \A e \in Editors, k \in Kinds : call[e][k].phase = "answered" => call[e][k].got \in Row

OriginsInv == EditorTypeOK /\ FormsHonest /\ AnswersRows /\ OriginsTrue

\* The calls after a step that changes one of them.
OnlyCall(e, k, new) ==
  /\ call' \in [Editors -> [Kinds -> Call]]
  /\ \A d \in Editors, j \in Kinds : call'[d][j] = IF d = e /\ j = k THEN new ELSE call[d][j]

\* OriginsTrue of any row, the EPUB having had k files.
TrueRow(b, k) ==
  \A f \in Fields :
    /\ b.origin[f] = "epub" => \E m \in 1 .. k : b.value[f] = Epub[m][f]
    /\ b.origin[f] = "online" => b.value[f] = Offer[f]

\* Rows made of rows.
LEMMA RowForms ==
  ASSUME NEW b \in Row
  PROVE  /\ \A c \in Call : c.body /= None => Patched(b, c) \in Row
         /\ \A n \in 1 .. Files : Extracted(b, n) \in Row
<1>2. ASSUME NEW c \in Call, c.body /= None
      PROVE  Patched(b, c) \in Row
  <2>0. c.body \in Row /\ c.fields \subseteq Fields
    BY <1>2 DEF Call, Form
  <2>. DEFINE Changed(f) == f \in c.fields /\ c.body.value[f] /= b.value[f]
  <2>1. [f \in Fields |-> IF Changed(f) THEN c.body.value[f] ELSE b.value[f]] \in [Fields -> Values]
    BY <2>0 DEF Row
  <2>2. [f \in Fields |-> IF ~Changed(f) THEN b.origin[f]
                          ELSE IF c.body.origin[f] = None THEN "manual" ELSE c.body.origin[f]]
          \in [Fields -> Origins \cup {None}]
    BY <2>0 DEF Row, Origins
  <2>. QED  BY <2>0, <2>1, <2>2 DEF Patched, Row
<1>3. ASSUME NEW n \in 1 .. Files
      PROVE  Extracted(b, n) \in Row
  <2>. DEFINE Taken(f) == f \notin b.locks /\ Epub[n][f] /= None
  <2>1. [f \in Fields |-> IF Taken(f) THEN Epub[n][f] ELSE b.value[f]] \in [Fields -> Values]
    BY EditorAssumption DEF Row
  <2>2. [f \in Fields |-> IF Taken(f) THEN "epub" ELSE b.origin[f]] \in [Fields -> Origins \cup {None}]
    BY DEF Row, Origins
  <2>. QED  BY <2>1, <2>2 DEF Extracted, Row
<1>. QED  BY <1>2, <1>3

\* A row that is extracted has true origins.
LEMMA ExtractedTrue ==
  ASSUME NEW b \in Row, NEW k \in Nat, NEW n \in 1 .. k, TrueRow(b, k)
  PROVE  TrueRow(Extracted(b, n), k)
<1>. SUFFICES ASSUME NEW f \in Fields
     PROVE  /\ Extracted(b, n).origin[f] = "epub" => \E m \in 1 .. k : Extracted(b, n).value[f] = Epub[m][f]
            /\ Extracted(b, n).origin[f] = "online" => Extracted(b, n).value[f] = Offer[f]
  BY DEF TrueRow
<1>1. CASE f \notin b.locks /\ Epub[n][f] /= None
  <2>1. Extracted(b, n).value[f] = Epub[n][f] /\ Extracted(b, n).origin[f] = "epub"
    BY <1>1 DEF Extracted
  <2>. QED  BY <2>1
<1>2. CASE ~(f \notin b.locks /\ Epub[n][f] /= None)
  <2>1. Extracted(b, n).value[f] = b.value[f] /\ Extracted(b, n).origin[f] = b.origin[f]
    BY <1>2 DEF Extracted
  <2>. QED  BY <2>1 DEF TrueRow
<1>. QED  BY <1>1, <1>2

\* A row that is patched by an honest form has true origins, and the patch
\* leaves what came from the EPUB as it was.
LEMMA PatchedTrue ==
  ASSUME NEW b \in Row, NEW k \in Nat, NEW c \in Call, Honest(c.body), TrueRow(b, k)
  PROVE  /\ TrueRow(Patched(b, c), k)
         /\ \A f \in Fields : Patched(b, c).origin[f] = "epub" => Patched(b, c).value[f] = b.value[f]
<1>. SUFFICES ASSUME NEW f \in Fields
     PROVE  /\ Patched(b, c).origin[f] = "epub" => \E m \in 1 .. k : Patched(b, c).value[f] = Epub[m][f]
            /\ Patched(b, c).origin[f] = "online" => Patched(b, c).value[f] = Offer[f]
            /\ Patched(b, c).origin[f] = "epub" => Patched(b, c).value[f] = b.value[f]
  BY DEF TrueRow
<1>1. CASE f \in c.fields /\ c.body.value[f] /= b.value[f]
  <2>1. /\ Patched(b, c).value[f] = c.body.value[f]
        /\ Patched(b, c).origin[f] = IF c.body.origin[f] = None THEN "manual" ELSE c.body.origin[f]
    BY <1>1 DEF Patched
  <2>. QED  BY <2>1 DEF Honest
<1>2. CASE ~(f \in c.fields /\ c.body.value[f] /= b.value[f])
  <2>1. Patched(b, c).value[f] = b.value[f] /\ Patched(b, c).origin[f] = b.origin[f]
    BY <1>2 DEF Patched
  <2>. QED  BY <2>1 DEF TrueRow
<1>. QED  BY <1>1, <1>2

\* What is sent is a call.
LEMMA Sent == NoCall \in Call /\ Asked \in Call /\ Asked.phase = "sent" /\ NoCall.phase = "idle"
<1>1. NoCall \in Call
  BY EditorAssumption DEF NoCall, Call
<1>2. Asked \in Call
  BY <1>1 DEF Asked, NoCall, Call
<1>. QED  BY <1>1, <1>2 DEF Asked, NoCall, Call

\* A save is a call.
LEMMA Saved ==
  ASSUME NEW row \in Row, NEW fields \in SUBSET Fields
  PROVE  /\ [Asked EXCEPT !.body = row, !.fields = fields] \in Call
         /\ [Asked EXCEPT !.body = row, !.fields = fields].body = row
         /\ [Asked EXCEPT !.body = row, !.fields = fields].phase = "sent"
BY Sent DEF Call, Form

\* An answer is a call.
LEMMA Reply ==
  ASSUME NEW row \in Row, NEW c \in Call
  PROVE  /\ [NoCall EXCEPT !.phase = "answered", !.got = row, !.live = c.live] \in Call
         /\ [NoCall EXCEPT !.phase = "answered", !.got = row, !.live = c.live].phase = "answered"
         /\ [NoCall EXCEPT !.phase = "answered", !.got = row, !.live = c.live].got = row
<1>1. [NoCall EXCEPT !.phase = "answered", !.got = row, !.live = c.live] \in Call
  BY Sent DEF Call
<1>. QED  BY <1>1, Sent DEF Call

\* One call changed.
LEMMA Changed ==
  ASSUME EditorTypeOK, NEW e \in Editors, NEW k \in Kinds, NEW new \in Call,
         call' = [call EXCEPT ![e][k] = new]
  PROVE  OnlyCall(e, k, new)
BY DEF EditorTypeOK, OnlyCall

\* A step that changes one call, and at most puts honest forms in place.
LEMMA CallStep ==
  ASSUME OriginsInv, NEW e \in Editors, NEW k \in Kinds, NEW new \in Call, OnlyCall(e, k, new),
         new.phase = "answered" => new.got \in Row,
         k = "save" /\ new.phase = "sent" => new.body /= None /\ Honest(new.body),
         \A d \in Editors : form'[d] = form[d] \/ (form'[d] /= None => Honest(form'[d]))
  PROVE  call' \in [Editors -> [Kinds -> Call]] /\ FormsHonest' /\ AnswersRows'
<1>0. FormsHonest /\ AnswersRows /\ "save" \in Kinds
  BY DEF OriginsInv, Kinds
<1>1. ASSUME NEW d \in Editors, call'[d].save.phase = "sent"
      PROVE  call'[d].save.body /= None /\ Honest(call'[d].save.body)
  <2>1. CASE d = e /\ k = "save"
    <3>1. call'[d].save = new
      BY <1>0, <2>1 DEF OnlyCall
    <3>. QED  BY <1>1, <2>1, <3>1
  <2>2. CASE ~(d = e /\ k = "save")
    <3>1. call'[d].save = call[d].save
      BY <1>0, <2>2 DEF OnlyCall
    <3>. QED  BY <1>0, <1>1, <3>1 DEF FormsHonest
  <2>. QED  BY <2>1, <2>2
<1>2. ASSUME NEW d \in Editors, form'[d] /= None
      PROVE  Honest(form'[d])
  BY <1>0, <1>2 DEF FormsHonest
<1>3. ASSUME NEW d \in Editors, NEW j \in Kinds, call'[d][j].phase = "answered"
      PROVE  call'[d][j].got \in Row
  BY <1>0, <1>3 DEF OnlyCall, AnswersRows
<1>. QED  BY <1>1, <1>2, <1>3 DEF FormsHonest, Honest, AnswersRows, OnlyCall

\* The three calls by name.
LEMMA Named ==
  ASSUME EditorTypeOK, NEW e \in Editors
  PROVE  /\ "save" \in Kinds /\ "refresh" \in Kinds /\ "look" \in Kinds
         /\ call[e].save \in Call /\ call[e].refresh \in Call /\ call[e].look \in Call
BY DEF EditorTypeOK, Kinds

\* An editor's own changes of its form leave it honest.
LEMMA EditHonest ==
  ASSUME OriginsInv, NEW e \in Editors, NEW new \in Form, Honest(new), Edit(e, new)
  PROVE  OriginsInv'
<1>1. EditorTypeOK'
  BY DEF Edit, Act, OriginsInv, EditorTypeOK
<1>2. FormsHonest'
  BY DEF Edit, OriginsInv, EditorTypeOK, FormsHonest, Honest
<1>. QED  BY <1>1, <1>2 DEF Edit, OriginsInv, OriginsTrue, AnswersRows

\* The invariant is inductive.
LEMMA OriginsStep ==
  ASSUME OriginsInv, [EditorNext]_editorVars
  PROVE  OriginsInv'
<1>. USE EditorAssumption
<1>0. EditorTypeOK /\ FormsHonest /\ AnswersRows /\ OriginsTrue
  BY DEF OriginsInv
<1>1. ASSUME NEW e \in Editors, NEW k \in Kinds
      PROVE  call[e][k] \in Call
  BY <1>0 DEF EditorTypeOK
<1>3. ASSUME NEW b \in Row
      PROVE  FromBook(b) \in Row /\ Honest(FromBook(b))
  <2>1. FromBook(b) \in Row
    BY DEF FromBook, Row
  <2>2. \A f \in Fields : FromBook(b).origin[f] = None
    BY DEF FromBook
  <2>3. None /= "epub" /\ None /= "online"
    BY DEF Origins
  <2>. QED  BY <2>1, <2>2, <2>3 DEF Honest
<1>4. ASSUME NEW e \in Editors, NEW f \in Fields, NEW v \in Typed, Type(e, f, v)
      PROVE  OriginsInv'
  <2>1. form[e] \in Row /\ Honest(form[e])
    BY <1>0, <1>4 DEF Type, IsOpen, EditorTypeOK, Form, FormsHonest
  <2>2. TypedIn(form[e], f, v) \in Row
    BY <2>1 DEF TypedIn, Row, Origins
  <2>3. Honest(TypedIn(form[e], f, v))
    BY <2>1 DEF TypedIn, Row, Honest
  <2>. QED  BY <1>4, <2>2, <2>3, EditHonest DEF Type, Form
<1>5. ASSUME NEW e \in Editors, NEW f \in Fields, ToggleLock(e, f)
      PROVE  OriginsInv'
  <2>1. form[e] \in Row /\ Honest(form[e])
    BY <1>0, <1>5 DEF ToggleLock, IsOpen, EditorTypeOK, Form, FormsHonest
  <2>. DEFINE new == [form[e] EXCEPT !.locks = IF f \in @ THEN @ \ {f} ELSE @ \cup {f}]
  <2>2. new \in Row /\ new.origin = form[e].origin /\ new.value = form[e].value
    BY <2>1 DEF Row
  <2>3. Honest(new)
    <3>. HIDE DEF new
    <3>. QED  BY <2>1, <2>2 DEF Honest
  <2>4. Edit(e, new)
    BY <1>5 DEF ToggleLock
  <2>. HIDE DEF new
  <2>. QED  BY <2>2, <2>3, <2>4, EditHonest DEF Form
<1>6. ASSUME NEW e \in Editors, Use(e)
      PROVE  OriginsInv'
  <2>1. form[e] \in Row /\ Honest(form[e])
    BY <1>0, <1>6 DEF Use, IsOpen, EditorTypeOK, Form, FormsHonest
  <2>. DEFINE patch == {f \in Fields : Offer[f] /= None /\ f \notin form[e].locks}
              value == [f \in Fields |-> IF f \in patch THEN Offer[f] ELSE form[e].value[f]]
              origin == [f \in Fields |-> IF f \in patch THEN "online" ELSE form[e].origin[f]]
              new == [value |-> value, locks |-> form[e].locks \cup patch, origin |-> origin]
  <2>2. value \in [Fields -> Values] /\ origin \in [Fields -> Origins \cup {None}]
    BY <2>1 DEF Row, Origins
  <2>3. new \in Row
    BY <2>1, <2>2 DEF Row
  <2>4. Honest(new)
    BY <2>1 DEF Honest
  <2>5. Edit(e, new)
    BY <1>6 DEF Use
  <2>. HIDE DEF new
  <2>. QED  BY <2>3, <2>4, <2>5, EditHonest DEF Form
<1>7. ASSUME NEW e \in Editors, Open(e)
      PROVE  OriginsInv'
  <2>1. FromBook(cached[e]) \in Row /\ Honest(FromBook(cached[e]))
    BY <1>0, <1>3 DEF EditorTypeOK
  <2>2. form' \in [Editors -> Form \cup {None}]
        /\ \A d \in Editors : form'[d] = form[d] \/ (form'[d] /= None => Honest(form'[d]))
    BY <1>0, <1>7, <2>1 DEF Open, EditorTypeOK, Form
  <2>3. CASE UNCHANGED <<call, acts>>
    <3>1. FormsHonest'
      BY <1>0, <2>2, <2>3 DEF FormsHonest, Honest
    <3>. QED  BY <1>0, <1>7, <2>2, <2>3, <3>1 DEF Open, OriginsInv, EditorTypeOK, OriginsTrue, AnswersRows
  <2>4. CASE Act /\ call' = [call EXCEPT ![e].look = Asked]
    <3>1. OnlyCall(e, "look", Asked)
      BY <1>0, <2>4, Sent, Named, Changed
    <3>2. call' \in [Editors -> [Kinds -> Call]] /\ FormsHonest' /\ AnswersRows'
      BY <1>0, <2>2, <3>1, Sent, Named, CallStep
    <3>3. book' = book /\ file' = file /\ cached' = cached
      BY <1>7 DEF Open
    <3>4. acts' \in Nat
      BY <1>0, <2>4 DEF Act, EditorTypeOK
    <3>. QED  BY <1>0, <2>2, <3>2, <3>3, <3>4 DEF OriginsInv, EditorTypeOK, OriginsTrue
  <2>. QED  BY <1>7, <2>3, <2>4 DEF Open
<1>8. ASSUME NEW e \in Editors, Close(e)
      PROVE  OriginsInv'
  <2>. DEFINE new(k) == [call[e][k] EXCEPT !.live = FALSE]
              calls == [k \in Kinds |-> new(k)]
  <2>1. ASSUME NEW k \in Kinds
        PROVE  /\ new(k) \in Call /\ new(k).phase = call[e][k].phase
               /\ new(k).body = call[e][k].body /\ new(k).got = call[e][k].got
    BY <1>1 DEF Call
  <2>2. call' = [call EXCEPT ![e] = calls] /\ form' = [form EXCEPT ![e] = None]
    BY <1>8 DEF Close
  <2>. HIDE DEF new
  <2>3. calls \in [Kinds -> Call]
    BY <2>1
  <2>4. \A k \in Kinds : calls[k] = new(k)
    OBVIOUS
  <2>. HIDE DEF calls
  <2>5. /\ call' \in [Editors -> [Kinds -> Call]] /\ form' \in [Editors -> Form \cup {None}]
        /\ call'[e] = calls /\ form'[e] = None
        /\ \A d \in Editors : d /= e => call'[d] = call[d] /\ form'[d] = form[d]
    BY <1>0, <2>2, <2>3 DEF EditorTypeOK
  <2>6. ASSUME NEW d \in Editors, NEW k \in Kinds
        PROVE  call'[d][k].phase = call[d][k].phase /\ call'[d][k].body = call[d][k].body /\ call'[d][k].got = call[d][k].got
    BY <2>1, <2>4, <2>5
  <2>7. FormsHonest'
    <3>1. ASSUME NEW d \in Editors
          PROVE  call'[d].save.phase = call[d].save.phase /\ call'[d].save.body = call[d].save.body
      BY <2>6 DEF Kinds
    <3>2. ASSUME NEW d \in Editors, form'[d] /= None
          PROVE  Honest(form'[d])
      BY <1>0, <2>5, <3>2 DEF FormsHonest
    <3>3. ASSUME NEW d \in Editors, call'[d].save.phase = "sent"
          PROVE  call'[d].save.body /= None /\ Honest(call'[d].save.body)
      BY <1>0, <3>1, <3>3 DEF FormsHonest
    <3>. QED  BY <3>2, <3>3 DEF FormsHonest, Honest
  <2>8. AnswersRows'
    BY <1>0, <2>6 DEF AnswersRows
  <2>. QED  BY <1>0, <1>8, <2>5, <2>7, <2>8 DEF Close, OriginsInv, EditorTypeOK, OriginsTrue
<1>9. ASSUME NEW e \in Editors, Save(e)
      PROVE  OriginsInv'
  <2>. DEFINE fields == {f \in Fields : form[e].value[f] /= cached[e].value[f]}
              new == [Asked EXCEPT !.body = form[e], !.fields = fields]
  <2>1. form[e] \in Row /\ form[e] /= None /\ Honest(form[e])
    BY <1>0, <1>9 DEF Save, IsOpen, EditorTypeOK, Form, FormsHonest
  <2>2. fields \in SUBSET Fields
    OBVIOUS
  <2>. HIDE DEF fields
  <2>3. new \in Call /\ new.body = form[e] /\ new.phase = "sent"
    BY <2>1, <2>2, Saved
  <2>4. call' = [call EXCEPT ![e].save = new] /\ form' = form
    BY <1>9 DEF Save, fields
  <2>. HIDE DEF new
  <2>5. OnlyCall(e, "save", new)
    BY <1>0, <2>3, <2>4, Named, Changed
  <2>6. call' \in [Editors -> [Kinds -> Call]] /\ FormsHonest' /\ AnswersRows'
    BY <2>1, <2>3, <2>4, <2>5, <1>0, Named, CallStep
  <2>7. book' = book /\ file' = file /\ cached' = cached
    BY <1>9 DEF Save
  <2>8. acts' \in Nat
    BY <1>0, <1>9 DEF Save, Act, EditorTypeOK
  <2>. QED  BY <1>0, <2>4, <2>6, <2>7, <2>8 DEF OriginsInv, EditorTypeOK, OriginsTrue
<1>10. ASSUME NEW e \in Editors, NEW k \in {"refresh", "look"}, NEW new \in {NoCall, Asked}, OnlyCall(e, k, new),
              form' = form
       PROVE  call' \in [Editors -> [Kinds -> Call]] /\ FormsHonest' /\ AnswersRows'
  <2>1. k \in Kinds /\ k /= "save" /\ new \in Call /\ new.phase /= "answered"
    BY <1>10, Sent DEF Kinds
  <2>. QED  BY <1>10, <2>1, CallStep
<1>11. ASSUME NEW e \in Editors, Refresh(e)
       PROVE  OriginsInv'
  <2>1. OnlyCall(e, "refresh", Asked)
    BY <1>0, <1>11, Sent, Named, Changed DEF Refresh
  <2>2. call' \in [Editors -> [Kinds -> Call]] /\ FormsHonest' /\ AnswersRows'
    BY <1>10, <1>11, <2>1 DEF Refresh
  <2>. QED  BY <1>0, <1>11, <2>2 DEF Refresh, Act, OriginsInv, EditorTypeOK, OriginsTrue
<1>12. ASSUME NEW e \in Editors, Look(e)
       PROVE  OriginsInv'
  <2>1. OnlyCall(e, "look", Asked)
    BY <1>0, <1>12, Sent, Named, Changed DEF Look
  <2>2. call' \in [Editors -> [Kinds -> Call]] /\ FormsHonest' /\ AnswersRows'
    BY <1>10, <1>12, <2>1 DEF Look
  <2>. QED  BY <1>0, <1>12, <2>2 DEF Look, Act, OriginsInv, EditorTypeOK, OriginsTrue
<1>13. ASSUME NEW e \in Editors, NEW k \in Kinds, NEW row \in Row, Answer(e, k, row), form' = form
       PROVE  call' \in [Editors -> [Kinds -> Call]] /\ FormsHonest' /\ AnswersRows'
  <2>. DEFINE new == [NoCall EXCEPT !.phase = "answered", !.got = row, !.live = call[e][k].live]
  <2>1. new \in Call /\ new.phase = "answered" /\ new.got = row
    BY <1>1, Reply
  <2>2. call' = [call EXCEPT ![e][k] = new]
    BY <1>13 DEF Answer
  <2>. HIDE DEF new
  <2>3. OnlyCall(e, k, new)
    BY <1>0, <2>1, <2>2, Changed
  <2>. QED  BY <1>13, <2>1, <2>3, CallStep
<1>14. ASSUME NEW n \in 1 .. Files, n <= file', file' \in file .. Files, book' = Extracted(book, n)
       PROVE  book' \in Row /\ OriginsTrue' /\ file' \in 1 .. Files
  <2>1. book \in Row /\ file \in 1 .. Files
    BY <1>0 DEF EditorTypeOK
  <2>2. file' \in Nat /\ file <= file' /\ file' \in 1 .. Files
    BY <1>14, <2>1
  <2>3. TrueRow(book, file')
    BY <1>0, <2>1, <2>2 DEF OriginsTrue, TrueRow
  <2>5. TrueRow(book', file')
    BY <1>14, <2>1, <2>2, <2>3, ExtractedTrue
  <2>4. book' \in Row
    BY <1>14, <2>1, RowForms
  <2>. QED  BY <2>2, <2>4, <2>5 DEF OriginsTrue, TrueRow
<1>15. ASSUME NEW e \in Editors, UpdateMetadata(e)
       PROVE  OriginsInv'
  <2>. DEFINE c == call[e].save
  <2>1. c \in Call /\ c.phase = "sent" /\ c.body /= None /\ Honest(c.body) /\ book \in Row /\ file \in 1 .. Files
    BY <1>0, <1>15, Named DEF UpdateMetadata, FormsHonest, EditorTypeOK
  <2>2. book' = Patched(book, c) /\ book' \in Row /\ file' = file
    BY <1>15, <2>1, RowForms DEF UpdateMetadata
  <2>. HIDE DEF c
  <2>3. TrueRow(book', file)
    <3>1. TrueRow(book, file) /\ file \in Nat
      BY <1>0, <2>1 DEF OriginsTrue, TrueRow
    <3>. QED  BY <2>1, <2>2, <3>1, PatchedTrue
  <2>4. OriginsTrue'
    BY <2>2, <2>3 DEF OriginsTrue, TrueRow
  <2>5. call' \in [Editors -> [Kinds -> Call]] /\ FormsHonest' /\ AnswersRows'
    BY <1>0, <1>13, <1>15, <2>2, Named DEF UpdateMetadata
  <2>. QED  BY <1>0, <1>15, <2>2, <2>4, <2>5 DEF UpdateMetadata, OriginsInv, EditorTypeOK
<1>16. ASSUME NEW e \in Editors, ReadEpub(e)
       PROVE  OriginsInv'
  <2>. DEFINE new == [call[e]["refresh"] EXCEPT !.phase = "read", !.read = file]
  <2>0. "refresh" \in Kinds /\ call[e] \in [Kinds -> Call] /\ call[e]["refresh"] \in Call /\ file \in 0 .. Files
    BY <1>0 DEF EditorTypeOK, Kinds
  <2>1. new \in Call /\ new.phase = "read"
    BY <2>0 DEF Call
  <2>2. call' = [call EXCEPT ![e].refresh.phase = "read", ![e].refresh.read = file] /\ form' = form
    BY <1>16 DEF ReadEpub
  <2>3. call' = [call EXCEPT ![e] = [call[e] EXCEPT !["refresh"] = new]]
    BY <1>0, <2>0, <2>2, Zenon DEF EditorTypeOK
  <2>4. call' = [call EXCEPT ![e]["refresh"] = new]
    BY <2>0, <2>3, Zenon
  <2>. HIDE DEF new
  <2>5. OnlyCall(e, "refresh", new)
    BY <1>0, <2>0, <2>1, <2>4, Changed
  <2>6. call' \in [Editors -> [Kinds -> Call]] /\ FormsHonest' /\ AnswersRows'
    BY <2>0, <2>1, <2>2, <2>5, CallStep
  <2>. QED  BY <1>0, <1>16, <2>6 DEF ReadEpub, OriginsInv, EditorTypeOK, OriginsTrue
<1>17. ASSUME NEW e \in Editors, RefreshMetadata(e)
       PROVE  OriginsInv'
  <2>1. file \in 1 .. Files /\ file' = file /\ form' = form /\ cached' = cached /\ acts' = acts
    BY <1>0, <1>17 DEF RefreshMetadata, EditorTypeOK
  <2>2. CASE call[e].refresh.read = file
    <3>1. book' = Extracted(book, file) /\ Answer(e, "refresh", book')
      BY <1>17, <2>2 DEF RefreshMetadata
    <3>2. book' \in Row /\ OriginsTrue' /\ file' \in 1 .. Files
      BY <1>14, <2>1, <3>1
    <3>3. call' \in [Editors -> [Kinds -> Call]] /\ FormsHonest' /\ AnswersRows'
      BY <1>0, <1>13, <2>1, <3>1, <3>2, Named
    <3>. QED  BY <1>0, <2>1, <3>2, <3>3 DEF OriginsInv, EditorTypeOK
  <2>3. CASE call[e].refresh.read /= file
    <3>1. book' = book /\ call' = [call EXCEPT ![e].refresh = NoCall]
      BY <1>17, <2>3 DEF RefreshMetadata
    <3>2. OnlyCall(e, "refresh", NoCall)
      BY <1>0, <3>1, Sent, Named, Changed
    <3>3. call' \in [Editors -> [Kinds -> Call]] /\ FormsHonest' /\ AnswersRows'
      BY <1>10, <2>1, <3>2
    <3>. QED  BY <1>0, <2>1, <3>1, <3>3 DEF OriginsInv, EditorTypeOK, OriginsTrue
  <2>. QED  BY <2>2, <2>3
<1>18. ASSUME NEW e \in Editors, Get(e)
       PROVE  OriginsInv'
  <2>1. call' \in [Editors -> [Kinds -> Call]] /\ FormsHonest' /\ AnswersRows'
    BY <1>0, <1>13, <1>18, Named DEF Get, EditorTypeOK
  <2>. QED  BY <1>0, <1>18, <2>1 DEF Get, OriginsInv, EditorTypeOK, OriginsTrue
<1>19. CASE Rescan
  <2>1. file' \in file .. Files /\ file' \in 1 .. Files /\ file' <= file' /\ book' = Extracted(book, file')
    BY <1>0, <1>19 DEF Rescan, EditorTypeOK
  <2>2. book' \in Row /\ OriginsTrue' /\ file' \in 1 .. Files
    BY <1>14, <2>1
  <2>3. FormsHonest' /\ AnswersRows'
    BY <1>0, <1>19 DEF Rescan, FormsHonest, Honest, AnswersRows
  <2>. QED  BY <1>0, <1>19, <2>2, <2>3 DEF Rescan, OriginsInv, EditorTypeOK
<1>20. ASSUME NEW e \in Editors, NEW k \in Kinds, Lose(e, k)
       PROVE  OriginsInv'
  <2>1. OnlyCall(e, k, NoCall) /\ form' = form
    BY <1>0, <1>20, Sent, Changed DEF Lose
  <2>2. call' \in [Editors -> [Kinds -> Call]] /\ FormsHonest' /\ AnswersRows'
    BY <2>1, Sent, CallStep
  <2>. QED  BY <1>0, <1>20, <2>2 DEF Lose, OriginsInv, EditorTypeOK, OriginsTrue
<1>21. ASSUME NEW e \in Editors, NEW k \in Kinds, Answered(e, k)
       PROVE  OriginsInv'
  <2>1. call[e][k].got \in Row
    BY <1>0, <1>21 DEF Answered, AnswersRows
  <2>2. FromBook(call[e][k].got) \in Row /\ Honest(FromBook(call[e][k].got))
    BY <1>3, <2>1
  <2>3. /\ cached' \in [Editors -> Row] /\ form' \in [Editors -> Form \cup {None}]
        /\ \A d \in Editors : form'[d] = form[d] \/ (form'[d] /= None => Honest(form'[d]))
    BY <1>0, <1>21, <2>1, <2>2 DEF Answered, EditorTypeOK, Form
  <2>4. OnlyCall(e, k, NoCall)
    BY <1>0, <1>21, Sent, Changed DEF Answered
  <2>5. call' \in [Editors -> [Kinds -> Call]] /\ FormsHonest' /\ AnswersRows'
    BY <2>3, <2>4, Sent, CallStep
  <2>. QED  BY <1>0, <1>21, <2>3, <2>5 DEF Answered, OriginsInv, EditorTypeOK, OriginsTrue
<1>22. CASE UNCHANGED editorVars
  BY <1>0, <1>22 DEF editorVars, OriginsInv, EditorTypeOK, FormsHonest, Honest, OriginsTrue, AnswersRows
<1>. QED
  BY <1>4, <1>5, <1>6, <1>7, <1>8, <1>9, <1>11, <1>12, <1>15, <1>16, <1>17, <1>18, <1>19, <1>20, <1>21, <1>22
  DEF EditorNext
-----------------------------------------------------------------------------
\* The invariant holds of the first row, extracted from the first file.
LEMMA OriginsInit == EditorInit => OriginsInv
<1>. SUFFICES ASSUME EditorInit PROVE OriginsInv
  OBVIOUS
<1>. USE EditorAssumption
<1>1. NewRow \in Row /\ TrueRow(NewRow, 1)
  <2>1. NewRow \in Row
    BY DEF NewRow, Row
  <2>2. \A f \in Fields : NewRow.origin[f] = None
    BY DEF NewRow
  <2>3. None /= "epub" /\ None /= "online"
    BY DEF Origins
  <2>. QED  BY <2>1, <2>2, <2>3 DEF TrueRow
<1>2. 1 \in 1 .. Files /\ file = 1 /\ book = Extracted(NewRow, 1)
  BY DEF EditorInit
<1>3. book \in Row /\ TrueRow(book, 1)
  BY <1>1, <1>2, RowForms, ExtractedTrue
<1>4. /\ cached \in [Editors -> Row] /\ form \in [Editors -> Form \cup {None}]
      /\ call \in [Editors -> [Kinds -> Call]] /\ acts \in Nat
  BY <1>3, Sent DEF EditorInit
<1>5. FormsHonest /\ AnswersRows
  <2>1. \A e \in Editors : form[e] = None
    BY DEF EditorInit
  <2>2. \A e \in Editors, k \in Kinds : call[e][k] = NoCall
    BY DEF EditorInit
  <2>3. NoCall.phase /= "sent" /\ NoCall.phase /= "answered"
    BY DEF NoCall
  <2>4. \A e \in Editors : call[e].save = NoCall
    BY <2>2 DEF Kinds
  <2>. QED  BY <2>1, <2>2, <2>3, <2>4 DEF FormsHonest, AnswersRows
<1>. QED  BY <1>2, <1>3, <1>4, <1>5 DEF OriginsInv, EditorTypeOK, OriginsTrue, TrueRow

\* The invariant holds for ever.
LEMMA OriginsInvariant == EditorSpec => []OriginsInv
<1>1. OriginsInv /\ [EditorNext]_editorVars => OriginsInv'
  BY OriginsStep
<1>. QED  BY OriginsInit, <1>1, PTL DEF EditorSpec

\* Rows, forms and calls keep their types: the details of one book, the
\* copies of it in open editors and what travels between them.
THEOREM EditorTypeCorrect == EditorSpec => []EditorTypeOK
<1>1. OriginsInv => EditorTypeOK
  BY DEF OriginsInv
<1>. QED  BY OriginsInvariant, <1>1, PTL

\* The origin the server keeps beside a field is true, whatever saves,
\* refreshes and rescans met: forms are honest, so a save cannot make it lie.
THEOREM EditorOriginsTrue == EditorSpec => []OriginsTrue
<1>1. OriginsInv => OriginsTrue
  BY DEF OriginsInv
<1>. QED  BY OriginsInvariant, <1>1, PTL

\* A field that the EPUB changes takes what its present file says: a refresh
\* compares the file again when it writes, and saves never speak for the EPUB.
THEOREM EditorRefreshIsCurrent == EditorSpec => RefreshIsCurrent
<1>. DEFINE Current == \A f \in Fields : book'.value[f] /= book.value[f] /\ book'.origin[f] = "epub" =>
                         book'.value[f] = Epub[file'][f]
<1>1. ASSUME OriginsInv, [EditorNext]_editorVars
      PROVE  Current
  <2>0. EditorTypeOK /\ FormsHonest /\ book \in Row /\ file \in 1 .. Files
    BY <1>1 DEF OriginsInv, EditorTypeOK
  <2>1. ASSUME NEW n, book' = Extracted(book, n), file' = n
        PROVE  Current
    <3>. SUFFICES ASSUME NEW f \in Fields, book'.value[f] /= book.value[f]
         PROVE  book'.value[f] = Epub[n][f]
      BY <2>1
    <3>1. Extracted(book, n).value[f] = IF f \notin book.locks /\ Epub[n][f] /= None THEN Epub[n][f] ELSE book.value[f]
      BY DEF Extracted
    <3>. QED  BY <2>1, <3>1
  <2>2. CASE Rescan
    BY <2>1, <2>2 DEF Rescan
  <2>3. ASSUME NEW e \in Editors, RefreshMetadata(e)
        PROVE  Current
    <3>1. CASE call[e].refresh.read = file
      <4>1. book' = Extracted(book, file) /\ file' = file
        BY <2>3, <3>1 DEF RefreshMetadata
      <4>. QED  BY <2>1, <4>1
    <3>2. CASE call[e].refresh.read /= file
      <4>1. book' = book
        BY <2>3, <3>2 DEF RefreshMetadata
      <4>. QED  BY <4>1
    <3>. QED  BY <3>1, <3>2
  <2>4. ASSUME NEW e \in Editors, UpdateMetadata(e)
        PROVE  Current
    <3>1. /\ call[e].save \in Call /\ Honest(call[e].save.body)
          /\ book' = Patched(book, call[e].save)
      BY <2>0, <2>4, Named DEF UpdateMetadata, FormsHonest
    <3>2. TrueRow(book, file) /\ file \in Nat
      BY <1>1, <2>0 DEF OriginsInv, OriginsTrue, TrueRow
    <3>3. \A f \in Fields : book'.origin[f] = "epub" => book'.value[f] = book.value[f]
      BY <2>0, <3>1, <3>2, PatchedTrue
    <3>. QED  BY <3>3
  <2>5. CASE UNCHANGED book
    BY <2>5
  <2>. HIDE DEF Current
  <2>. QED
    BY <1>1, <2>2, <2>3, <2>4, <2>5
    DEF EditorNext, editorVars, Open, Close, Save, Refresh, Look, Use, ToggleLock, Type, Edit, ReadEpub, Get,
        Lose, Answered
<1>. QED  BY OriginsInvariant, <1>1, PTL DEF EditorSpec, RefreshIsCurrent

=============================================================================
