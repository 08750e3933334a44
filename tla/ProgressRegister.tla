-------------------------- MODULE ProgressRegister --------------------------
(***************************************************************************)
(* What the progress store promises: per book, a register that holds the   *)
(* newest entry ever accepted.  Entries are accepted in any order and any  *)
(* number at a time, and an accepted entry stays.  The promise is for the  *)
(* books in kept; Forget ends it for a book whose editions are removed.    *)
(***************************************************************************)

CONSTANTS
  Entries,        \* what may be accepted
  BookOf(_),      \* the book an entry is about
  Newer(_, _),    \* the order that decides which entry is current
  AllBooks

VARIABLES accepted, current, kept

vars == <<accepted, current, kept>>

\* current holds, for every kept book, an accepted entry no accepted entry of
\* the book is newer than.
Settled(acc, cur, books) ==
  \A e \in acc : BookOf(e) \in books =>
    \E c \in cur \cap acc : BookOf(c) = BookOf(e) /\ (c = e \/ Newer(c, e))

Init == accepted = {} /\ current = {} /\ kept = AllBooks

Accept ==
  /\ accepted \subseteq accepted'
  /\ accepted' \subseteq Entries
  /\ Settled(accepted', current', kept)
  /\ UNCHANGED kept

Forget ==
  /\ kept' \subseteq kept
  /\ accepted' \subseteq accepted
  /\ current' \subseteq current
  /\ \A e \in accepted : BookOf(e) \in kept' => e \in accepted'
  /\ \A e \in current : BookOf(e) \in kept' => e \in current'

Next == Accept \/ Forget

Spec == Init /\ [][Next]_vars

=============================================================================
