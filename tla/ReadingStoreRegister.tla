------------------------ MODULE ReadingStoreRegister ------------------------
(***************************************************************************)
(* The progress store as a last-writer-wins register per book: what a      *)
(* commit adds is accepted at once, what a removal takes is forgotten, and *)
(* an open transaction is invisible.                                       *)
(***************************************************************************)
EXTENDS ReadingStore

\* A row without what the register does not promise.
Entry(r) == [rev |-> r.rev, change |-> r.change]
BookOfEntry(e) == e.change.book

Register == INSTANCE ProgressRegister WITH
  Entries  <- [rev : Nat, change : Changes],
  BookOf   <- BookOfEntry,
  Newer    <- Beats,
  AllBooks <- Books,
  accepted <- {Entry(e) : e \in db.events},
  current  <- {Entry(p) : p \in db.progress},
  kept     <- {b \in Books : Intact(b, editions)}

\* The committed tables behave as the register does for every book whose
\* editions are all in the catalog (Sync in reading/store.go).
ImplementsRegister == Register!Spec

=============================================================================
