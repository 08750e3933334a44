---------------------------- MODULE MCBookEditor ----------------------------
(***************************************************************************)
(* A small instance of BookEditor: two editors of a book with two fields,  *)
(* whose EPUB is replaced once by one that also names a series.            *)
(***************************************************************************)
EXTENDS BookEditor, TLC

CONSTANTS e1, e2

Replaced == << [title |-> "old", series |-> None], [title |-> "new", series |-> "harbour"] >>
Found == [title |-> "found", series |-> None]
Interchangeable == Permutations({e1, e2})

=============================================================================
