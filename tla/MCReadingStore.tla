--------------------------- MODULE MCReadingStore ---------------------------
(***************************************************************************)
(* Small instances of ReadingStore.                                        *)
(***************************************************************************)
EXTENDS ReadingStoreRegister, TLC

At(s, f) == [sec |-> s, frac |-> f]

Progress(i, b, ed, t, p) ==
  [id |-> i, book |-> b, edition |-> ed, at |-> t, place |-> p, form |-> "good"]

\* Book 1 has an uploaded edition 1 and a watched edition 2; book 2 only the
\* watched edition 3.
MCBookOf == 1 :> 1 @@ 2 :> 1 @@ 3 :> 2

MCChanges ==
  { Progress(1, 1, 1, At(0, 5), "end"),
    Progress(2, 1, 2, At(1, 0), "mid"),
    Progress(3, 1, 1, At(1, 0), "end"),      \* the same instant as 2
    Progress(4, 2, 3, At(2, 0), "mid"),      \* ahead of the server's clock
    Progress(4, 2, 3, At(0, 5), "mid"),      \* the same ID, another payload
    Progress(5, 2, 1, At(0, 5), "mid"),      \* an edition of another book
    [Progress(6, 2, 3, At(0, 5), "mid") EXCEPT !.form = "malformed"],
    [Progress(7, 1, 1, At(0, 5), "mid") EXCEPT !.form = "wrong_format"] }

Valid == {c \in MCChanges : c.id <= 4}

MCBatches ==
  {<<>>} \cup {<<c>> : c \in MCChanges}
         \cup {<<c, d>> : c \in {e \in Valid : e.id = 1}, d \in Valid}
         \cup {<<c, c, c>> : c \in {e \in Valid : e.id = 1}}

=============================================================================
