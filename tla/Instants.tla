------------------------------ MODULE Instants ------------------------------
(***************************************************************************)
(* Points in time as the clients and the server exchange them.             *)
(*                                                                         *)
(* An instant is a whole second and the digits after the point, kept here  *)
(* as one digit (tenths).  The Android client compares instants (Later);   *)
(* the server compares the RFC 3339 text it stored for them (TextLater).   *)
(***************************************************************************)
EXTENDS Integers

Instant == [sec : Nat, frac : 0 .. 9]

\* a is after b: java.time.Instant.isAfter, Go's Time.After.
Later(a, b) ==
  \/ a.sec > b.sec
  \/ a.sec = b.sec /\ a.frac > b.frac

\* time.RFC3339Nano drops trailing zeros and, when none is left, the point:
\* "...:00Z" and "...:00.5Z".  "Z" sorts after "." and after every digit, so
\* the text with no fraction is the last of its second.
TextFrac(t) == IF t.frac = 0 THEN 10 ELSE t.frac

\* The stored text of a sorts after the stored text of b (SQLite BINARY).
TextLater(a, b) ==
  \/ a.sec > b.sec
  \/ a.sec = b.sec /\ TextFrac(a) > TextFrac(b)

=============================================================================
