------------------------- MODULE MCConsoleRequests -------------------------
(***************************************************************************)
(* A small instance of ConsoleRequests: a page with its list, the sheets   *)
(* opened on it, and the server's followers.                               *)
(***************************************************************************)
EXTENDS ConsoleRequests, TLC

CONSTANTS p1, l1, s1, f1, x1

OneGroup == [r \in Requests |-> 1]
Desks == [w \in Lists \cup Sheets |-> p1]

=============================================================================
