-------------------------- MODULE MCConsoleSession --------------------------
(***************************************************************************)
(* Small instances of ConsoleSession.                                      *)
(***************************************************************************)
EXTENDS ConsoleSession, TLC

CONSTANTS t1, t2, c1, c2, r1, r2, ada, bob

Interchangeable == Permutations({t1, t2}) \cup Permutations({c1, c2}) \cup Permutations({r1, r2})

=============================================================================
