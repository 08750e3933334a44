-------------------------- MODULE MCConsoleReaders --------------------------
(***************************************************************************)
(* A small instance of ConsoleReaders: two administrators and a reader.    *)
(***************************************************************************)
EXTENDS ConsoleReaders, TLC

CONSTANTS ada, bob, rita, c1, c2

Interchangeable == Permutations({c1, c2})

=============================================================================
