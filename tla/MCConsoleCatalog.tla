-------------------------- MODULE MCConsoleCatalog --------------------------
(***************************************************************************)
(* A small instance of ConsoleCatalog.                                     *)
(***************************************************************************)
EXTENDS ConsoleCatalog, TLC

CONSTANTS main, attic, i1

\* Bound: a second library and a third book are explored apart.
SecondLibraryApart == attic \in libraries => made <= 2

=============================================================================
