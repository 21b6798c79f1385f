------------------------------ MODULE MCTuiApp ------------------------------
(***************************************************************************)
(* Small instances of TuiApp: two memories, a first service and those two  *)
(* reconnects can build.                                                   *)
(***************************************************************************)
EXTENDS TuiApp, TLC

CONSTANTS h1, h2, h3

Symmetry == Permutations(Ids) \cup Permutations({h2, h3})
=============================================================================
