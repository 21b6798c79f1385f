--------------------------- MODULE MCMemoryStore ----------------------------
(***************************************************************************)
(* Small instances of MemoryStore. Callers, ids and keywords are           *)
(* interchangeable model values; the pks are numbers, so they are not.     *)
(***************************************************************************)
EXTENDS MemoryStore, TLC

Symmetry == Permutations(Callers) \cup Permutations(Ids) \cup Permutations(Keywords)
=============================================================================
